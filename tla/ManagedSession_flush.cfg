SPECIFICATION Spec
CONSTANTS
    Tasks = {t1, t2, t3}
    Users = {alice}
    Sessions = {s1}
    Nobody = Nobody
    NoSession = NoSession
    MaxAttempts = 2
    Fallback = TRUE
    MaxCalls = 5
CHECK_DEADLOCK FALSE
PROPERTIES
    CloseFlushes
