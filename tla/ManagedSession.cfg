SPECIFICATION FairSpec
CONSTANTS
    Tasks = {t1, t2}
    Users = {alice}
    Sessions = {s1, s2}
    Nobody = Nobody
    NoSession = NoSession
    MaxAttempts = 2
    Fallback = TRUE
    MaxCalls = 4
CHECK_DEADLOCK FALSE
INVARIANTS
    PromptOnce ContinuesConversation ClosedForGood
PROPERTIES
    ResetSticks CallsEnd
