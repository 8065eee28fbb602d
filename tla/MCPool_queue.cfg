SPECIFICATION FairSpec
CONSTANTS
    p1 = p1  p2 = p2  p3 = p3
    c1 = c1  c2 = c2  c3 = c3
    s1 = s1  s2 = s2
    Callers = {p1, p2, p3}
    Clients = {c1, c2, c3}
    Sessions = {s1}
    NoSession = NoSession
    NoClient = NoClient
    Requests <- AllRequests
    ProviderSessions <- AnySession
    PoolSize = 1
    MaxConnections = 1
    MaxUses = 2
    StartupAttempts = 1
    CrossSession = FALSE
    Keepalive = TRUE
    Events = {"ping", "connect", "timeout", "close"}
INVARIANTS
    NoMissedWakeup
PROPERTIES
    FifoService WaiterServed CloseAllEnds
