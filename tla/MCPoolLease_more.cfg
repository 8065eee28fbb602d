SPECIFICATION Spec
CONSTANTS
    p1 = p1  p2 = p2
    c1 = c1  c2 = c2  c3 = c3
    s1 = s1  s2 = s2
    Callers = {p1, p2}
    Clients = {c1, c2, c3}
    Sessions = {s1, s2}
    NoSession = NoSession
    NoClient = NoClient
    Requests <- LeaseRequests
    ProviderSessions <- AnyProvider
    PoolSize = 1
    MaxConnections = 2
    MaxUses = 2
    StartupAttempts = 1
    CrossSession = TRUE
    Keepalive = FALSE
    Events = {"resume", "switch", "unfit", "cancel", "close"}
SYMMETRY Symmetric
INVARIANTS
    SessionOwnedOnce OneHolder LeasedSessionsDiffer IdleBounded
PROPERTIES
    YieldMatchesRequest RefinesLease
