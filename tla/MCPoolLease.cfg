SPECIFICATION Spec
CONSTANTS
    p1 = p1  p2 = p2
    c1 = c1  c2 = c2  c3 = c3
    s1 = s1
    Callers = {p1, p2}
    Clients = {c1, c2, c3}
    Sessions = {s1}
    NoSession = NoSession
    NoClient = NoClient
    Requests <- SomeRequests
    ProviderSessions <- AnyProvider
    PoolSize = 1
    MaxConnections = 2
    MaxUses = 2
    StartupAttempts = 2
    CrossSession = TRUE
    Keepalive = FALSE
    Events = {"resume", "ensure", "connect", "disconnect", "cancel", "unfit", "switch", "close"}
SYMMETRY Symmetric
INVARIANTS
    PhysicalCapacity EveryTransportOwned CloseAllComplete EntryAttended SessionOwnedOnce
PROPERTIES
    ClaimOutlivesTransport AnonymousIsolation RefinesLease
