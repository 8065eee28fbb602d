SPECIFICATION StateSpec
CONSTANTS
    t1 = t1  t2 = t2
    s1 = s1  s2 = s2
    Tasks = {t1, t2}
    Sessions = {s1, s2}
    None = None
    Calls <- AllCalls
    Concurrent = FALSE
    MaxCalls = 4
    MaxNews = 1
    MaxTurns = 0
    MaxText = 0
    Ids = {}
    MaxTasks = 0
    MaxWaits = 0
    MaxLinks = 1
    MaxEpochs = 0
SYMMETRY Symmetric
INVARIANTS
    IdentityAgrees OwnMetadata
PROPERTIES
    WholeAnswer
