SPECIFICATION ClientsSpec
CONSTANTS
    c1 = c1
    c2 = c2
    p1 = p1
    p2 = p2
    None = None
    Callers = {c1, c2}
    Procs = {p1, p2}
    MayFail = TRUE
    Frames = 1
    Limit = 1
    SlowThreads = FALSE
    Descendants = FALSE
SYMMETRY Symmetric
INVARIANTS
    OwnConnection BacklogExact CleanupKeepsLater
PROPERTIES
    RefinesOwner
