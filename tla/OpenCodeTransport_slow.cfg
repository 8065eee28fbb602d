SPECIFICATION Spec
CONSTANTS
    p1 = p1
    p2 = p2
    None = None
    Callers = {}
    Procs = {p1, p2}
    MayFail = TRUE
    Frames = 1
    Limit = 1
    SlowThreads = TRUE
    Descendants = FALSE
INVARIANTS
    OwnConnection
