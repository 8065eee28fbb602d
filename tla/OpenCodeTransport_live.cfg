SPECIFICATION Spec
CONSTANTS
    p1 = p1
    None = None
    Callers = {}
    Procs = {p1}
    MayFail = FALSE
    Frames = 1
    Limit = 1
    SlowThreads = FALSE
    Descendants = FALSE
PROPERTIES
    LossNoticed JobsEnd
