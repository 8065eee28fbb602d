SPECIFICATION Spec
CONSTANTS
    c1 = c1
    c2 = c2
    p1 = p1
    p2 = p2
    None = None
    Callers = {c1, c2}
    Procs = {p1, p2}
    MayFail = TRUE
PROPERTIES
    CallsReturn
