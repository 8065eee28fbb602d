SPECIFICATION Spec
CONSTANTS
    c1 = c1
    p1 = p1
    p2 = p2
    None = None
    Callers = {c1}
    Procs = {p1, p2}
    MayFail = FALSE
PROPERTIES
    CallsReturn
