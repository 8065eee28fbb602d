SPECIFICATION Spec
CONSTANTS
    p1 = p1  p2 = p2
    t1 = t1  t2 = t2  t3 = t3  t4 = t4
    k1 = k1  v1 = v1  v2 = v2
    Callers = {p1, p2}
    Savers = {t1, t2, t3, t4}
    Keys = {k1}
    Values = {v1, v2}
    Absent = Absent
    NoTask = NoTask
    Modes = {TRUE}
    TTLs = {0}
    MaxTime = 0
    Events = {"flush", "fail"}
INVARIANTS
    SaveOwed
