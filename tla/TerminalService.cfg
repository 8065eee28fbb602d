SPECIFICATION FairSpec
CONSTANTS
    Callers = {c1, c2}
    Terminals = {x1, x2}
    Limit = 1
    Free = Free
CHECK_DEADLOCK FALSE
INVARIANTS
    ProcessLimit CloseComplete
PROPERTIES
    ReservationEnds
