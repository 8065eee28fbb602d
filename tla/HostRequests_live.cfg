SPECIFICATION Spec
CONSTANTS
    Ids = {i1, i2}
    MaxTasks = 2
    MaxWaits = 1
    MaxTurns = 1
    MaxLinks = 1
    MaxEpochs = 2
CHECK_DEADLOCK FALSE
INVARIANTS
    TypeOK AnsweredUnlessCancelled
PROPERTIES
    CloseEnds
