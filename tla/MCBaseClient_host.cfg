SPECIFICATION HostSpec
CONSTANTS
    Ids = {i1, i2}
    MaxTasks = 2
    MaxWaits = 1
    MaxTurns = 2
    MaxLinks = 2
    MaxEpochs = 3
    MaxText = 0
    Tasks = {}
    Sessions = {}
    None = None
    Calls = {}
    Concurrent = FALSE
    MaxCalls = 0
    MaxNews = 0
CHECK_DEADLOCK FALSE
INVARIANTS
    AnswersInPlace
PROPERTIES
    PermissionInTurn CancelAnswered
