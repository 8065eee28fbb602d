SPECIFICATION TurnSpec
CONSTANTS
    MaxTurns = 3
    MaxText = 2
    Tasks = {}
    Sessions = {}
    None = None
    Calls = {}
    Concurrent = FALSE
    MaxCalls = 0
    MaxNews = 0
    Ids = {}
    MaxTasks = 0
    MaxWaits = 0
    MaxLinks = 1
    MaxEpochs = 0
INVARIANTS
    OwnAnswers
PROPERTIES
    PromptEnds
