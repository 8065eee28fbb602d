SPECIFICATION Spec
CONSTANTS
    MaxTurns = 1
    MaxText = 1
PROPERTIES
    AnsweredCompletes
