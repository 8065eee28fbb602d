SPECIFICATION TextSpec
CONSTANTS
    Limits = {0, 3, 4}
    Chunks <- AllChunks
    MaxChunks = 3
    Pieces = {1, 2}
    MaxEvents = 6
    MaxRogue = 3
    EventLimit = 5
    ChunkLimit = 3
    x1 = x1
    x2 = x2
    Objects = {x1, x2}
    Nothing = Nothing
    NoLimit = NoLimit
    Requests <- AllRequests
    Contents <- AllTexts
    Chunk = 2
    CharLimit = 2
    ByteLimit = 4
    LineLimit = 2
    WriteLimit = 3
    MaxChanges = 1
SYMMETRY Symmetric
CHECK_DEADLOCK FALSE
INVARIANTS
    HostTextTrue StreamWhole OwnedToTheEnd
