CONSTANTS
    Client = {c1}
    Row = {1, 2}
    Value = {v1, v2}
    Absent = absent
    Untouched = untouched
    Chunk = {1, 2}
    ChunkOf <- OwnChunk
    ChunkType <- OwnType
    NumTypes = 2
    SingleTypes = {1, 2}
    CrossTypes = {1, 2}
    GraphTypes = {}
    TornWrites = FALSE
    SyncErrors = FALSE
    SaveErrors = FALSE
    MaxLog = 2
    MaxCrashes = 1
SPECIFICATION Spec
INVARIANT CommittedAreRecovered
CHECK_DEADLOCK FALSE
