CONSTANTS
    Client = {c1, c2}
    Row = {1, 2}
    Value = {v1}
    Absent = absent
    Untouched = untouched
    Chunk = {1, 2}
    ChunkOf <- OwnChunk
    ChunkType <- OneType
    NumTypes = 1
    SingleTypes = {1}
    CrossTypes = {}
    GraphTypes = {1}
    TornWrites = TRUE
    SyncErrors = TRUE
    SaveErrors = TRUE
    MaxLog = 2
    MaxCrashes = 2
SYMMETRY Symmetry
SPECIFICATION Spec
INVARIANTS
    TypeOK
    Durable
    FsyncCommits
    CleanChunksAreSaved
PROPERTY CheckpointKeepsCommits
