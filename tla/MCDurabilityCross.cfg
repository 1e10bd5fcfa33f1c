CONSTANTS
    Client = {c1, c2}
    Row = {1, 2}
    Value = {v1}
    Absent = absent
    Untouched = untouched
    Chunk = {1, 2}
    ChunkOf <- OwnChunk
    ChunkType <- OwnType
    NumTypes = 2
    SingleTypes = {}
    CrossTypes = {1, 2}
    GraphTypes = {1, 2}
    TornWrites = FALSE
    SyncErrors = TRUE
    SaveErrors = TRUE
    MaxLog = 2
    MaxCrashes = 2
SYMMETRY Symmetry
SPECIFICATION Spec
INVARIANT FsyncCommits
PROPERTIES
    CheckpointKeepsCommits
    ImplementsDurableStore
