CONSTANTS
    c1 = c1
    c2 = c2
    v1 = v1
    v2 = v2
    v3 = v3
    Client = {c1, c2}
    NoClient = NoClient
    Nothing = Nothing
    NumRows = 3
    NumTypes = 1
    RowType <- FlatType
    RootOf <- FlatRoot
    Participants = {}
    UniqueTypes = {1}
    Value = {v1, v2, v3}
    Link <- NoLinks
    Ops <- FlatOps
    StartRows <- V1V2None
    ReuseIds = FALSE
    WalErrors = TRUE
    MaxOps <- OneThenTwo
    MaxSlots = 1
SPECIFICATION Spec
CHECK_DEADLOCK FALSE
INVARIANTS TypeOK UniqueKeys LocksInOrder
PROPERTIES FirstWriterWins ViewsAreStable
