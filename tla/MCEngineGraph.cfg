CONSTANTS
    c1 = c1
    c2 = c2
    v1 = v1
    v2 = v2
    v3 = v3
    Client = {c1, c2}
    NoClient = NoClient
    Nothing = Nothing
    NumRows = 3
    NumTypes = 2
    RowType <- TreeType
    RootOf <- TreeRoot
    Participants = {1, 2}
    UniqueTypes = {}
    Value = {v1, v2}
    Link <- LinkTo3
    Ops <- GraphOps
    StartRows <- V1V1None
    ReuseIds = FALSE
    WalErrors = FALSE
    MaxOps <- TwoThenOne
    MaxSlots = 2
SPECIFICATION Spec
CHECK_DEADLOCK FALSE
INVARIANTS NoDanglingBorrow UnlocksItsOwn
PROPERTY FirstWriterWins
