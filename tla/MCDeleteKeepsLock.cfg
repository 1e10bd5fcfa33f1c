CONSTANTS
    c1 = c1
    c2 = c2
    v1 = v1
    v2 = v2
    v3 = v3
    Client = {c1, c2}
    NoClient = NoClient
    Nothing = Nothing
    NumRows = 1
    NumTypes = 1
    RowType <- FlatType
    RootOf <- FlatRoot
    Participants = {}
    UniqueTypes = {}
    Value = {v1, v2}
    Link <- NoLinks
    Ops <- DeleteAndView
    StartRows <- V1
    ReuseIds = FALSE
    WalErrors = FALSE
    MaxOps <- OneOp
    MaxSlots = 1
SPECIFICATION FairSpec
CHECK_DEADLOCK FALSE
PROPERTY OpsReturn
