CONSTANTS
    c1 = c1
    c2 = c2
    v1 = v1
    v2 = v2
    v3 = v3
    Client = {c1, c2}
    NoClient = NoClient
    Nothing = Nothing
    NumRows = 2
    NumTypes = 2
    RowType <- PairType
    RootOf <- PairRoot
    Participants = {1, 2}
    UniqueTypes = {}
    Value = {v1, v2}
    Link <- NoLinks
    Ops <- LiveOps
    StartRows <- V1V1
    ReuseIds = FALSE
    WalErrors = FALSE
    MaxOps <- OneThenTwo
    MaxSlots = 1
SPECIFICATION FairSpec
CHECK_DEADLOCK FALSE
PROPERTIES OpsReturn ViewsAreStable
