CONSTANTS
    c1 = c1
    c2 = c2
    Client = {c1, c2}
    Outside = {e1}
    Node = {1, 2, 3, 4}
    Nobody = nobody
    Setups <- OneOrTwoTrees
SPECIFICATION FairSpec
INVARIANTS
    TypeOK
    UpdatesLand
    OnlyOwnEdits
    SyncedIsCommitted
PROPERTY CallsReturn
