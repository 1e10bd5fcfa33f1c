SPECIFICATION Spec
SYMMETRY Symmetry
CONSTANTS
    MaxId = 3
    Key = {k1, k2}
    None = None
    Unlogged = Unlogged
    MaxQueue = 2
    MaxRestarts = 1
    Programs <- AutomaticAndExplicit
INVARIANTS
    TypeOK
    RestartOpens
PROPERTIES
    AutoIdsAreFree
    FlushLands
