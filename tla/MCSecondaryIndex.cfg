SPECIFICATION Spec
CONSTANTS
    MaxId = 4
    RowSet <- FiveRows
    Gone = Gone
    Batch = 3
    MaxItems = 3
    MaxEdits = 1
    None = None
INVARIANTS
    TypeOK
    IndexesAreExact
    RangesAreExact
    RangeViewsAreStable
