SPECIFICATION RelationSpec
CONSTANTS
    Node <- MCNode
    TypeOf <- MCTypeOf
    Field <- MCField
    Spec <- MCSpec
    Key = {101, 102}
    NoKey = 0
    None = None
    Projects <- MCProjects
INVARIANTS
    TypeOK
    IndexMatchesGraph
    DeltaOnlyRefuses
    ModelDeltaIsRebuild
    LifetimesHold
    InversesAreExact
    ReopenKeepsGraph
PROPERTIES
    CascadeFollowsOwnership
