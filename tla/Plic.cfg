SPECIFICATION Spec
CONSTANTS
    NumIds = 3
    PrioBits = 1
INVARIANTS
    ContextNesting
    LineIsCurrent
    LatchFollowsLevel
    DemandReachesHart
    BestIsMaximal
PROPERTY
    ServiceEndsForAReason
