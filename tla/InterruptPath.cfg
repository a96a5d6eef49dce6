SPECIFICATION Spec
CONSTANTS
    NumIds = 3
    PrioBits = 1
    Batch = 3
INVARIANTS
    InServiceIsHandled
PROPERTIES
    SpuriousHasReason
    DemandIsServed
