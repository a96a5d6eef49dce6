SPECIFICATION Spec
CONSTANTS
    NumIds = 2
    PrioBits = 1
INVARIANT
    OnePendingBit
