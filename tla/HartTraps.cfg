SPECIFICATION Spec
CONSTANTS
    Lines = {"SEIP"}
    PCs = {1, 2}
    Batch = 1
    Faults <- Causes
    Delegable = {}
    MstatusInputs <- TrapValues
INVARIANT
    MprvOnlyInM
PROPERTY
    RoundTrip
