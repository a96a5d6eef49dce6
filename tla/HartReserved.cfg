SPECIFICATION Spec
CONSTANTS
    Lines = {"SEIP"}
    PCs = {1}
    Batch = 2
    Faults <- Causes
    Delegable = {}
    MstatusInputs <- ReservedValues
INVARIANT
    PrivIsDefined
