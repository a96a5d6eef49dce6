SPECIFICATION FairSpec
CONSTANTS
    Lines = {"MTIP", "SEIP"}
    PCs = {1}
    Batch = 3
    Faults <- Causes
    Delegable = {"fault", "ecallM"}
    MstatusInputs <- DelayValues
INVARIANTS
    BoundedDelay
PROPERTIES
    UnmaskingIsNoticed
    PrivilegeMoves
    WfiWakes
