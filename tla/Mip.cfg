SPECIFICATION Spec
CONSTANT
    Lines = {"MEIP", "SEIP", "STIP", "SSIP"}
INVARIANTS
    MachineLinesAreHardware
    LinesFollowLastWriter
PROPERTIES
    TimerRespectsStce
    ImplementsAtomic
