SPECIFICATION FairSpec
CONSTANTS
    Wrap = 3
    Codes = {0, 1}
    MaxCalls = 2
INVARIANTS
    JoinIsAnswered
    ResultIsFinal
    ExceptionSurfaces
PROPERTIES
    EveryWaitEnds
