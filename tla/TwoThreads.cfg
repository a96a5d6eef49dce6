SPECIFICATION Spec
CONSTANTS
    \* A ring of 8 words: two events of three words and two words over.
    MAX_EVENTS = 8
    Presses = {"press", "release"}
    \* Halves of three and of two values, so that every carry happens.
    RtcHalf = 3
    ClintHalf = 2
    \* Two nanoseconds a tick. A double holds the times 0, 1 and 2, and the
    \* conversions of 1 and 2 round down; 3 is beyond.
    PerTick = 2
    Exact = 3
    Short = {1}
    Cut = {2}
    Char = {"a", "b"}
    QUEUE_SIZE = 3
    MaxTyped = 2
    \* Two bytes, written one or both at a time.
    SIZE = 2
    AccessLimit = 2
    Pixels = {1, 2}
    Scancodes = {"key"}
    DeadScancodes = {"dead"}
    Interval = 2
    MaxWrites = 2
    MaxEvents = 2
INVARIANTS
    InputArrives
    LinesHaveCauses
    FramesAreWhole
PROPERTIES
    ClocksGoOn
    DueHappens
