SPECIFICATION Spec
CONSTANTS
    RunParts = {"bus", "board", "loader", "blk", "flash", "cfi", "pages"}
    MaxFlips = 2
    Levels = 2
    Digits = 2
    Tables = {0, 1}
    TLB_ENTRIES = 2
    Satps = {0, 1}
    Slots <- MmuSlots
    Entries <- MmuEntries
    Modes <- MmuModes
    MaxUnfenced = 1
    WalkRoots = {0, 9}
    WalkEntries <- Shapes
    PageSize = 4
    Pages = 2
    AccessSizes = {1, 2, 4}
    Kinds <- PageKinds
    Bytes = {0, 1}
    AddrSpace = 6
    DramStart = 3
    DramEnds = {3, 4}
    Offered <- RangeOffers
    BusAddrs = {0, 1, 2, 3, 4, 5}
    BusSizes = {1, 2, 4}
    DramMegabytes = {64, 512, 1024, 2048, 8192}
    XLEN = 8
    WLEN = 4
    CsrWords = {{}, {0, 1, 3}, {2}}
    MaxWrites = 2
\* Formats of 5 and of 10 bits; 449 is a boxed single and 177 rounding mode 5
\* with the flags DZ and NX.
    SingleExp = 2
    SingleFrac = 2
    DoubleExp = 3
    DoubleFrac = 6
    DoubleSample <- DoubleEdges
    FRegs = {"f0"}
    FpWords = {0, 449}
    Results = {13}
    FcsrWords = {0, 177}
    RaisedSets = {{}, {"NX"}, {"NV"}}
    RmFields = {0, 5, 7}
    CounterWidth = 3
    CounterWords = {0, 7}
\* A DRAM of three bytes below the end of the address space.
    AddrWidth = 3
    Base = 4
    Size = 3
    SegmentSizes = {0, 1, 2, 7}
    NumSegs = 2
    IndexMod = 4
    MaxNum = 2
    QueueSizes = {2}
    DiskBlocks = 1
    WordMod = 4
    BlockWrap = 2
    Capacities = {0, 1, 3}
    Requests <- DiskRequests
    Image = "blank"
    SectorLen = 2
    FlashBlocks = 2
    WriteBlock = 2
    Data = {1, 65535}
    WordCounts = {0, 1, 2}
    Images <- FlashImages
    SectorLens <- CfiSectors
    BlockCounts <- CfiBlocks
    ByteWidth = 3
    MaxBit = 8
    EV_MAX = 0
INVARIANTS
    AccessIsBytes
    DevicesAreFound
    ImageAsMeant
PROPERTIES
    KeepsPromise
    AllOrNothing
CHECK_DEADLOCK FALSE
