------------------------------ MODULE CpuThread -----------------------------
(* What only the CPU thread does: the decoder and the arithmetic, the      *)
(* memory system, the registers of the hart, the bus and the loaders,      *)
(* which are set up before it runs, the tables by which a driver finds out *)
(* about its device, and the two storage devices, which work inside the    *)
(* store that asks them.                                                   *)
(* The models share no state, so a behaviour exercises one of them, the    *)
(* part, while the others rest in an initial state.                        *)
EXTENDS Naturals, Integers, Sequences

CONSTANTS
    RunParts,                                           \* the parts looked at
    MaxFlips,                                           \* of Decoder32
    Levels, Digits, Tables, TLB_ENTRIES, Satps, Slots, Entries, Modes,
    MaxUnfenced,                                        \* of Mmu
    WalkRoots, WalkEntries,                             \* of a walk
    PageSize, Pages, AccessSizes, Kinds, Bytes,         \* of Memory
    AddrSpace, DramStart, DramEnds, Offered, BusAddrs,
    BusSizes,                                           \* of Bus
    DramMegabytes,                                      \* of MemoryMap
    XLEN, WLEN,                                         \* of Alu
    CsrWords, MaxWrites,                                \* of Csr
    SingleExp, SingleFrac, DoubleExp, DoubleFrac,
    FRegs, FpWords, Results, RaisedSets, FcsrWords,
    RmFields,                                           \* of Fp
    DoubleSample,                                       \* of FpValues
    CounterWidth, CounterWords,                         \* of Counters
    AddrWidth, Base, Size, SegmentSizes, NumSegs,       \* of Loader
    IndexMod, MaxNum, QueueSizes, DiskBlocks, WordMod, BlockWrap, Capacities,
    Requests, Image,                                    \* of VirtioBlk
    SectorLen, FlashBlocks, WriteBlock, Data, WordCounts,
    Images,                                             \* of PFlash
    SectorLens, BlockCounts,                            \* of PFlashCfi
    ByteWidth, MaxBit, EV_MAX                           \* of EventBits

VARIABLES
    part,
    \* Decoder16 and Decoder32
    halfWord, insnRow, flips, insnRest,
    \* Mmu
    tables, satp, itlb, dtlb, unfenced,
    \* Sv39: the tables of a walk and its request
    pt, asked,
    \* Memory
    map, ram, reservation, access, lr,
    \* Bus and MemoryMap
    dramEnd, offered, devices, refused,
    \* Alu
    x1, x2,
    \* FpValues
    format, fa, fb,
    \* Csr
    priv, tvm, reg, csrOut, csrWrites,
    \* Fp
    hart, fpOut, unsaved, byCompressed,
    \* Counters
    mcycle, minstret, inhibit, increase_suppressed, since,
    \* Loader
    file, phdr, dram, next, phase, raw,
    \* VirtioBlk
    avail, ring, used, usedRing, num, ready, lastAvail, availAt, usedAt,
    status, isr, line, capacity, stream, disk, batch, target, newUsed, fault, over,
    orphan,
    \* PFlash
    flash, session, confirmed,
    \* PFlashCfi
    sectorLen, blocks,
    \* EventBits
    evBits, wanted

halfVars   == <<halfWord>>
fullVars   == <<insnRow, flips, insnRest>>
mmuVars    == <<tables, satp, itlb, dtlb, unfenced>>
walkVars   == <<pt, asked>>
memVars    == <<map, ram, reservation, access, lr>>
busVars    == <<dramEnd, offered, devices, refused>>
aluVars    == <<x1, x2>>
floatVars  == <<format, fa, fb>>
csrVars    == <<priv, tvm, reg, csrOut, csrWrites>>
fpVars     == <<hart, fpOut, unsaved, byCompressed>>
countVars  == <<mcycle, minstret, inhibit, increase_suppressed, since>>
loaderVars == <<file, phdr, dram, next, phase, raw>>
blkVars    == <<avail, ring, used, usedRing, num, ready, lastAvail, availAt, usedAt,
                status, isr, line, capacity, stream, disk, batch, target, newUsed,
                fault, over, orphan>>
flashVars  == <<flash, session, confirmed>>
cfiVars    == <<sectorLen, blocks>>
bitVars    == <<evBits, wanted>>
vars == <<part, halfVars, fullVars, mmuVars, walkVars, memVars, busVars, aluVars, floatVars,
          csrVars, fpVars, countVars, loaderVars, blkVars, flashVars, cfiVars, bitVars>>

-----------------------------------------------------------------------------
Half  == INSTANCE Decoder16 WITH word <- halfWord
Full  == INSTANCE Decoder32 WITH row <- insnRow, rest <- insnRest
Tlb   == INSTANCE Mmu WITH mem <- tables
Mem   == INSTANCE Memory WITH Sizes <- AccessSizes, out <- access
Route == INSTANCE Bus WITH A <- BusAddrs, Sizes <- BusSizes
Map   == INSTANCE MemoryMap
Board == INSTANCE Bus WITH AddrSpace <- 0, DramStart <- Map!DramBase,
                           DramEnds <- Map!DramLast, Offered <- Map!Offers,
                           A <- {}, Sizes <- {}     \* nothing is looked up there
Arith == INSTANCE Alu
Float == INSTANCE FpValues WITH fmt <- format, a <- fa, b <- fb
Csrs  == INSTANCE Csr WITH WriteValues <- CsrWords, out <- csrOut, writes <- csrWrites
Fpu   == INSTANCE Fp WITH Words <- FpWords, CsrValues <- FcsrWords, out <- fpOut
Count == INSTANCE Counters WITH Width <- CounterWidth, WriteValues <- CounterWords
Load  == INSTANCE Loader WITH Width <- AddrWidth, Sizes <- SegmentSizes, mem <- dram
Blk   == INSTANCE VirtioBlk WITH Sizes <- QueueSizes, Blocks <- DiskBlocks,
                             Wrap <- BlockWrap
Flash == INSTANCE PFlash WITH Blocks <- FlashBlocks, Counts <- WordCounts
Cfi   == INSTANCE PFlashCfi
Page  == INSTANCE EventBits WITH Width <- ByteWidth, bits <- evBits

AllParts == {"half", "full", "mmu", "walk", "memory", "bus", "board", "arith", "float", "csr",
             "fp", "count", "loader", "blk", "flash", "cfi", "pages"}

ASSUME CpuThreadAssumptions ==
    /\ RunParts \subseteq AllParts
    /\ Tlb!Sv39Assumption /\ Tlb!MmuAssumption /\ Mem!MemoryAssumption
    /\ Csrs!CsrAssumption /\ Fpu!FormatAssumption /\ Fpu!PowerFacts /\ Fpu!FpAssumption
    /\ Count!CountersAssumption /\ Load!LoaderAssumption /\ Blk!VirtioAssumption
    /\ Flash!PFlashAssumption /\ Route!BusAssumption
    /\ WalkRoots \subseteq Nat /\ WalkEntries \subseteq Tlb!Pte
    /\ Arith!AluAssumption /\ Arith!PowerFacts
    /\ Float!SampleAssumption /\ Float!FieldFacts
    /\ Map!MapAssumption /\ Cfi!CfiAssumption /\ Cfi!PowerFacts /\ Page!BitsAssumption

-----------------------------------------------------------------------------
\* Any request to a walk, over tables that are filled where they are looked at.
NoEntry == [v |-> FALSE, perm |-> {}, a |-> FALSE, d |-> FALSE, rsv |-> FALSE, ppn |-> 0]

WalkInit ==
    /\ pt = [t \in Tables |-> [d \in 0 .. Digits - 1 |-> NoEntry]]
    /\ asked \in [root : WalkRoots, vpn : Tlb!Vpn, type : Tlb!Type, mode : Tlb!Mode]

WalkNext ==
    \E t \in Tables, i \in 0 .. Levels - 1, p \in WalkEntries :
        LET d == Tlb!Digit(asked.vpn, i)
        IN  /\ pt[t][d] = NoEntry
            /\ Tlb!Reaches(pt, asked.root, asked.vpn, t, i)
            /\ pt' = [pt EXCEPT ![t][d] = p]
            /\ UNCHANGED asked

-----------------------------------------------------------------------------
Init ==
    /\ part \in RunParts
    /\ Half!Init
    /\ IF part = "full" THEN Full!Init
       ELSE insnRow = "none" /\ flips = {} /\ insnRest = FALSE
    /\ Tlb!Init   /\ (part = "mmu" \/ satp = 0)
    /\ Mem!Init   /\ (part = "memory" \/ \A p \in 0 .. Pages - 1 : map[p].to = "none")
    /\ Flash!Init /\ (part = "flash" \/ flash.storage = CHOOSE i \in Images : TRUE)
    /\ Arith!Init /\ Csrs!Init /\ Fpu!Init /\ Count!Init /\ Blk!Init /\ Page!Init
    /\ IF part = "loader" THEN Load!Init
       ELSE /\ file = "none" /\ phdr = [i \in Load!Segs |-> Load!NoSegment]
            /\ dram = [a \in 0 .. Size - 1 |-> Load!Zero] /\ next = 1 /\ phase = "new" /\ raw = {}
    /\ IF part = "walk" THEN WalkInit ELSE pt = "none" /\ asked = "none"
    /\ IF part = "float" THEN Float!Init ELSE format = "none" /\ fa = 0 /\ fb = 0
    /\ IF part = "cfi" THEN Cfi!Init ELSE sectorLen = 0 /\ blocks = 0
    /\ CASE part = "bus" -> Route!Init
         [] part = "board" -> Board!Init
         [] OTHER -> dramEnd = DramStart /\ offered = <<>> /\ devices = <<>> /\ refused = FALSE

Next ==
    /\ UNCHANGED part
    /\ IF part = "half"   THEN Half!Next  ELSE UNCHANGED halfVars
    /\ IF part = "full"   THEN Full!Next  ELSE UNCHANGED fullVars
    /\ IF part = "mmu"    THEN Tlb!Next   ELSE UNCHANGED mmuVars
    /\ IF part = "walk"   THEN WalkNext   ELSE UNCHANGED walkVars
    /\ IF part = "memory" THEN Mem!Next   ELSE UNCHANGED memVars
    /\ CASE part = "bus"   -> Route!Next
         [] part = "board" -> Board!Next
         [] OTHER          -> UNCHANGED busVars
    /\ IF part = "arith"  THEN Arith!Next ELSE UNCHANGED aluVars
    /\ IF part = "float"  THEN Float!Next ELSE UNCHANGED floatVars
    /\ IF part = "csr"    THEN Csrs!Next  ELSE UNCHANGED csrVars
    /\ IF part = "fp"     THEN Fpu!Next   ELSE UNCHANGED fpVars
    /\ IF part = "count"  THEN Count!Next ELSE UNCHANGED countVars
    /\ IF part = "loader" THEN Load!Next  ELSE UNCHANGED loaderVars
    /\ IF part = "blk"    THEN Blk!Next   ELSE UNCHANGED blkVars
    /\ IF part = "flash"  THEN Flash!Next ELSE UNCHANGED flashVars
    /\ IF part = "cfi"    THEN Cfi!Next   ELSE UNCHANGED cfiVars
    /\ IF part = "pages"  THEN Page!Next  ELSE UNCHANGED bitVars

Spec == Init /\ [][Next]_vars

-----------------------------------------------------------------------------
(* Properties, stated in the modules of the parts.                         *)

\* decoder.cpp gives each word the instruction and the immediate of the manual:
\* compressed instructions by reading the table from the top, and with every
\* operand set that the executing function uses; full instructions because no
\* word matches two rows. A half word raises illegal instruction exactly if it is
\* reserved, but for C.ADDIW of x0.
DecodesAsManual ==
    /\ part = "half" => /\ Half!DecodesAsManual /\ Half!ReservedTraps
                        /\ Half!OperandsAreSet /\ Half!ImmediatesAsManual
    /\ part = "full" => Full!RowsExclude /\ Full!ImmediatesAsManual

\* A TLB hit of mmu.hpp translates as the tables say, unless their change was
\* not fenced, and a store never goes through an entry whose page is not marked
\* dirty in memory.
TranslationIsWalk ==
    part = "mmu" => Tlb!TypeOK /\ Tlb!TranslationIsWalk /\ Tlb!NoSilentStore

\* The walk of MMU::translate grants what the tables grant and nothing else,
\* and exactly the walks that leave memory are access faults.
WalkIsLawful ==
    part = "walk" => Tlb!WalkIsLawful(pt, asked.root, asked.vpn, asked.type, asked.mode)

\* Loads read and stores change the bytes at their addresses and no other,
\* aligned or not, within a page or across two, and only bytes that translation
\* allows; an access that faults changed no byte and names its own kind of fault;
\* a compressed instruction at the end of a page never faults because of the page
\* behind it; an SC succeeds only after an LR of its address with no SC in between.
AccessesAreExact ==
    /\ [](part = "memory" => Mem!TypeOK /\ Mem!FaultsAreNamed /\ Mem!AllowedThroughout)
    /\ Mem!BytesArePlaced
    /\ Mem!FaultingStoreIsClean
    /\ Mem!CompressedStaysInPage
    /\ Mem!ScNeedsLr

\* Whatever was offered to add_device of bus.hpp, no byte has two owners, and an
\* access that ends within the address space goes where each of its bytes goes.
AccessIsBytes == part = "bus" => Route!OneOwner /\ Route!AccessIsBytes

\* The guest finds the machine that was built: no device of the emulator is
\* refused or shares an interrupt, and a driver that reads the query table of
\* the flash or the pages of the input device learns its geometry, its bits.
DevicesAreFound ==
    /\ part = "board" => Board!NothingRefused /\ Map!OwnInterrupt(devices)
    /\ part = "cfi" => Cfi!CfiTellsGeometry
    /\ part = "pages" => Page!PagesShowBits

\* The arithmetic of execute.cpp at its edges.  Quotients and remainders fit
\* together, also by zero and where the quotient does not fit; the halves of a
\* product are the product; shifts lose exactly the bits shifted out; word
\* instructions and word AMOs depend on words alone and leave one extended;
\* comparisons agree with the difference; a jump reads its base before it links.
\* A float is read from a register as it was boxed or as the default NaN, fmin
\* and fmax are the ends of the order in which -0 is below +0, fclass follows
\* that order, and sign injections change the sign alone.
ArithmeticHolds ==
    /\ part = "arith" =>
         /\ Arith!DivisionHolds /\ Arith!ProductsAreWhole /\ Arith!ShiftsLoseTheEnd
         /\ Arith!WordsAreExtended /\ Arith!AmosUseTheWord
         /\ Arith!ComparisonsAgree /\ Arith!JumpsReadFirst
    /\ part = "float" =>
         /\ Float!BoxedOrNaN /\ Float!MinMaxAreEnds
         /\ Float!ClassesFollowOrder /\ Float!SignsOnly

\* Software below M changes no register of M's, but mie through sie; what a
\* mode may access, every higher mode may too; a register written with what it
\* reads keeps everything, sie apart; a CSR instruction that raises an exception
\* leaves no trace, csrrwi apart.  minstret counts every instruction that
\* retired uninhibited since it was last written, and mcycle every turn.
CsrsKeepTheirOwner ==
    /\ [](part = "csr" => /\ Csrs!TypeOK /\ Csrs!PrivilegeIsLayered
                          /\ Csrs!WritingBackIsIdle /\ Csrs!TrapsLeaveNoTrace)
    /\ [](part = "count" => Count!TypeOK /\ Count!CountsExactly)
    /\ Csrs!MachineIsItsOwn

\* Unless FS is dirty, all of the floating-point state is what the system last
\* saved, but for the registers c_fld and c_fldsp loaded; fp_inst_prep finds
\* softfloat_exceptionFlags empty; flags only accrue, and exactly those an
\* instruction raised; fflags, frm and fcsr show the same bits.
CleanMeansSaved ==
    /\ [](part = "fp" => Fpu!TypeOK /\ Fpu!CleanMeansSaved /\ Fpu!FlagsAreDrained)
    /\ Fpu!FlagsAccrue
    /\ Fpu!ViewsAgree

\* The machine runs exactly if the file is an ELF file for it and every segment
\* lies in the DRAM, and then memory holds what the program headers say.
ImageAsMeant ==
    part = "loader" => Load!TypeOK /\ Load!RunsIffLoadable /\ Load!ImageAsMeant

\* The rings of virtio_blk.cpp with their wrapping indices are a queue: requests
\* are served in order, once each, on the right block, and every answer is true.
\* Two exceptions: while the guest has stored a capacity that is 0 or beyond the
\* wrap of byte offsets, a request for a missing block may be carried out on
\* another one; and a driver that overwrites a slot in use gets its batch refused
\* or, where its index has wrapped, answers to whatever the slots hold until the
\* device has caught up.
\* The device asks for a reset only after a mistake of its driver; answers wait
\* unpublished only where a batch failed half way, and then it did ask; its line
\* is high exactly while a status bit is set, or since a reset that found it so.
KeepsPromise ==
    /\ [](part = "blk" => /\ Blk!TypeOK /\ Blk!NeedsResetForAFault
                          /\ Blk!PartialBatchNeedsReset /\ Blk!LineHasCause)
    /\ Blk!KeepsPromise

\* A buffered write of pflash_cfi01.cpp is all or nothing; a block is open only
\* inside one, or the next single word would be lost in the buffer; the flash is
\* readable as an array exactly while its command machine rests.
AllOrNothing ==
    /\ [](part = "flash" => /\ Flash!TypeOK /\ Flash!ArrayModeIsRest
                            /\ Flash!OpenOnlyInBufferedWrite)
    /\ Flash!AllOrNothing
=============================================================================
