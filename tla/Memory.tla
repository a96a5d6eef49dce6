------------------------------- MODULE Memory -------------------------------
(* How instructions reach memory: MMU::read, write, probe_store and ifetch  *)
(* of include/core/mmu.hpp and the loads, stores, LR, SC and AMOs of        *)
(* core/execute.cpp that call them. Translation (see Mmu) and address       *)
(* decoding (see Bus) are reduced to what a page maps to. A cell of memory  *)
(* is a byte; sizes and the page are scaled down.                           *)
EXTENDS Integers, Sequences

CONSTANTS
    PageSize,       \* cells in a page
    Pages,          \* number of virtual pages
    Sizes,          \* access sizes; the largest is that of a whole instruction
    Kinds,          \* what a page may map to: records with to and writable
    Bytes           \* the values of a cell; an odd one starts a full instruction

MemoryAssumption ==
    /\ Kinds \subseteq [to : {"none", "ram", "device", "hole"}, writable : BOOLEAN]
    /\ Bytes \subseteq Nat /\ {0, 1} \subseteq Bytes
    /\ PageSize \in Sizes /\ PageSize % 2 = 0 /\ Pages \in Nat \ {0}
    /\ Sizes \subseteq 1 .. PageSize /\ \A n \in Sizes : PageSize % n = 0

VARIABLES
    map,            \* what each virtual page maps to
    ram,            \* the one page of DRAM, mapped by any number of pages
    reservation,    \* reservation_address, -1 if not reservation_valid
    out,            \* the last instruction and how it ended
    lr              \* history: the address of the last LR, -1 after an SC

vars == <<map, ram, reservation, out, lr>>

Vaddrs == 0 .. (PageSize * Pages) - 1
Offset(a) == a % PageSize
Page(a) == map[a \div PageSize]

Idle == [op |-> "none", a |-> 0, n |-> 1, cause |-> "none", tval |-> 0,
         val |-> <<>>, rd |-> -1]

Init ==
    /\ map \in [0 .. Pages - 1 -> Kinds]
    /\ ram = [o \in 0 .. PageSize - 1 |-> 0]
    /\ reservation = -1 /\ lr = -1
    /\ out = Idle

-----------------------------------------------------------------------------
(* An access is tried step by step and ends with the first fault. A result  *)
(* is a record: the fault, the memory after it and the bytes read.          *)

Fault(cause, tval) == [cause |-> cause, tval |-> tval, ram |-> ram, val |-> <<>>]
Done(mem, val) == [cause |-> "none", tval |-> 0, ram |-> mem, val |-> val]

PageFault(type) == CASE type = "Load"  -> "LoadPageFault"
                     [] type = "Store" -> "StoreAMOPageFault"
                     [] type = "Fetch" -> "InstructionPageFault"
AccessFault(type) == CASE type = "Load"  -> "LoadAccessFault"
                       [] type = "Store" -> "StoreAMOAccessFault"
                       [] type = "Fetch" -> "InstructionAccessFault"

\* translate lets the access through.
Translates(a, type) == Page(a).to # "none" /\ (type = "Store" => Page(a).writable)
\* Bus::accessible: something owns the byte.
AccessibleAt(a) == Page(a).to \in {"ram", "device"}

\* Bus::read and write of a whole value: DRAM takes it, a device may refuse it.
Takes(a, granted) == Page(a).to = "ram" \/ (Page(a).to = "device" /\ a \in granted)

Least(S) == CHOOSE x \in S : \A y \in S : x <= y
Span(a, n) == a .. a + n - 1

\* The loop over the bytes of a misaligned access, before any is moved: the
\* first byte that does not translate faults at its own address, the first
\* without an owner at the address of the access.
Checked(a, n, type) ==
    LET bad == {b \in Span(a, n) : ~Translates(b, type) \/ ~AccessibleAt(b)}
    IN  IF bad = {} THEN Done(ram, <<>>)
        ELSE IF ~Translates(Least(bad), type) THEN Fault(PageFault(type), Least(bad))
        ELSE Fault(AccessFault(type), a)

\* What a device answers is of no interest here: 0.
ByteAt(mem, a) == IF Page(a).to = "ram" THEN mem[Offset(a)] ELSE 0
BytesAt(a, n) == [i \in 1 .. n |-> ByteAt(ram, a + i - 1)]

\* MMU::read; an AMO reads with the faults of a store.
Read(a, n, type, granted) ==
    IF a % n = 0
    THEN IF ~Translates(a, type) THEN Fault(PageFault(type), a)
         ELSE IF ~Takes(a, granted) THEN Fault(AccessFault(type), a)
         ELSE Done(ram, BytesAt(a, n))
    ELSE IF Checked(a, n, type).cause # "none" THEN Checked(a, n, type)
    ELSE IF \E b \in Span(a, n) : ~Takes(b, granted)
         THEN Fault(AccessFault(type), a)
    ELSE Done(ram, BytesAt(a, n))

\* ram with the bytes of val stored at the virtual addresses S within a's span.
Stored(mem, a, val, S) ==
    [o \in DOMAIN mem |->
        LET here == {b \in S : Page(b).to = "ram" /\ Offset(b) = o}
        IN  IF here = {} THEN mem[o] ELSE val[(CHOOSE b \in here : TRUE) - a + 1]]

(* Wrong variant: bytes are stored as they are checked. *)
WriteUnchecked(a, val, granted) ==
    LET n == Len(val)
        bad == {b \in Span(a, n) : ~Translates(b, "Store") \/ ~Takes(b, granted)}
        done == IF bad = {} THEN Span(a, n) ELSE a .. Least(bad) - 1
    IN  IF bad = {} THEN Done(Stored(ram, a, val, done), <<>>)
        ELSE [Fault(IF Translates(Least(bad), "Store") THEN AccessFault("Store")
                    ELSE PageFault("Store"), Least(bad))
                 EXCEPT !.ram = Stored(ram, a, val, done)]

\* MMU::write. The bytes of a misaligned store go out one after the other; a
\* device that refuses its byte stops it half way.
Write(a, val, granted) ==
    LET n == Len(val)
        refused == {b \in Span(a, n) : ~Takes(b, granted)}
        done == IF refused = {} THEN Span(a, n) ELSE a .. Least(refused) - 1
    IN  IF a % n = 0
        THEN IF ~Translates(a, "Store") THEN Fault(PageFault("Store"), a)
             ELSE IF ~Takes(a, granted) THEN Fault(AccessFault("Store"), a)
             ELSE Done(Stored(ram, a, val, Span(a, n)), <<>>)
        ELSE IF Checked(a, n, "Store").cause # "none" THEN Checked(a, n, "Store")
        ELSE IF refused # {}
             THEN [Fault(AccessFault("Store"), a) EXCEPT
                      !.ram = Stored(ram, a, val, done)]
        ELSE Done(Stored(ram, a, val, Span(a, n)), <<>>)

\* probe_store: translation and an owner, nothing written.
ProbeStore(a) ==
    IF ~Translates(a, "Store") THEN Fault(PageFault("Store"), a)
    ELSE IF ~AccessibleAt(a) THEN Fault(AccessFault("Store"), a)
    ELSE Done(ram, <<>>)

-----------------------------------------------------------------------------
(* The instructions. granted is the set of addresses at which devices take  *)
(* the access; rd tells what an SC reports, or -1.                          *)

Ends(op, a, n, r, val, rd) ==
    /\ ram' = r.ram
    /\ out' = [op |-> op, a |-> a, n |-> n, cause |-> r.cause, tval |-> r.tval,
               val |-> IF r.cause = "none" THEN val ELSE <<>>, rd |-> rd]
    /\ UNCHANGED map

Load(a, n, granted) ==
    LET r == Read(a, n, "Load", granted)
    IN  Ends("load", a, n, r, r.val, -1) /\ UNCHANGED <<reservation, lr>>

Store(a, val, granted) ==
    /\ Ends("store", a, Len(val), Write(a, val, granted), val, -1)
    /\ UNCHANGED <<reservation, lr>>

\* LR, SC and AMO want natural alignment, before anything else.
Aligned(a, n, type, r) == IF a % n = 0 THEN r ELSE Fault(AccessFault(type), a)

LoadReserved(a, n, granted) ==
    LET r == Aligned(a, n, "Load", Read(a, n, "Load", granted))
        ok == r.cause = "none"
    IN  /\ Ends("lr", a, n, r, r.val, -1)
        /\ reservation' = IF ok THEN a ELSE reservation
        /\ lr' = IF ok THEN a ELSE lr

\* SC: the address is checked even without a reservation; a fault leaves the
\* reservation, success and failure end it.
StoreConditional(a, val, granted) ==
    LET n == Len(val)
        probe == Aligned(a, n, "Store", ProbeStore(a))
        mine == reservation = a
        r == IF probe.cause = "none" /\ mine THEN Write(a, val, granted) ELSE probe
        ok == r.cause = "none"
    IN  /\ Ends("sc", a, n, r, val, IF ~ok THEN -1 ELSE IF mine THEN 0 ELSE 1)
        /\ reservation' = IF ok THEN -1 ELSE reservation
        /\ lr' = IF ok THEN -1 ELSE lr

\* An AMO reads, computes and writes; val is what it computed.
Amo(a, val, grantedRead, grantedWrite) ==
    LET n == Len(val)
        r == Aligned(a, n, "Store", Read(a, n, "Store", grantedRead))
        w == IF r.cause = "none" THEN Write(a, val, grantedWrite) ELSE r
    IN  Ends("amo", a, n, w, val, -1) /\ UNCHANGED <<reservation, lr>>

\* Decoder::is_compressed looks at the low bits of the first byte.
IsCompressed(b) == b % 2 = 0

\* may_cross_page: the last half of a page starts the instruction.
Half == PageSize \div 2
MayCrossPage(a) == Offset(a) = PageSize - Half

\* ifetch: away from the end of a page one read is enough; at the end the
\* second half is read only if the first needs it.
Ifetch(a, granted) ==
    LET part(h) == IF ~Translates(h, "Fetch") THEN Fault(PageFault("Fetch"), h)
                   ELSE IF ~Takes(h, granted) THEN Fault(AccessFault("Fetch"), h)
                   ELSE Done(ram, <<>>)
    IN  IF part(a).cause # "none" THEN part(a)
        ELSE IF IsCompressed(ByteAt(ram, a)) THEN Done(ram, BytesAt(a, Half))
        ELSE IF MayCrossPage(a) /\ part(a + Half).cause # "none"
             THEN part(a + Half)
        ELSE Done(ram, BytesAt(a, 2 * Half))

Fetch(a, granted) ==
    LET r == Ifetch(a, granted)
    IN  Ends("fetch", a, 2 * Half, r, r.val, -1) /\ UNCHANGED <<reservation, lr>>

\* The values stored: all cells alike, or alternating.
Patterns(n) == {[i \in 1 .. n |-> x] : x \in Bytes}
               \cup {[i \in 1 .. n |-> i % 2]}

\* Devices take accesses at all the addresses, at none or at the even ones.
Grants == {Vaddrs, {}, {a \in Vaddrs : a % 2 = 0}}

Execute ==
    \E a \in Vaddrs, n \in Sizes, g \in Grants :
        /\ out = Idle /\ a + n - 1 \in Vaddrs
        /\ \/ Load(a, n, g)
           \/ LoadReserved(a, n, g)
           \/ n = PageSize /\ Offset(a) % Half = 0 /\ Fetch(a, g)
           \/ \E val \in Patterns(n) :
                 \/ Store(a, val, g)
                 \/ StoreConditional(a, val, g)
                 \/ \E h \in Grants : Amo(a, val, g, h)

\* The hart goes on to the next instruction.
Retire == out # Idle /\ out' = Idle /\ UNCHANGED <<map, ram, reservation, lr>>

Next == Execute \/ Retire

Spec == Init /\ [][Next]_vars

-----------------------------------------------------------------------------
(* Properties.                                                             *)

TypeOK ==
    /\ ram \in [0 .. PageSize - 1 -> Bytes]
    /\ reservation \in {-1} \cup Vaddrs
    /\ out.cause \in {"none"} \cup {PageFault(t) : t \in {"Load", "Store", "Fetch"}}
                     \cup {AccessFault(t) : t \in {"Load", "Store", "Fetch"}}

TouchesDevice(a, n) == \E b \in Span(a, n) : Page(b).to = "device"

\* A store, SC or AMO that faults has changed no byte of DRAM, however it lies
\* across pages, unless a device it also touches refused its part half way.
FaultingStoreIsClean ==
    [][ out'.cause # "none" /\ ~TouchesDevice(out'.a, out'.n) => ram' = ram ]_vars

TypeOf(op) == CASE op \in {"load", "lr"} -> "Load"
                [] op \in {"store", "sc", "amo"} -> "Store"
                [] OTHER -> "Fetch"

\* Loads and LR fault only as loads, stores, SC and AMOs only as stores: also
\* the read of an AMO. A page fault is reported at an address whose page does
\* refuse the access, which for an access across pages may be the second.
FaultsAreNamed ==
    out.cause # "none" =>
       /\ out.cause \in {PageFault(TypeOf(out.op)), AccessFault(TypeOf(out.op))}
       /\ out.tval \in Span(out.a, out.n)
       /\ out.cause = PageFault(TypeOf(out.op)) => ~Translates(out.tval, TypeOf(out.op))

\* An access that ended well was allowed at every byte it moved, and each had an
\* owner, although MMU::read and write check an aligned access at its first byte
\* only, probe_store likewise, and ifetch only the halves it thinks it needs.
AllowedThroughout ==
    out.op # "none" /\ out.cause = "none" =>
       \A b \in Span(out.a, Len(out.val)) :
          Translates(b, TypeOf(out.op)) /\ AccessibleAt(b)

\* A load or fetch that ends well has read the bytes at its addresses, all it
\* needs, and a store that ends well has changed these and no other, aligned or
\* not, within a page, across two, or through two pages that map the same memory.
BytesArePlaced ==
    [][ /\ out'.op \in {"load", "lr", "fetch"} /\ out'.cause = "none" =>
              /\ Len(out'.val) = IF out'.op = "fetch" /\ IsCompressed(ByteAt(ram, out'.a))
                                 THEN Half ELSE out'.n
              /\ \A i \in DOMAIN out'.val : out'.val[i] = ByteAt(ram, out'.a + i - 1)
        /\ /\ out'.op \in {"store", "amo"} \/ (out'.op = "sc" /\ out'.rd = 0)
           /\ out'.cause = "none"
           => /\ \A i \in 1 .. out'.n :
                    Page(out'.a + i - 1).to = "ram"
                       => ByteAt(ram', out'.a + i - 1) = out'.val[i]
              /\ \A o \in DOMAIN ram :
                    ram'[o] # ram[o] =>
                       \E b \in Span(out'.a, out'.n) :
                          Page(b).to = "ram" /\ Offset(b) = o ]_vars

\* An SC succeeds only if an LR of its address came before it and no other SC in
\* between, and an SC that does not succeed stores nothing.
ScNeedsLr ==
    [][ out'.op = "sc" =>
           /\ out'.rd = 0 => lr = out'.a
           /\ out'.rd = 1 => ram' = ram ]_vars

\* A compressed instruction at the end of a page never faults because of the
\* page behind it.
CompressedStaysInPage ==
    [][ out'.op = "fetch" /\ out'.cause # "none" /\ MayCrossPage(out'.a) =>
          out'.tval = out'.a \/ ~IsCompressed(ByteAt(ram, out'.a)) ]_vars
=============================================================================
