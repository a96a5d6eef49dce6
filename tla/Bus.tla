-------------------------------- MODULE Bus ---------------------------------
(* The address decoding of include/core/bus.hpp: devices are added one     *)
(* after the other when the emulator is built; an access looks for its     *)
(* owner in DRAM first and then among the devices, in the order in which   *)
(* they were added.                                                        *)
EXTENDS Integers, Sequences

CONSTANTS
    AddrSpace,             \* the number of addresses, 2^64
    DramStart, DramEnds,   \* DRAM_BASE, and the last addresses DRAM may have
    Offered,               \* sequences of devices: records with start, end
    A, Sizes               \* the addresses and access sizes looked at

\* All devices offered.
Known == UNION {{o[k] : k \in DOMAIN o} : o \in Offered}

BusAssumption ==
    /\ AddrSpace \in Nat \ {0} /\ DramStart \in Nat
    /\ DramEnds \subseteq 0 .. AddrSpace - 1 /\ \A e \in DramEnds : e >= DramStart
    /\ Offered \subseteq Seq(Known)
    /\ \A dev \in Known : dev.start \in 0 .. AddrSpace - 1 /\ dev.end \in 0 .. AddrSpace - 1
    /\ A \subseteq 0 .. AddrSpace - 1 /\ Sizes \subseteq Nat \ {0}

VARIABLES
    dramEnd,    \* the last address of DRAM
    offered,    \* the devices the emulator is still going to add
    devices,    \* devices_
    refused     \* add_device has thrown: no emulator is built

vars == <<dramEnd, offered, devices, refused>>

Init ==
    /\ dramEnd \in DramEnds
    /\ offered \in Offered
    /\ devices = <<>>
    /\ refused = FALSE

\* check_overlap: max(s1, s2) <= min(e1, e2).
CheckOverlap(s1, e1, s2, e2) ==
    (IF s1 >= s2 THEN s1 ELSE s2) <= (IF e1 <= e2 THEN e1 ELSE e2)

Clashes(dev) ==
    \/ CheckOverlap(dev.start, dev.end, DramStart, dramEnd)
    \/ \E k \in DOMAIN devices :
          CheckOverlap(dev.start, dev.end, devices[k].start, devices[k].end)

AddDevice ==
    /\ offered # <<>> /\ ~refused
    /\ offered' = Tail(offered)
    /\ IF Clashes(Head(offered))
       THEN refused' = TRUE /\ UNCHANGED devices
       ELSE devices' = Append(devices, Head(offered)) /\ UNCHANGED refused
    /\ UNCHANGED dramEnd

Next == AddDevice

Spec == Init /\ [][Next]_vars

-----------------------------------------------------------------------------
(* Wrong variant: only the first address of an access is looked at. *)
ContainsFirst(dev, addr, len) == dev.start <= addr /\ addr <= dev.end

\* Device::contains; the sum for the last byte wraps.
Contains(dev, addr, len) ==
    dev.start <= addr /\ addr <= dev.end /\ (addr + len - 1) % AddrSpace <= dev.end

\* Dram::is_valid_addr, which compares offsets from DRAM_BASE.
IsValidAddr(addr, len) ==
    LET size == dramEnd - DramStart + 1
    IN  addr >= DramStart /\ len <= size /\ addr - DramStart <= size - len

Owners(addr, len) == {k \in DOMAIN devices : Contains(devices[k], addr, len)}

\* Where Bus::read and Bus::write send an access: 0 is DRAM, k the k-th device
\* and -1 nobody, which the MMU turns into an access fault.
Owner(addr, len) ==
    IF IsValidAddr(addr, len) THEN 0
    ELSE IF Owners(addr, len) = {} THEN -1
    ELSE CHOOSE k \in Owners(addr, len) : \A j \in Owners(addr, len) : k <= j

\* Bus::accessible: some owner takes a byte at the address.
Accessible(addr) == IsValidAddr(addr, 1) \/ Owners(addr, 1) # {}

-----------------------------------------------------------------------------
(* Properties.                                                             *)

\* No byte has two owners, whatever ranges were offered to add_device and in
\* whatever order: the order in which read and write ask does not matter.
OneOwner ==
    \A a \in A : \A j, k \in Owners(a, 1) : j = k /\ ~IsValidAddr(a, 1)

\* An access that finds an owner lies wholly in it, and each of its bytes on its
\* own goes to the same place: the byte by byte access the MMU makes when an
\* address is misaligned reaches what the whole access would have reached. The
\* converse fails only across the end of an owner. Accesses that run past the
\* last address are left out, and the MMU makes none: what it sends to the bus
\* as a whole is aligned or, when it fetches, within a page. Device::contains
\* would take them for a device at the top, for its sum wraps to a low address.
AccessIsBytes ==
    \A a \in A, n \in Sizes : a + n <= AddrSpace =>
        LET bytes == a .. a + n - 1
            who == {Owner(b, 1) : b \in bytes}
        IN  /\ Owner(a, n) >= 0 => who = {Owner(a, n)}
            /\ (\A b \in bytes : Accessible(b)) /\ Owner(a, n) = -1
                   => \E b, c \in bytes : Owner(b, 1) # Owner(c, 1)

\* The memory map the emulator builds is never refused, whatever the amount of
\* memory and whether or not there is a disk.
NothingRefused == ~refused
=============================================================================
