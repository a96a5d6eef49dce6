------------------------------- MODULE Loader -------------------------------
(* How a program gets into memory before the machine starts: Emulator::load *)
(* (raw bytes), Emulator::loadelf with ElfLoader::load, and main, which     *)
(* runs the machine only if none of them threw.  Addresses and sizes are    *)
(* unsigned integers of Width bits, as they are of 64 bits in the source.   *)
(* The file is well formed in one respect: its tables and the bytes of its  *)
(* segments lie inside it.                                                  *)
EXTENDS Integers, FiniteSetsExt

CONSTANTS Width,      \* 64: width of an address
          Base,       \* DRAM_BASE
          Size,       \* size_ of the DRAM
          Sizes,      \* sizes of segments
          NumSegs     \* e_phnum

LoaderAssumption ==
    /\ Base \in Nat /\ Size \in Nat /\ 2^Width \in Nat /\ Base + Size <= 2^Width
    /\ Sizes \subseteq 0 .. 2^Width - 1 /\ NumSegs \in Nat

Addr == 0 .. 2^Width - 1
Segs == 1 .. NumSegs

\* A program header; not a PT_LOAD one if ~load.  The bytes of segment i are
\* told apart from those of the others and from zero.
Phdr == [load : BOOLEAN, paddr : Addr, filesz : {n \in Sizes : n <= Size}, memsz : Sizes]
Byte == {<<"zero", 0, 0>>} \cup {<<"raw", 0, 0>>} \cup
        {<<"file", i, k>> : i \in Segs, k \in 0 .. Size - 1}
Zero == <<"zero", 0, 0>>

\* A header of another type, of which load looks at nothing else.
NoSegment == [load |-> FALSE, paddr |-> 0, filesz |-> 0, memsz |-> 0]

VARIABLES
    file,    \* what read_file and validate_elf_header find: "good", "bad" or "none"
    phdr,    \* the program headers
    mem,     \* the DRAM by offset
    next,    \* the loop counter of ElfLoader::load
    phase,   \* "new", "loading", "running", "failed" (loadelf threw, main has returned)
             \* or "refused" (load threw)
    raw      \* history: what Emulator::load wrote

vars == <<file, phdr, mem, next, phase, raw>>

TypeOK ==
    /\ file \in {"good", "bad", "none"}
    /\ phdr \in [Segs -> Phdr]
    /\ DOMAIN mem = 0 .. Size - 1 /\ \A a \in DOMAIN mem : mem[a] \in Byte
    /\ next \in 1 .. NumSegs + 1
    /\ phase \in {"new", "loading", "running", "failed", "refused"}
    /\ raw \in SUBSET (0 .. Size - 1)

Init ==
    /\ file \in {"good", "bad", "none"}
    /\ phdr \in [Segs -> Phdr]
    /\ \A i \in Segs : ~phdr[i].load =>
         phdr[i] = NoSegment
    /\ mem = [a \in 0 .. Size - 1 |-> Zero]
    /\ next = 1 /\ phase = "new" /\ raw = {}

-----------------------------------------------------------------------------
(* Dram.                                                                   *)

(* Wrong variant: the end of the range is computed, and may wrap around. *)
IsValidAddrWraps(addr, len) ==
    addr >= Base /\ (addr - Base + len) % 2^Width <= Size

IsValidAddr(addr, len) ==
    /\ addr >= Base
    /\ len <= Size
    /\ addr - Base <= Size - len

\* The offsets of a range.
Offsets(addr, len) == {a \in 0 .. Size - 1 : a >= addr - Base /\ a < addr - Base + len}

-----------------------------------------------------------------------------
\* An exception of loadelf ends main.
Throw == phase' = "failed"

\* Emulator::load; with n = 0 it returns before it looks at the address.
LoadRaw(addr, n) ==
    /\ phase = "new" /\ raw = {} /\ n > 0
    /\ \/ ~IsValidAddr(addr, n) /\ phase' = "refused" /\ UNCHANGED <<mem, raw>>
       \/ /\ IsValidAddr(addr, n)
          /\ mem' = [a \in 0 .. Size - 1 |->
                       IF a \in Offsets(addr, n) THEN <<"raw", 0, 0>> ELSE mem[a]]
          /\ raw' = Offsets(addr, n)
          /\ UNCHANGED phase
    /\ UNCHANGED <<file, phdr, next>>

\* read_file throws if it cannot open or read the file, validate_elf_header if
\* it is no 64-bit RISC-V ELF file.
ReadFile == file # "none"
ValidHeader == file = "good"

\* loadelf up to the loop over the program headers.
OpenElf ==
    /\ phase = "new"
    /\ IF ReadFile /\ ValidHeader THEN phase' = "loading" ELSE Throw
    /\ UNCHANGED <<file, phdr, mem, next, raw>>

\* The memory after segment i: the bytes of the file, then zeros.
Placed(i) ==
    LET s == phdr[i] IN
    [a \in 0 .. Size - 1 |->
        IF a \in Offsets(s.paddr, s.filesz) THEN <<"file", i, a - (s.paddr - Base)>>
        ELSE IF s.memsz > s.filesz
                /\ a \in Offsets((s.paddr + s.filesz) % 2^Width, s.memsz - s.filesz)
        THEN Zero ELSE mem[a]]

\* The check at the top and the one of write_bytes, which comes before it
\* writes: a segment with more bytes in the file than in memory.
Fits(i) ==
    /\ IsValidAddr(phdr[i].paddr, phdr[i].memsz)
    /\ phdr[i].filesz > 0 => IsValidAddr(phdr[i].paddr, phdr[i].filesz)

LoadSegment ==
    /\ phase = "loading" /\ next \in Segs
    /\ \/ /\ phdr[next].load /\ ~Fits(next)
          /\ Throw
          /\ UNCHANGED <<mem, next>>
       \/ /\ phdr[next].load => Fits(next)
          /\ mem' = IF phdr[next].load THEN Placed(next) ELSE mem
          /\ next' = next + 1
          /\ UNCHANGED phase
    /\ UNCHANGED <<file, phdr, raw>>

\* loadelf sets the pc and main calls run.
Start ==
    /\ phase = "loading" /\ next = NumSegs + 1
    /\ phase' = "running"
    /\ UNCHANGED <<file, phdr, mem, next, raw>>

Next ==
    \/ \E addr \in {Base, Base + Size - 1}, n \in 0 .. 2 : LoadRaw(addr, n)
    \/ OpenElf \/ LoadSegment \/ Start

Spec == Init /\ [][Next]_vars

-----------------------------------------------------------------------------
(* Properties.                                                             *)

\* The length of a segment as the ELF format means it.
Extent(i) == Max({phdr[i].memsz, phdr[i].filesz})

\* What address a holds when the first n segments are in place: the last
\* segment over it decides, by its file or with zero.
Meant(a, n) ==
    LET over == {i \in 1 .. n : /\ phdr[i].load
                                /\ a \in phdr[i].paddr .. phdr[i].paddr + Extent(i) - 1}
        s    == Max(over)
    IN  IF over # {}
        THEN IF a - phdr[s].paddr < phdr[s].filesz
             THEN <<"file", s, a - phdr[s].paddr>> ELSE Zero
        ELSE IF a - Base \in raw THEN <<"raw", 0, 0>> ELSE Zero

\* ElfLoader::load leaves in memory what the program headers say, at every
\* point: overlapping segments in their order, the part beyond the file zero
\* over whatever was there; the segment that throws leaves nothing.
ImageAsMeant ==
    \A a \in 0 .. Size - 1 : mem[a] = Meant(Base + a, next - 1)

\* The machine runs exactly if the file is an ELF file for it and every
\* segment lies in the DRAM, an empty one included, for all that the address
\* arithmetic could wrap around: no program is started half loaded, and none
\* that fits is refused.
RunsIffLoadable ==
    phase \in {"running", "failed"} =>
        (phase = "running" <=>
            /\ file = "good"
            /\ \A i \in Segs : phdr[i].load =>
                 /\ phdr[i].paddr >= Base
                 /\ phdr[i].paddr + Extent(i) <= Base + Size)
=============================================================================
