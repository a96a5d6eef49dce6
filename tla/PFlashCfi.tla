----------------------------- MODULE PFlashCfi ------------------------------
(* The query table of src/device/pflash_cfi01.cpp: what a driver that       *)
(* probes the flash learns of its geometry. Two 16-bit chips stand side by  *)
(* side in a 32-bit bank, so each answer comes twice in a word, and sizes   *)
(* are those of one chip.                                                   *)
EXTENDS Integers, Sequences

CONSTANTS SectorLens, BlockCounts     \* the geometries looked at, in bytes

\* What the table can express: powers of two, sectors in units of 256 bytes of a
\* chip, and up to 65536 of them.
CfiAssumption ==
    /\ SectorLens \subseteq Nat /\ BlockCounts \subseteq Nat
    /\ \A s \in SectorLens, n \in BlockCounts :
          \E i \in 9 .. 24, j \in 0 .. 16 : s = 2^i /\ n = 2^j /\ i + j <= 30

\* What the proofs use of the powers of two: facts of arithmetic.
SmallPowers == 2^0 = 1 /\ 2^1 = 2 /\ 2^8 = 256 /\ 2^16 = 65536
PowerLaws ==
    /\ \A m \in 0 .. 30 : 2^m \in Nat \ {0}
    /\ \A m, n \in 0 .. 30 : m + n <= 30 => 2^(m + n) = 2^m * 2^n
PowerFacts == SmallPowers /\ PowerLaws

VARIABLES sectorLen, blocks           \* sector_len_, num_blocks_

vars == <<sectorLen, blocks>>

Init == sectorLen \in SectorLens /\ blocks \in BlockCounts

\* Number of trailing zero bits.
Ctz(n) == CHOOSE k \in 0 .. 31 : n % 2^k = 0 /\ (n \div 2^k) % 2 = 1

(* Wrong variant: the sizes of the whole bank. *)
CfiTableBank(i) ==
    CASE i = \h27 -> Ctz(sectorLen) + Ctz(blocks)
      [] i = \h2A -> 11
      [] i = \h2D -> (blocks - 1) % 256
      [] i = \h2E -> ((blocks - 1) \div 256) % 256
      [] i = \h2F -> (sectorLen \div 256) % 256
      [] i = \h30 -> (sectorLen \div 65536) % 256
      [] OTHER    -> 0

\* The geometry entries of cfi_table_; the others are constants.
CfiTable(i) ==
    LET sectorPerDevice == sectorLen \div 2
    IN  CASE i = \h27 -> Ctz(sectorPerDevice * blocks)
          [] i = \h2A -> 11
          [] i = \h2D -> (blocks - 1) % 256
          [] i = \h2E -> ((blocks - 1) \div 256) % 256
          [] i = \h2F -> (sectorPerDevice \div 256) % 256
          [] i = \h30 -> (sectorPerDevice \div 65536) % 256
          [] OTHER    -> 0

WritebuffSize == 2^CfiTable(\h2A) * 2

\* value with its length bits from start on replaced by those of field.
Deposit(value, start, length, field) ==
    LET old == (value \div 2^start) % 2^length
    IN  value + (((field % 2^length) - old) * 2^start)

\* cfi_query: the table is indexed by words of the bank; the answer of the
\* first chip is deposited into the upper half too.
CfiQuery(offset) ==
    LET boff == offset \div 4
        resp == CfiTable(boff)
    IN  IF boff >= \h52 THEN 0 ELSE Deposit(resp, 16, 16, resp)

\* Another device is built.
Next == sectorLen' \in SectorLens /\ blocks' \in BlockCounts

Spec == Init /\ [][Next]_vars

-----------------------------------------------------------------------------
(* Properties.                                                             *)

\* A driver that adds up the two chips of the bank, reading the table with
\* cfi_query at word strides, finds the size, the number of sectors, their
\* length and the size of the write buffer that the device really has.
CfiTellsGeometry ==
    LET q(i) == [c \in 1 .. 2 |-> (CfiQuery(4 * i) \div 2^(16 * (c - 1))) % 2^16]
        both(f(_)) == f(1) + f(2)
    IN  /\ both(LAMBDA c : 2^q(\h27)[c]) = sectorLen * blocks
        /\ \A c \in 1 .. 2 : q(\h2D)[c] + 256 * q(\h2E)[c] + 1 = blocks
        /\ both(LAMBDA c : 256 * q(\h2F)[c] + 65536 * q(\h30)[c]) = sectorLen
        /\ both(LAMBDA c : 2^q(\h2A)[c]) = WritebuffSize
=============================================================================
