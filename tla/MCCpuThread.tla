---------------------------- MODULE MCCpuThread -----------------------------
(* Small instances of the parts of CpuThread.                              *)
EXTENDS CpuThread

\* Two levels of two entries; entries that are invalid, that point to a table,
\* and that map a page for data or for instructions.
Entry(S, ad, q) == [v |-> TRUE, perm |-> S, a |-> "a" \in ad, d |-> "d" \in ad,
                    rsv |-> FALSE, ppn |-> q]
Setting(p, sum, mxr, adue) == [priv |-> p, sum |-> sum, mxr |-> mxr, adue |-> adue]
MmuSlots   == {<<0, 0>>, <<0, 1>>, <<1, 1>>}
MmuEntries == {[Entry({}, {}, 0) EXCEPT !.v = FALSE], Entry({}, {}, 1),
               Entry({"R", "W", "U"}, {"a"}, 4), Entry({"X"}, {}, 6)}
MmuModes   == {Setting("U", FALSE, FALSE, TRUE), Setting("S", FALSE, FALSE, TRUE),
               Setting("S", TRUE, TRUE, FALSE)}

\* Every shape of an entry that the walk tells apart; 9 is outside memory, and not
\* aligned.
Pointer(t) == Entry({}, {}, t)
Shapes ==
    {Pointer(t) : t \in {0, 1, 9}}
    \cup {[Pointer(1) EXCEPT !.v = FALSE], [Pointer(1) EXCEPT !.rsv = TRUE],
          [Pointer(1) EXCEPT !.d = TRUE], Entry({"U"}, {}, 1), Entry({"W"}, {}, 1)}
    \cup {Entry(S, {"a", "d"}, 8) : S \in {{"R"}, {"R", "W", "U"}, {"X"}, {"W", "X"}, {"X", "U"}}}
    \cup {Entry({"R", "W"}, ad, 8) : ad \in SUBSET {"a", "d"}}
    \cup {Entry({"R", "W"}, {"a", "d"}, 9)}

\* Two pages of four cells.
Kind(to, writable) == [to |-> to, writable |-> writable]
PageKinds == {Kind("none", FALSE), Kind("ram", FALSE), Kind("ram", TRUE),
              Kind("device", TRUE), Kind("hole", TRUE)}

\* Every sequence of three ranges in an address space of six.
Ranges == {r \in [start : 0 .. 5, end : 0 .. 5] : r.start <= r.end}
RangeOffers == [1 .. 3 -> Ranges]

\* The doubles at the edges of the classes; of the singles every one is tried.
DoubleEdges == {0, 1, 63, 64, 200, 448, 449, 480, 511,
                512, 513, 576, 960, 961, 992, 993, 1022, 1023}

\* A queue of two slots whose indices wrap at 4, a disk of one block, and the
\* sectors 0 and 2, whose byte offsets are the same after wrapping: the capacities
\* 0 and 3 let sector 2 through, 1 does not.
Ask(type, sector, data) == [type |-> type, sector |-> sector, data |-> data]
DiskRequests == {Ask("IN", 0, "none"), Ask("OUT", 0, "a"), Ask("OUT", 2, "a"),
                 Ask("OTHER", 0, "none"), Ask("BADDATA", 0, "none"), Ask("BADCHAIN", 0, "none")}

\* Two sectors of one write block of two words, blank or filled.
CfiSectors == {2^n : n \in {9, 10, 11, 12, 14, 16, 17, 18}}
CfiBlocks  == {2^n : n \in 0 .. 12}
FlashImages == {[o \in 0 .. 3 |-> \hFFFF], [o \in 0 .. 3 |-> 1]}
=============================================================================
