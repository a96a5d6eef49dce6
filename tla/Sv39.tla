------------------------------- MODULE Sv39 ---------------------------------
(* The page-table walk of MMU::translate, include/core/mmu.hpp, as a pure  *)
(* function of the tables.  A virtual page number has Levels digits; an    *)
(* entry is its valid bit, its permissions, the A and D bits, whether a    *)
(* reserved bit is set, and a page number.  Addresses that are not         *)
(* canonical have faulted before the walk.  Tables lie in DRAM: there the  *)
(* A and D bits go back to the word just read, and that store cannot fail. *)
EXTENDS Integers

CONSTANTS
    Levels,      \* LEVELS: 3
    Digits,      \* 2^VPNBITS: the entries of a table
    Tables       \* the page numbers at which memory holds tables

Sv39Assumption ==
    /\ Levels \in Nat \ {0} /\ Digits \in Nat \ {0}
    /\ Tables \subseteq Nat
    /\ \A i \in 0 .. Levels : Digits ^ i \in Nat \ {0}

Vpn   == 0 .. Digits ^ Levels - 1
Perm  == {"R", "W", "X", "U"}
Pte   == [v : BOOLEAN, perm : SUBSET Perm, a : BOOLEAN, d : BOOLEAN,
          rsv : BOOLEAN, ppn : Nat]
Type  == {"Fetch", "Load", "Store"}

\* What else decides: the effective privilege, mstatus.SUM and MXR, and
\* menvcfg.ADUE.
Mode == [priv : {"U", "S"}, sum : BOOLEAN, mxr : BOOLEAN, adue : BOOLEAN]

\* The privilege of an access: MPRV lends MPP to loads and stores.
EffectivePriv(priv, mprv, mpp, type) ==
    IF type # "Fetch" /\ mprv THEN mpp ELSE priv

Digit(vpn, i) == (vpn \div Digits ^ i) % Digits
IsLeaf(p)     == p.perm \cap {"R", "X"} # {}

\* The page may be used at all by this privilege ...
PrivAllows(perm, type, m) ==
    IF "U" \in perm THEN m.priv = "U" \/ (type # "Fetch" /\ m.sum)
                    ELSE m.priv # "U"

\* ... and for this kind of access.
TypeAllows(perm, type, m) ==
    CASE type = "Fetch" -> "X" \in perm
      [] type = "Load"  -> "R" \in perm \/ (m.mxr /\ "X" \in perm)
      [] type = "Store" -> "W" \in perm

\* The entry with the A bit, and for a store the D bit, set.
Touched(p, type) == [p EXCEPT !.a = TRUE, !.d = p.d \/ type = "Store"]

Fault(kind) == [kind |-> kind]

(* Wrong variant: a superpage need not be aligned. *)
LeafResultUnaligned(p, at, i, vpn, type, m) ==
    IF ~PrivAllows(p.perm, type, m) \/ ~TypeAllows(p.perm, type, m)
       \/ (Touched(p, type) # p /\ ~m.adue)
    THEN Fault("page")
    ELSE [kind |-> "ok", ppn |-> p.ppn - (p.ppn % Digits ^ i) + (vpn % Digits ^ i),
          perm |-> p.perm, dirty |-> p.d, at |-> at, new |-> Touched(p, type)]

\* A leaf entry p found at level i.  The TLB later gets the D bit as it was
\* before the walk set it.
LeafResult(p, at, i, vpn, type, m) ==
    IF p.ppn % Digits ^ i # 0
       \/ ~PrivAllows(p.perm, type, m) \/ ~TypeAllows(p.perm, type, m)
       \/ (Touched(p, type) # p /\ ~m.adue)
    THEN Fault("page")
    ELSE [kind |-> "ok", ppn |-> p.ppn - (p.ppn % Digits ^ i) + (vpn % Digits ^ i),
          perm |-> p.perm, dirty |-> p.d, at |-> at, new |-> Touched(p, type)]

\* Entries that are a page fault wherever they are found.
Malformed(p) ==
    \/ ~p.v
    \/ "W" \in p.perm /\ "R" \notin p.perm
    \/ p.rsv
    \/ ~IsLeaf(p) /\ (p.d \/ p.a \/ "U" \in p.perm)

\* The loop: at level i, with the table at page number t.
Walk(mem, root, vpn, type, m) ==
    LET w[s \in (0 .. Levels - 1) \X Nat] ==
          LET i == s[1]
              t == s[2]
              p == mem[t][Digit(vpn, i)]
          IN  IF t \notin Tables THEN Fault("access")
              ELSE IF Malformed(p) THEN Fault("page")
              ELSE IF IsLeaf(p) THEN LeafResult(p, <<t, Digit(vpn, i)>>, i, vpn, type, m)
              ELSE IF i = 0 THEN Fault("page")
              ELSE w[<<i - 1, p.ppn>>]
    IN  w[<<Levels - 1, root>>]

-----------------------------------------------------------------------------
(* What the tables grant, stated without a loop.                           *)

\* An inner entry: it points to table t and says nothing else.
Inner(t) == [v |-> TRUE, perm |-> {}, a |-> FALSE, d |-> FALSE, rsv |-> FALSE, ppn |-> t]

\* A chain of inner entries leads from the root to table t at level i.
Reaches(mem, root, vpn, t, i) ==
    \E chain \in [i .. Levels - 1 -> Tables] :
        /\ chain[Levels - 1] = root /\ chain[i] = t
        /\ \A j \in i + 1 .. Levels - 1 : mem[chain[j]][Digit(vpn, j)] = Inner(chain[j - 1])

\* A leaf at the end of a chain maps vpn to a page of Q and grants the access.
Maps(mem, root, vpn, type, m, Q) ==
    \E i \in 0 .. Levels - 1, t \in Tables :
        LET p == mem[t][Digit(vpn, i)]
        IN  /\ Reaches(mem, root, vpn, t, i)
            /\ p.v /\ ~p.rsv
            /\ p.perm \cap {"R", "X"} # {} /\ ("W" \in p.perm => "R" \in p.perm)
            /\ p.ppn % Digits ^ i = 0
            /\ ("U" \in p.perm) = (m.priv = "U")
               \/ ("U" \in p.perm /\ m.sum /\ type # "Fetch")
            /\ \/ type = "Fetch" /\ "X" \in p.perm
               \/ type = "Load"  /\ ("R" \in p.perm \/ (m.mxr /\ "X" \in p.perm))
               \/ type = "Store" /\ "W" \in p.perm
            /\ m.adue \/ (p.a /\ (type = "Store" => p.d))
            /\ p.ppn + (vpn % Digits ^ i) \in Q

\* The root, or an inner entry at the end of a chain, points outside memory.
LeavesMemory(mem, root, vpn) ==
    root \notin Tables \/ \E i \in 1 .. Levels - 1, t \in Tables :
        LET p == mem[t][Digit(vpn, i)]
        IN  Reaches(mem, root, vpn, t, i) /\ p = Inner(p.ppn) /\ p.ppn \notin Tables

\* The walk of MMU::translate grants exactly the accesses the tables grant, to
\* the right page; all else faults, and as an access fault exactly where the
\* tables lead out of memory.
WalkIsLawful(mem, root, vpn, type, m) ==
    LET r == Walk(mem, root, vpn, type, m)
    IN  /\ r.kind = "ok" => Maps(mem, root, vpn, type, m, {r.ppn})
        /\ r.kind # "ok" => ~Maps(mem, root, vpn, type, m, Nat)
        /\ r.kind = "access" <=> LeavesMemory(mem, root, vpn)
=============================================================================
