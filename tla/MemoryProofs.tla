---------------------------- MODULE MemoryProofs -----------------------------
(* Proofs about the translation of addresses and the accesses of a hart to *)
(* memory, for every number of levels, tables and TLB entries and for      *)
(* pages and accesses of every size, about the bus, and about what a guest *)
(* finds there.                                                            *)
EXTENDS CpuThreadProofs

-----------------------------------------------------------------------------
(* The TLBs.                                                               *)

TableSet == [Tables -> [0 .. Digits - 1 -> Tlb!Pte]]
TlbLevels == 0 .. Levels - 1

\* The loop of the walk, as the equation its function w solves at the places s.
WalkBody(tab, vpn, type, m, w, s) ==
    LET i == s[1]
        t == s[2]
        p == tab[t][Tlb!Digit(vpn, i)]
    IN  IF t \notin Tables THEN Tlb!Fault("access")
        ELSE IF Tlb!Malformed(p) THEN Tlb!Fault("page")
        ELSE IF Tlb!IsLeaf(p)
             THEN Tlb!LeafResult(p, <<t, Tlb!Digit(vpn, i)>>, i, vpn, type, m)
        ELSE IF i = 0 THEN Tlb!Fault("page")
        ELSE w[<<i - 1, p.ppn>>]
WalkSolves(tab, vpn, type, m, w) ==
    w = [s \in TlbLevels \X Nat |-> WalkBody(tab, vpn, type, m, w, s)]
WalkFrom(tab, vpn, type, m) == CHOOSE w : WalkSolves(tab, vpn, type, m, w)

LEMMA WalkIs ==
    ASSUME NEW tab, NEW root, NEW vpn, NEW type, NEW m
    PROVE  Tlb!Walk(tab, root, vpn, type, m) = WalkFrom(tab, vpn, type, m)[<<Levels - 1, root>>]
BY DEF Tlb!Walk, WalkFrom, WalkSolves, WalkBody, TlbLevels

LEMMA TlbConstants ==
    /\ Levels \in Nat \ {0} /\ Digits \in Nat \ {0} /\ Tables \subseteq Nat
    /\ \A i \in 0 .. Levels : Digits ^ i \in Nat \ {0}
    /\ TLB_ENTRIES \in Nat \ {0} /\ Satps \subseteq Tables
    /\ Slots \subseteq Tables \X (0 .. Digits - 1)
    /\ Entries \subseteq Tlb!Pte /\ Modes \subseteq Tlb!Mode
BY CpuThreadAssumptions DEF Tlb!Sv39Assumption, Tlb!MmuAssumption

LEMMA DigitIs ==
    ASSUME NEW vpn \in Nat, NEW i \in TlbLevels
    PROVE  Tlb!Digit(vpn, i) \in 0 .. Digits - 1
<1>1. PICK h \in Nat \ {0} : h = Digits ^ i
  BY TlbConstants DEF TlbLevels
<1>2. PICK q \in Nat : q = vpn \div h
  BY SplitOf
<1>3. q % Digits \in 0 .. Digits - 1
  BY SplitOf, TlbConstants
<1> QED BY <1>1, <1>2, <1>3 DEF Tlb!Digit

LEMMA EntryIs ==
    ASSUME NEW tab \in TableSet, NEW t \in Tables, NEW d \in 0 .. Digits - 1
    PROVE  tab[t][d] \in Tlb!Pte /\ tab[t][d].ppn \in Nat
<1>1. tab[t][d] \in Tlb!Pte
  BY DEF TableSet
<1> QED BY <1>1 DEF Tlb!Pte

\* The equation has a solution: one for the lowest n levels extends to the next.
LEMMA WalkExists ==
    ASSUME NEW tab \in TableSet, NEW vpn \in Nat, NEW type, NEW m
    PROVE  \E w : WalkSolves(tab, vpn, type, m, w)
<1> DEFINE Places(n) == (0 .. n - 1) \X Nat
           Body(w, s) == WalkBody(tab, vpn, type, m, w, s)
           Solved(n) == \E w : w = [s \in Places(n) |-> Body(w, s)]
           Open == {n \in 0 .. Levels : ~Solved(n)}
<1>0. Levels \in Nat \ {0}
  BY TlbConstants
<1>1. Solved(0)
  <2>1. Places(0) = {}
    OBVIOUS
  <2> DEFINE e == [s \in Places(0) |-> 0]
  <2>2. e = [s \in Places(0) |-> Body(e, s)]
    BY <2>1
  <2> QED BY <2>2
<1>2. ASSUME NEW n \in Nat, n + 1 <= Levels, Solved(n) PROVE Solved(n + 1)
  <2>1. PICK v : v = [s \in Places(n) |-> Body(v, s)]
    BY <1>2
  <2> DEFINE u == [s \in Places(n + 1) |-> Body(v, s)]
  <2>2. ASSUME NEW s \in Places(n) PROVE s \in Places(n + 1) /\ u[s] = v[s]
    <3>1. s \in Places(n + 1)
      BY <1>2
    <3>2. v[s] = Body(v, s)
      BY <2>1
    <3> HIDE DEF Body
    <3> QED BY <3>1, <3>2
  <2>3. ASSUME NEW s \in Places(n + 1) PROVE Body(u, s) = Body(v, s)
    <3>1. PICK i \in 0 .. n, t \in Nat : s = <<i, t>> /\ s[1] = i /\ s[2] = t
      OBVIOUS
    <3> DEFINE p == tab[t][Tlb!Digit(vpn, i)]
    <3>2. CASE t \notin Tables \/ i = 0
      BY <3>1, <3>2 DEF WalkBody
    <3>3. CASE t \in Tables /\ i # 0
      <4>1. i \in TlbLevels
        BY <1>0, <1>2 DEF TlbLevels
      <4>2. p.ppn \in Nat
        BY <3>3, <4>1, DigitIs, EntryIs
      <4>3. <<i - 1, p.ppn>> \in Places(n)
        BY <3>3, <4>2, <1>2
      <4>4. u[<<i - 1, p.ppn>>] = v[<<i - 1, p.ppn>>]
        BY <2>2, <4>3
      <4> HIDE DEF u
      <4> QED BY <3>1, <4>4, Zenon DEF WalkBody
    <3> QED BY <3>2, <3>3
  <2>4. u = [s \in Places(n + 1) |-> Body(u, s)]
    <3> HIDE DEF Body, Places
    <3> QED BY <2>3
  <2> QED BY <2>4
<1>3. Open = {}
  <2> SUFFICES ASSUME Open # {} PROVE FALSE
    OBVIOUS
  <2> HIDE DEF Solved
  <2>1. Open \in SUBSET Nat
    BY <1>0
  <2>2. PICK n \in Open : \A k \in Open : n <= k
    BY <2>1, NatSetHasMin
  <2>3. n \in Nat \ {0} /\ n <= Levels /\ ~Solved(n)
    BY <1>0, <1>1, <2>2
  <2>4. PICK k \in Nat : n = k + 1
    BY <2>3
  <2>5. Solved(k)
    BY <2>2, <2>3, <2>4, <1>0
  <2> QED BY <1>2, <2>3, <2>4, <2>5
<1>4. Solved(Levels)
  <2> HIDE DEF Solved
  <2> QED BY <1>0, <1>3
<1> QED BY <1>4 DEF TlbLevels, WalkSolves

LEMMA WalkStep ==
    ASSUME NEW tab \in TableSet, NEW vpn \in Nat, NEW type, NEW m,
           NEW i \in TlbLevels, NEW t \in Nat
    PROVE  WalkFrom(tab, vpn, type, m)[<<i, t>>]
              = WalkBody(tab, vpn, type, m, WalkFrom(tab, vpn, type, m), <<i, t>>)
<1> DEFINE w == WalkFrom(tab, vpn, type, m)
<1>1. w = [s \in TlbLevels \X Nat |-> WalkBody(tab, vpn, type, m, w, s)]
  <2>1. \E x : WalkSolves(tab, vpn, type, m, x)
    BY WalkExists, Zenon
  <2>2. WalkSolves(tab, vpn, type, m, w)
    BY <2>1, Zenon DEF WalkFrom
  <2> QED BY <2>2, Zenon DEF WalkSolves
<1> HIDE DEF w
<1>2. <<i, t>> \in TlbLevels \X Nat
  OBVIOUS
<1>3. w[<<i, t>>] = WalkBody(tab, vpn, type, m, w, <<i, t>>)
  BY <1>1, <1>2, Zenon
<1> QED BY <1>3 DEF w

\* Two states of the tables that differ in the A and D bits of leaves only.
Alike(p, q) ==
    /\ q.v = p.v /\ q.perm = p.perm /\ q.rsv = p.rsv /\ q.ppn = p.ppn
    /\ ~Tlb!IsLeaf(p) => q = p
AlikeTables(one, two) ==
    \A t \in Tables, d \in 0 .. Digits - 1 : Alike(one[t][d], two[t][d])

\* From table t0 at level i0 every walk for vpn ends at entry d of table t, a
\* leaf at level i, whatever is asked.
EndsAt(tab, i0, t0, vpn, i, t, d) ==
    \A type \in Tlb!Type, m \in Tlb!Mode :
        WalkFrom(tab, vpn, type, m)[<<i0, t0>>]
           = Tlb!LeafResult(tab[t][d], <<t, d>>, i, vpn, type, m)
BothEnd(one, two, i0, t0, vpn) ==
    \E i \in TlbLevels, t \in Tables, d \in 0 .. Digits - 1 :
        /\ EndsAt(one, i0, t0, vpn, i, t, d) /\ EndsAt(two, i0, t0, vpn, i, t, d)
        /\ Tlb!IsLeaf(one[t][d])

LEMMA AlikeEntries ==
    ASSUME NEW p \in Tlb!Pte, NEW q \in Tlb!Pte, Alike(p, q)
    PROVE  /\ Tlb!IsLeaf(q) <=> Tlb!IsLeaf(p)
           /\ Tlb!Malformed(q) <=> Tlb!Malformed(p)
<1>1. Tlb!IsLeaf(q) <=> Tlb!IsLeaf(p)
  BY DEF Alike, Tlb!IsLeaf
<1>2. CASE Tlb!IsLeaf(p)
  BY <1>1, <1>2, Zenon DEF Alike, Tlb!Malformed
<1>3. CASE ~Tlb!IsLeaf(p)
  BY <1>3, Zenon DEF Alike
<1> QED BY <1>1, <1>2, <1>3

LEMMA WalkEnds ==
    ASSUME NEW one \in TableSet, NEW two \in TableSet, AlikeTables(one, two),
           NEW vpn \in Nat, NEW type \in Tlb!Type, NEW m \in Tlb!Mode,
           NEW i0 \in TlbLevels, NEW t0 \in Nat,
           WalkFrom(one, vpn, type, m)[<<i0, t0>>].kind = "ok"
    PROVE  BothEnd(one, two, i0, t0, vpn)
<1> DEFINE Good(i, t) == WalkFrom(one, vpn, type, m)[<<i, t>>].kind = "ok"
                         => BothEnd(one, two, i, t, vpn)
           Bad == {i \in TlbLevels : \E t \in Nat : ~Good(i, t)}
<1>0. Levels \in Nat \ {0}
  BY TlbConstants
<1>1. ASSUME NEW i \in TlbLevels, NEW t \in Nat,
             WalkFrom(one, vpn, type, m)[<<i, t>>].kind = "ok",
             i # 0 => \A x \in Nat : Good(i - 1, x)
      PROVE  BothEnd(one, two, i, t, vpn)
  <2> DEFINE d == Tlb!Digit(vpn, i)
             p == one[t][d]
             q == two[t][d]
  <2>1. d \in 0 .. Digits - 1
    BY DigitIs
  <2>2. \A ty, mo : WalkFrom(one, vpn, ty, mo)[<<i, t>>]
                       = WalkBody(one, vpn, ty, mo, WalkFrom(one, vpn, ty, mo), <<i, t>>)
    BY WalkStep
  <2>3. \A ty, mo : WalkFrom(two, vpn, ty, mo)[<<i, t>>]
                       = WalkBody(two, vpn, ty, mo, WalkFrom(two, vpn, ty, mo), <<i, t>>)
    BY WalkStep
  <2>4. <<i, t>>[1] = i /\ <<i, t>>[2] = t
    OBVIOUS
  <2>5. Tlb!Fault("access").kind # "ok" /\ Tlb!Fault("page").kind # "ok"
    BY DEF Tlb!Fault
  <2> HIDE DEF d
  <2>6. t \in Tables /\ ~Tlb!Malformed(p) /\ (~Tlb!IsLeaf(p) => i # 0)
    BY <1>1, <2>2, <2>4, <2>5, Zenon DEF WalkBody, d
  <2>7. p \in Tlb!Pte /\ q \in Tlb!Pte /\ p.ppn \in Nat /\ Alike(p, q)
    BY <2>1, <2>6, EntryIs DEF AlikeTables
  <2>8. ~Tlb!Malformed(q) /\ (Tlb!IsLeaf(q) <=> Tlb!IsLeaf(p))
    BY <2>6, <2>7, AlikeEntries
  <2>9. CASE Tlb!IsLeaf(p)
    <3>1. EndsAt(one, i, t, vpn, i, t, d)
      BY <2>2, <2>4, <2>6, <2>9, Zenon DEF EndsAt, WalkBody, d
    <3>2. EndsAt(two, i, t, vpn, i, t, d)
      BY <2>3, <2>4, <2>6, <2>8, <2>9, Zenon DEF EndsAt, WalkBody, d
    <3> QED BY <2>1, <2>6, <2>9, <3>1, <3>2, Zenon DEF BothEnd
  <2>10. CASE ~Tlb!IsLeaf(p)
    <3>1. q = p
      BY <2>7, <2>10, Zenon DEF Alike
    <3> DEFINE x == p.ppn
               j == i - 1
    <3>2. \A ty, mo : WalkFrom(one, vpn, ty, mo)[<<i, t>>] = WalkFrom(one, vpn, ty, mo)[<<j, x>>]
      BY <2>2, <2>4, <2>6, <2>10, Zenon DEF WalkBody, d
    <3>3. \A ty, mo : WalkFrom(two, vpn, ty, mo)[<<i, t>>] = WalkFrom(two, vpn, ty, mo)[<<j, x>>]
      BY <2>3, <2>4, <2>6, <2>8, <2>10, <3>1, Zenon DEF WalkBody, d
    <3>4. Good(j, x)
      BY <1>1, <2>6, <2>7, <2>10
    <3> HIDE DEF x, j
    <3>5. BothEnd(one, two, j, x, vpn)
      BY <1>1, <3>2, <3>4, Zenon
    <3>6. \A k, s, e : /\ EndsAt(one, j, x, vpn, k, s, e) => EndsAt(one, i, t, vpn, k, s, e)
                       /\ EndsAt(two, j, x, vpn, k, s, e) => EndsAt(two, i, t, vpn, k, s, e)
      BY <3>2, <3>3, ZenonT(60) DEF EndsAt
    <3> QED BY <3>5, <3>6, Zenon DEF BothEnd
  <2> QED BY <2>9, <2>10
<1>2. Bad = {}
  <2> SUFFICES ASSUME Bad # {} PROVE FALSE
    OBVIOUS
  <2> HIDE DEF Good
  <2>1. Bad \in SUBSET Nat
    BY <1>0 DEF TlbLevels
  <2>2. PICK i \in Bad : \A k \in Bad : i <= k
    BY <2>1, NatSetHasMin
  <2>3. PICK t \in Nat : ~Good(i, t)
    BY <2>2
  <2>4. i \in TlbLevels
    BY <2>2
  <2>5. ASSUME i # 0, NEW x \in Nat PROVE Good(i - 1, x)
    <3>1. i - 1 \in TlbLevels /\ ~(i <= i - 1)
      BY <1>0, <2>4, <2>5 DEF TlbLevels
    <3>2. i - 1 \notin Bad
      BY <2>2, <3>1
    <3> QED BY <3>1, <3>2
  <2> QED BY <1>1, <2>3, <2>4, <2>5 DEF Good
<1>3. Good(i0, t0)
  <2> HIDE DEF Good
  <2> QED BY <1>2
<1> QED BY <1>3

TlbPlace(p, i, vpn) == p.ppn - (p.ppn % Digits ^ i) + (vpn % Digits ^ i)

\* Apart from its alignment a leaf refuses nothing that the mode Any asks for.
LEMMA AnyAllows ==
    ASSUME NEW p \in Tlb!Pte, Tlb!IsLeaf(p)
    PROVE  /\ Tlb!PrivAllows(p.perm, "Load", Tlb!Any) /\ Tlb!TypeAllows(p.perm, "Load", Tlb!Any)
           /\ Tlb!Any \in Tlb!Mode /\ Tlb!Any.adue /\ "Load" \in Tlb!Type
<1>1. /\ Tlb!Any.priv = "S" /\ Tlb!Any.sum = TRUE /\ Tlb!Any.mxr = TRUE
      /\ Tlb!Any.adue = TRUE
  BY DEF Tlb!Any
<1>2. Tlb!Any \in Tlb!Mode
  BY DEF Tlb!Any, Tlb!Mode
<1>3. "R" \in p.perm \/ "X" \in p.perm
  BY DEF Tlb!IsLeaf
<1>4. Tlb!PrivAllows(p.perm, "Load", Tlb!Any)
  BY <1>1 DEF Tlb!PrivAllows
<1>5. Tlb!TypeAllows(p.perm, "Load", Tlb!Any)
  BY <1>1, <1>3 DEF Tlb!TypeAllows
<1> QED BY <1>1, <1>2, <1>4, <1>5 DEF Tlb!Type

\* When the walk accepts leaf p at level i and what its result r then says.
LeafSays(r, p, at, i, vpn, type, m) ==
    /\ r.kind = "ok" <=> /\ p.ppn % Digits ^ i = 0
                         /\ Tlb!PrivAllows(p.perm, type, m)
                         /\ Tlb!TypeAllows(p.perm, type, m)
                         /\ Tlb!Touched(p, type) = p \/ m.adue
    /\ r.kind = "ok" => /\ r.ppn = TlbPlace(p, i, vpn) /\ r.perm = p.perm
                        /\ r.dirty = p.d /\ r.at = at /\ r.new = Tlb!Touched(p, type)

LEMMA LeafFields ==
    ASSUME NEW p, NEW at, NEW i, NEW vpn, NEW type, NEW m
    PROVE  LeafSays(Tlb!LeafResult(p, at, i, vpn, type, m), p, at, i, vpn, type, m)
<1> DEFINE r == Tlb!LeafResult(p, at, i, vpn, type, m)
           ok == [kind |-> "ok", ppn |-> TlbPlace(p, i, vpn), perm |-> p.perm, dirty |-> p.d,
                  at |-> at, new |-> Tlb!Touched(p, type)]
           no == \/ p.ppn % Digits ^ i # 0 \/ ~Tlb!PrivAllows(p.perm, type, m)
                 \/ ~Tlb!TypeAllows(p.perm, type, m)
                 \/ (Tlb!Touched(p, type) # p /\ ~m.adue)
<1>1. r = IF no THEN Tlb!Fault("page") ELSE ok
  BY DEF Tlb!LeafResult, TlbPlace
<1>2. Tlb!Fault("page").kind = "page"
  BY DEF Tlb!Fault
<1>3. /\ ok.kind = "ok" /\ ok.ppn = TlbPlace(p, i, vpn) /\ ok.perm = p.perm
      /\ ok.dirty = p.d /\ ok.at = at /\ ok.new = Tlb!Touched(p, type)
  OBVIOUS
<1> HIDE DEF r, ok
<1>4. "page" # "ok"
  OBVIOUS
<1>5. CASE no
  BY <1>1, <1>2, <1>4, <1>5, Zenon DEF r, LeafSays
<1>6. CASE ~no
  BY <1>1, <1>3, <1>6, Zenon DEF r, LeafSays
<1> QED BY <1>5, <1>6

LeafAt(tab, i, t, d, vpn) ==
    IF tab[t][d].ppn % Digits ^ i = 0
    THEN {<<TlbPlace(tab[t][d], i, vpn), tab[t][d]>>} ELSE {}

LEMMA LeafIs ==
    ASSUME NEW tab \in TableSet, NEW root \in Nat, NEW vpn \in Nat,
           NEW i \in TlbLevels, NEW t \in Tables, NEW d \in 0 .. Digits - 1,
           EndsAt(tab, Levels - 1, root, vpn, i, t, d), Tlb!IsLeaf(tab[t][d])
    PROVE  Tlb!LeafOf(tab, root, vpn) = LeafAt(tab, i, t, d, vpn)
<1> DEFINE p == tab[t][d]
           r == Tlb!Walk(tab, root, vpn, "Load", Tlb!Any)
           l == Tlb!LeafResult(p, <<t, d>>, i, vpn, "Load", Tlb!Any)
<1>1. p \in Tlb!Pte
  BY EntryIs
<1>2. /\ Tlb!PrivAllows(p.perm, "Load", Tlb!Any) /\ Tlb!TypeAllows(p.perm, "Load", Tlb!Any)
      /\ Tlb!Any \in Tlb!Mode /\ Tlb!Any.adue /\ "Load" \in Tlb!Type
  BY <1>1, AnyAllows
<1>3. r = l
  BY <1>2, WalkIs DEF EndsAt
<1>4. /\ r.kind = "ok" <=> p.ppn % Digits ^ i = 0
      /\ r.kind = "ok" => r.ppn = TlbPlace(p, i, vpn) /\ r.at = <<t, d>>
  <2>1. LeafSays(l, p, <<t, d>>, i, vpn, "Load", Tlb!Any)
    BY LeafFields, Zenon
  <2> HIDE DEF r, l, p
  <2> QED BY <1>2, <1>3, <2>1, Zenon DEF LeafSays
<1>5. Tlb!LeafOf(tab, root, vpn) =
         IF r.kind = "ok" THEN {<<r.ppn, tab[r.at[1]][r.at[2]]>>} ELSE {}
  BY DEF Tlb!LeafOf
<1> HIDE DEF r
<1>6. r.kind = "ok" => r.at[1] = t /\ r.at[2] = d
  BY <1>4
<1> QED BY <1>4, <1>5, <1>6, Zenon DEF LeafAt

LEMMA LastLevel == Levels - 1 \in TlbLevels
BY TlbConstants DEF TlbLevels

\* A page that has a leaf has one at the same place in tables that are alike.
LEMMA LeafFound ==
    ASSUME NEW one \in TableSet, NEW two \in TableSet, AlikeTables(one, two),
           NEW root \in Nat, NEW vpn \in Nat, NEW l \in Tlb!LeafOf(one, root, vpn)
    PROVE  \E i \in TlbLevels, t \in Tables, d \in 0 .. Digits - 1 :
              /\ EndsAt(one, Levels - 1, root, vpn, i, t, d)
              /\ EndsAt(two, Levels - 1, root, vpn, i, t, d)
              /\ Tlb!IsLeaf(one[t][d]) /\ one[t][d].ppn % Digits ^ i = 0
              /\ l = <<TlbPlace(one[t][d], i, vpn), one[t][d]>>
<1>1. Tlb!Walk(one, root, vpn, "Load", Tlb!Any).kind = "ok"
  BY DEF Tlb!LeafOf
<1>2. Tlb!Any \in Tlb!Mode /\ "Load" \in Tlb!Type
  BY DEF Tlb!Any, Tlb!Mode, Tlb!Type
<1>3. WalkFrom(one, vpn, "Load", Tlb!Any)[<<Levels - 1, root>>].kind = "ok"
  BY <1>1, WalkIs
<1>4. BothEnd(one, two, Levels - 1, root, vpn)
  BY <1>2, <1>3, LastLevel, WalkEnds
<1>5. PICK i \in TlbLevels, t \in Tables, d \in 0 .. Digits - 1 :
         /\ EndsAt(one, Levels - 1, root, vpn, i, t, d)
         /\ EndsAt(two, Levels - 1, root, vpn, i, t, d)
         /\ Tlb!IsLeaf(one[t][d])
  BY <1>4 DEF BothEnd
<1>6. Tlb!LeafOf(one, root, vpn) = LeafAt(one, i, t, d, vpn)
  BY <1>5, LeafIs
<1>7. one[t][d].ppn % Digits ^ i = 0 /\ l = <<TlbPlace(one[t][d], i, vpn), one[t][d]>>
  BY <1>6, Zenon DEF LeafAt
<1> QED BY <1>5, <1>7, Zenon

LEMMA AlikeSelf == ASSUME NEW tab PROVE AlikeTables(tab, tab)
BY DEF AlikeTables, Alike

TouchSays(p, q, type) ==
    /\ q \in Tlb!Pte /\ q.v = p.v /\ q.perm = p.perm /\ q.rsv = p.rsv
    /\ q.ppn = p.ppn /\ q.a /\ (p.d => q.d)
    /\ p.a /\ (type = "Store" => p.d) => q = p

LEMMA TouchedIs ==
    ASSUME NEW p \in Tlb!Pte, NEW type
    PROVE  TouchSays(p, Tlb!Touched(p, type), type)
<1> DEFINE q == Tlb!Touched(p, type)
           x == p.d \/ type = "Store"
<1>1. q = [p EXCEPT !.a = TRUE, !.d = x]
  BY DEF Tlb!Touched
<1>2. x \in BOOLEAN
  OBVIOUS
<1> HIDE DEF x
<1>3. /\ p = [v |-> p.v, perm |-> p.perm, a |-> p.a, d |-> p.d, rsv |-> p.rsv, ppn |-> p.ppn]
      /\ p.v \in BOOLEAN /\ p.perm \in SUBSET Tlb!Perm /\ p.a \in BOOLEAN
      /\ p.d \in BOOLEAN /\ p.rsv \in BOOLEAN /\ p.ppn \in Nat
  BY DEF Tlb!Pte
<1>4. /\ q = [v |-> p.v, perm |-> p.perm, a |-> TRUE, d |-> x, rsv |-> p.rsv, ppn |-> p.ppn]
      /\ q.v = p.v /\ q.perm = p.perm /\ q.rsv = p.rsv /\ q.ppn = p.ppn
      /\ q.a = TRUE /\ q.d = x
  BY <1>1, <1>2, <1>3
<1>5. q \in Tlb!Pte
  BY <1>2, <1>3, <1>4 DEF Tlb!Pte
<1>6. p.d => x
  BY DEF x
<1>7. p.a /\ (type = "Store" => p.d) => p.a = TRUE /\ p.d = x
  BY <1>3, Zenon DEF x
<1>8. p.a = TRUE /\ p.d = x => q = p
  BY <1>3, <1>4, Zenon
<1> QED BY <1>4, <1>5, <1>6, <1>7, <1>8, Zenon DEF TouchSays

\* What the leaf of a page allows, with its A bit and for a store its D bit set,
\* the walk does, and to the same place.
LEMMA HitIsWalk ==
    ASSUME NEW tab \in TableSet, NEW root \in Nat, NEW vpn \in Nat,
           NEW type \in Tlb!Type, NEW m \in Tlb!Mode,
           NEW l \in Tlb!LeafOf(tab, root, vpn), l[2].a, type = "Store" => l[2].d,
           Tlb!PrivAllows(l[2].perm, type, m), Tlb!TypeAllows(l[2].perm, type, m)
    PROVE  /\ Tlb!Walk(tab, root, vpn, type, m).kind = "ok"
           /\ Tlb!Walk(tab, root, vpn, type, m).ppn = l[1]
<1>1. PICK i \in TlbLevels, t \in Tables, d \in 0 .. Digits - 1 :
         /\ EndsAt(tab, Levels - 1, root, vpn, i, t, d)
         /\ tab[t][d].ppn % Digits ^ i = 0
         /\ l = <<TlbPlace(tab[t][d], i, vpn), tab[t][d]>>
  BY AlikeSelf, LeafFound
<1> DEFINE p == tab[t][d]
           r == Tlb!LeafResult(p, <<t, d>>, i, vpn, type, m)
<1>2. Tlb!Walk(tab, root, vpn, type, m) = r
  BY <1>1, WalkIs DEF EndsAt
<1>3. LeafSays(r, p, <<t, d>>, i, vpn, type, m)
  BY LeafFields, Zenon
<1>4. p \in Tlb!Pte
  BY EntryIs
<1>5. TouchSays(p, Tlb!Touched(p, type), type)
  BY <1>4, TouchedIs
<1>6. l[1] = TlbPlace(p, i, vpn) /\ l[2] = p
  BY <1>1
<1> HIDE DEF r, p
<1>7. Tlb!Touched(p, type) = p
  BY <1>5, <1>6, Zenon DEF TouchSays
<1>8. p.ppn % Digits ^ i = 0
  BY <1>1 DEF p
<1> QED BY <1>2, <1>3, <1>6, <1>7, <1>8, Zenon DEF LeafSays

\* What a TLB entry needs of the leaf l of its page.
Backs(l, e) == l[1] = e.ppn /\ l[2].perm = e.perm /\ l[2].a /\ (e.dirty => l[2].d)
LeafGrows(l, k) ==
    l[1] = k[1] /\ l[2].perm = k[2].perm /\ (l[2].a => k[2].a) /\ (l[2].d => k[2].d)

LEMMA PlaceNat ==
    ASSUME NEW p \in Tlb!Pte, NEW i \in TlbLevels, NEW vpn \in Nat, p.ppn % Digits ^ i = 0
    PROVE  TlbPlace(p, i, vpn) \in Nat
<1>1. PICK h \in Nat \ {0} : h = Digits ^ i
  BY TlbConstants DEF TlbLevels
<1>2. vpn % h \in Nat /\ p.ppn \in Nat
  BY SplitOf DEF Tlb!Pte
<1> QED BY <1>1, <1>2 DEF TlbPlace

\* After an access that walked, its own page has the leaf the TLB got, and every
\* other page the leaf it had, with A and D bits perhaps set.
LEMMA AccessKeepsLeaves ==
    ASSUME NEW tab \in TableSet, NEW root \in Nat, NEW vpn \in Nat,
           NEW type \in Tlb!Type, NEW m \in Tlb!Mode, NEW r,
           r = Tlb!Walk(tab, root, vpn, type, m), r.kind = "ok",
           NEW two, two = [tab EXCEPT ![r.at[1]][r.at[2]] = r.new]
    PROVE  /\ two \in TableSet
           /\ r.ppn \in Nat /\ r.perm \in SUBSET Tlb!Perm /\ r.dirty \in BOOLEAN
           /\ \E l \in Tlb!LeafOf(two, root, vpn) : Backs(l, r)
           /\ \A v \in Nat : \A l \in Tlb!LeafOf(tab, root, v) :
                 \E k \in Tlb!LeafOf(two, root, v) : LeafGrows(l, k)
<1>1. WalkFrom(tab, vpn, type, m)[<<Levels - 1, root>>].kind = "ok"
  BY WalkIs
<1>2. BothEnd(tab, tab, Levels - 1, root, vpn)
  BY <1>1, AlikeSelf, LastLevel, WalkEnds
<1>3. PICK i \in TlbLevels, t \in Tables, d \in 0 .. Digits - 1 :
         EndsAt(tab, Levels - 1, root, vpn, i, t, d) /\ Tlb!IsLeaf(tab[t][d])
  BY <1>2 DEF BothEnd
<1> DEFINE p == tab[t][d]
           q == Tlb!Touched(p, type)
<1>4. r = Tlb!LeafResult(p, <<t, d>>, i, vpn, type, m)
  BY <1>3, WalkIs DEF EndsAt
<1>5. LeafSays(r, p, <<t, d>>, i, vpn, type, m)
  BY <1>4, LeafFields, Zenon
<1>6. p \in Tlb!Pte
  BY EntryIs
<1>7. TouchSays(p, q, type)
  BY <1>6, TouchedIs
<1>8. /\ p.ppn % Digits ^ i = 0 /\ r.ppn = TlbPlace(p, i, vpn) /\ r.perm = p.perm
      /\ r.dirty = p.d /\ r.at = <<t, d>> /\ r.new = q
  BY <1>5, Zenon DEF LeafSays
<1>9. r.at[1] = t /\ r.at[2] = d
  BY <1>8
<1> HIDE DEF q
<1>10. two = [tab EXCEPT ![t] = [tab[t] EXCEPT ![d] = q]]
  BY <1>8, <1>9
<1>11. two \in TableSet
  <2>1. q \in Tlb!Pte
    BY <1>7, Zenon DEF TouchSays
  <2>2. tab[t] \in [0 .. Digits - 1 -> Tlb!Pte]
    BY DEF TableSet
  <2>3. PICK row \in [0 .. Digits - 1 -> Tlb!Pte] : row = [tab[t] EXCEPT ![d] = q]
    BY <2>1, <2>2
  <2>4. two = [tab EXCEPT ![t] = row]
    BY <1>10, <2>3
  <2> QED BY <2>4 DEF TableSet
<1>12. /\ two[t][d] = q
       /\ \A s \in Tables, e \in 0 .. Digits - 1 : s # t \/ e # d => two[s][e] = tab[s][e]
  <2>1. tab[t] \in [0 .. Digits - 1 -> Tlb!Pte] /\ DOMAIN tab = Tables
    BY DEF TableSet
  <2>2. two[t] = [tab[t] EXCEPT ![d] = q] /\ \A s \in Tables : s # t => two[s] = tab[s]
    BY <1>10, <2>1
  <2>3. two[t][d] = q /\ \A e \in 0 .. Digits - 1 : e # d => two[t][e] = tab[t][e]
    BY <2>1, <2>2
  <2> QED BY <2>2, <2>3, Zenon
<1>13. Alike(p, q) /\ (p.a => q.a) /\ (p.d => q.d)
  BY <1>3, <1>7, Zenon DEF Alike, TouchSays
<1>14. \A s \in Tables, e \in 0 .. Digits - 1 :
          /\ Alike(tab[s][e], two[s][e])
          /\ (tab[s][e].a => two[s][e].a) /\ (tab[s][e].d => two[s][e].d)
  <2> SUFFICES ASSUME NEW s \in Tables, NEW e \in 0 .. Digits - 1
               PROVE  /\ Alike(tab[s][e], two[s][e])
                      /\ (tab[s][e].a => two[s][e].a) /\ (tab[s][e].d => two[s][e].d)
    BY Zenon
  <2>1. CASE s = t /\ e = d
    BY <1>12, <1>13, <2>1, Zenon
  <2>2. CASE s # t \/ e # d
    <3>1. two[s][e] = tab[s][e]
      BY <1>12, <2>2, Zenon
    <3> QED BY <3>1, Zenon DEF Alike
  <2> QED BY <2>1, <2>2
<1>15. AlikeTables(tab, two)
  BY <1>14, Zenon DEF AlikeTables
<1>16. ASSUME NEW v \in Nat, NEW l \in Tlb!LeafOf(tab, root, v)
       PROVE  \E k \in Tlb!LeafOf(two, root, v) : LeafGrows(l, k)
  <2>1. PICK j \in TlbLevels, s \in Tables, e \in 0 .. Digits - 1 :
           /\ EndsAt(two, Levels - 1, root, v, j, s, e)
           /\ Tlb!IsLeaf(tab[s][e]) /\ tab[s][e].ppn % Digits ^ j = 0
           /\ l = <<TlbPlace(tab[s][e], j, v), tab[s][e]>>
    BY <1>11, <1>15, LeafFound, SMTT(40)
  <2> DEFINE x == tab[s][e]
             y == two[s][e]
             k == <<TlbPlace(y, j, v), y>>
  <2>2. Alike(x, y) /\ (x.a => y.a) /\ (x.d => y.d)
    BY <1>14, Zenon
  <2>3. x \in Tlb!Pte /\ y \in Tlb!Pte
    BY <1>11, EntryIs
  <2>4. Tlb!IsLeaf(y)
    BY <2>1, <2>2, <2>3, AlikeEntries
  <2>5. y.ppn = x.ppn /\ y.perm = x.perm
    BY <2>2, Zenon DEF Alike
  <2>6. k \in Tlb!LeafOf(two, root, v)
    <3>1. Tlb!LeafOf(two, root, v) = LeafAt(two, j, s, e, v)
      BY ONLY <1>11, <2>1, <2>4, LeafIs, root \in Nat, v \in Nat, j \in TlbLevels,
              s \in Tables, e \in 0 .. Digits - 1
    <3>2. y.ppn % Digits ^ j = 0
      BY <2>1, <2>5
    <3> QED BY <3>1, <3>2, Zenon DEF LeafAt
  <2>7. l[1] = TlbPlace(x, j, v) /\ l[2] = x /\ k[1] = TlbPlace(y, j, v) /\ k[2] = y
    BY <2>1
  <2>8. TlbPlace(y, j, v) = TlbPlace(x, j, v)
    BY <2>5 DEF TlbPlace
  <2> HIDE DEF x, y, k
  <2>9. LeafGrows(l, k)
    BY <2>2, <2>5, <2>7, <2>8, Zenon DEF LeafGrows
  <2> QED BY <2>6, <2>9
<1>17. \E l \in Tlb!LeafOf(two, root, vpn) : Backs(l, r)
  <2>1. BothEnd(tab, two, Levels - 1, root, vpn)
    BY <1>1, <1>11, <1>15, LastLevel, WalkEnds
  <2>2. PICK j \in TlbLevels, s \in Tables, e \in 0 .. Digits - 1 :
           /\ EndsAt(tab, Levels - 1, root, vpn, j, s, e)
           /\ EndsAt(two, Levels - 1, root, vpn, j, s, e)
    BY <2>1 DEF BothEnd
  <2>3. r = Tlb!LeafResult(tab[s][e], <<s, e>>, j, vpn, type, m)
    BY <2>2, WalkIs DEF EndsAt
  <2>4. LeafSays(r, tab[s][e], <<s, e>>, j, vpn, type, m)
    BY <2>3, LeafFields, Zenon
  <2>5. r.at = <<s, e>> /\ r.ppn = TlbPlace(tab[s][e], j, vpn) /\ tab[s][e].ppn % Digits ^ j = 0
    BY <2>4, Zenon DEF LeafSays
  <2>6. s = t /\ e = d
    BY <1>8, <2>5
  <2>7. two[t][d] = q /\ q \in Tlb!Pte /\ q.ppn = p.ppn /\ q.perm = p.perm /\ q.a /\ (p.d => q.d)
    BY <1>7, <1>12, Zenon DEF TouchSays
  <2>8. Tlb!IsLeaf(q)
    BY <1>3, <2>7 DEF Tlb!IsLeaf
  <2>9. Tlb!LeafOf(two, root, vpn) =
           IF q.ppn % Digits ^ j = 0 THEN {<<TlbPlace(q, j, vpn), q>>} ELSE {}
    <3>1. EndsAt(two, Levels - 1, root, vpn, j, t, d) /\ Tlb!IsLeaf(two[t][d])
      BY <2>2, <2>6, <2>7, <2>8
    <3>2. Tlb!LeafOf(two, root, vpn) = LeafAt(two, j, t, d, vpn)
      BY ONLY <1>11, <3>1, LeafIs, root \in Nat, vpn \in Nat, j \in TlbLevels,
              t \in Tables, d \in 0 .. Digits - 1
    <3> QED BY <2>7, <3>2, Zenon DEF LeafAt
  <2>10. q.ppn % Digits ^ j = 0 /\ TlbPlace(q, j, vpn) = r.ppn
    BY <2>5, <2>6, <2>7 DEF TlbPlace
  <2> DEFINE l == <<TlbPlace(q, j, vpn), q>>
  <2>11. l \in Tlb!LeafOf(two, root, vpn)
    BY <2>9, <2>10, Zenon
  <2>12. l[1] = TlbPlace(q, j, vpn) /\ l[2] = q
    OBVIOUS
  <2> HIDE DEF l, p
  <2>13. Backs(l, r)
    BY <1>8, <2>7, <2>10, <2>12, Zenon DEF Backs
  <2> QED BY <2>11, <2>13
<1>18. r.ppn \in Nat /\ r.perm \in SUBSET Tlb!Perm /\ r.dirty \in BOOLEAN
  <2>1. r.ppn \in Nat
    BY <1>6, <1>8, PlaceNat
  <2>2. p.perm \in SUBSET Tlb!Perm /\ p.d \in BOOLEAN
    BY <1>6 DEF Tlb!Pte
  <2> HIDE DEF p
  <2> QED BY <1>8, <2>1, <2>2, Zenon
<1> QED BY <1>11, <1>16, <1>17, <1>18, Zenon

\* An entry of a page that needs no fence is backed by the leaf of that page.
Backed(tab, root, un, e) ==
    e.valid /\ e.vpn \notin un => \E l \in Tlb!LeafOf(tab, root, e.vpn) : Backs(l, e)
AllBacked(tab, root, un, tlb) == \A k \in Tlb!Idx : Backed(tab, root, un, tlb[k])

TlbInv ==
    /\ Tlb!TypeOK
    /\ AllBacked(tables, satp, unfenced, itlb) /\ AllBacked(tables, satp, unfenced, dtlb)

LEMMA InvalidIs ==
    /\ Tlb!Invalid \in Tlb!TlbEntry /\ Tlb!Flushed \in [Tlb!Idx -> Tlb!TlbEntry]
    /\ \A tab, root, un : /\ Backed(tab, root, un, Tlb!Invalid)
                          /\ AllBacked(tab, root, un, Tlb!Flushed)
<1>1. 0 \in Tlb!Vpn
  <2>1. PICK h \in Nat \ {0} : h = Digits ^ Levels
    BY TlbConstants
  <2> QED BY <2>1 DEF Tlb!Vpn
<1>2. Tlb!Invalid \in Tlb!TlbEntry
  BY <1>1 DEF Tlb!Invalid, Tlb!TlbEntry
<1>3. Tlb!Flushed \in [Tlb!Idx -> Tlb!TlbEntry]
  BY <1>2 DEF Tlb!Flushed
<1>4. Tlb!Invalid.valid = FALSE
  BY DEF Tlb!Invalid
<1>5. \A tab, root, un : Backed(tab, root, un, Tlb!Invalid)
  BY <1>4, Zenon DEF Backed
<1>6. \A k \in Tlb!Idx : Tlb!Flushed[k] = Tlb!Invalid
  BY DEF Tlb!Flushed
<1> QED BY <1>2, <1>3, <1>5, <1>6, Zenon DEF AllBacked

LEMMA VpnNat == Tlb!Vpn \subseteq Nat
<1>1. PICK h \in Nat \ {0} : h = Digits ^ Levels
  BY TlbConstants
<1> QED BY <1>1 DEF Tlb!Vpn

LEMMA IndexIs ==
    ASSUME NEW vpn \in Tlb!Vpn
    PROVE  vpn % TLB_ENTRIES \in Tlb!Idx
<1>1. vpn \in Nat
  BY VpnNat
<1> QED BY <1>1, SplitOf, TlbConstants DEF Tlb!Idx

LEMMA FilledIs ==
    ASSUME NEW vpn \in Tlb!Vpn, NEW r, r.ppn \in Nat, r.perm \in SUBSET Tlb!Perm,
           r.dirty \in BOOLEAN
    PROVE  /\ Tlb!Filled(r, vpn) \in Tlb!TlbEntry
           /\ Tlb!Filled(r, vpn).vpn = vpn
           /\ \A l : Backs(l, r) => Backs(l, Tlb!Filled(r, vpn))
<1> DEFINE f == Tlb!Filled(r, vpn)
<1>1. f = [valid |-> TRUE, vpn |-> vpn, ppn |-> r.ppn, perm |-> r.perm, dirty |-> r.dirty]
  BY DEF Tlb!Filled
<1>2. f.vpn = vpn /\ f.ppn = r.ppn /\ f.perm = r.perm /\ f.dirty = r.dirty
  BY <1>1
<1>3. f \in Tlb!TlbEntry
  BY <1>1 DEF Tlb!TlbEntry
<1> HIDE DEF f
<1>4. \A l : Backs(l, r) => Backs(l, f)
  BY <1>2, Zenon DEF Backs
<1> QED BY <1>2, <1>3, <1>4 DEF f

LEMMA TlbAccess ==
    ASSUME TlbInv, NEW vpn \in Tlb!Vpn, NEW type \in Tlb!Type, NEW m \in Modes,
           Tlb!Access(vpn, type, m)
    PROVE  TlbInv'
<1> DEFINE k == vpn % TLB_ENTRIES
           r == Tlb!Walk(tables, satp, vpn, type, m)
           f == Tlb!Filled(r, vpn)
<1>1. /\ tables \in TableSet /\ satp \in Tables /\ satp \in Nat /\ unfenced \subseteq Tlb!Vpn
      /\ itlb \in [Tlb!Idx -> Tlb!TlbEntry] /\ dtlb \in [Tlb!Idx -> Tlb!TlbEntry]
  BY TlbConstants DEF TlbInv, Tlb!TypeOK, TableSet
<1>2. /\ r.kind = "ok"
      /\ tables' = [tables EXCEPT ![r.at[1]][r.at[2]] = r.new]
      /\ satp' = satp /\ unfenced' = unfenced
      /\ \/ itlb' = [itlb EXCEPT ![k] = f] /\ dtlb' = dtlb
         \/ dtlb' = [dtlb EXCEPT ![k] = f] /\ itlb' = itlb
  BY DEF Tlb!Access
<1>3. k \in Tlb!Idx /\ vpn \in Nat /\ m \in Tlb!Mode
  BY IndexIs, VpnNat, TlbConstants
<1>4. /\ tables' \in TableSet
      /\ r.ppn \in Nat /\ r.perm \in SUBSET Tlb!Perm /\ r.dirty \in BOOLEAN
      /\ \E l \in Tlb!LeafOf(tables', satp, vpn) : Backs(l, r)
      /\ \A v \in Nat : \A l \in Tlb!LeafOf(tables, satp, v) :
            \E h \in Tlb!LeafOf(tables', satp, v) : LeafGrows(l, h)
  <2>1. PICK x : x = r
    OBVIOUS
  <2>2. PICK two : two = tables'
    OBVIOUS
  <2>3. PICK one \in TableSet : one = tables
    BY <1>1
  <2>4. PICK root \in Nat : root = satp
    BY <1>1
  <2>5. /\ x = Tlb!Walk(one, root, vpn, type, m) /\ x.kind = "ok"
        /\ two = [one EXCEPT ![x.at[1]][x.at[2]] = x.new]
    BY <1>2, <2>1, <2>2, <2>3, <2>4, Zenon
  <2>6. /\ two \in TableSet
        /\ x.ppn \in Nat /\ x.perm \in SUBSET Tlb!Perm /\ x.dirty \in BOOLEAN
        /\ \E l \in Tlb!LeafOf(two, root, vpn) : Backs(l, x)
        /\ \A v \in Nat : \A l \in Tlb!LeafOf(one, root, v) :
              \E h \in Tlb!LeafOf(two, root, v) : LeafGrows(l, h)
    BY ONLY <2>5, <1>3, AccessKeepsLeaves, vpn \in Nat, type \in Tlb!Type, m \in Tlb!Mode,
            one \in TableSet, root \in Nat, ZenonT(60)
  <2> HIDE DEF r
  <2> QED BY <2>1, <2>2, <2>3, <2>4, <2>6, Zenon
<1> HIDE DEF r, k
<1>5. ASSUME NEW e \in Tlb!TlbEntry, Backed(tables, satp, unfenced, e)
      PROVE  Backed(tables', satp, unfenced, e)
  <2> SUFFICES ASSUME e.valid, e.vpn \notin unfenced
               PROVE  \E h \in Tlb!LeafOf(tables', satp, e.vpn) : Backs(h, e)
    BY Zenon DEF Backed
  <2>1. e.vpn \in Nat
    BY VpnNat DEF Tlb!TlbEntry
  <2>2. PICK l \in Tlb!LeafOf(tables, satp, e.vpn) : Backs(l, e)
    BY <1>5, Zenon DEF Backed
  <2>3. PICK h \in Tlb!LeafOf(tables', satp, e.vpn) : LeafGrows(l, h)
    BY <1>4, <2>1, Zenon
  <2>4. Backs(h, e)
    BY <2>2, <2>3, Zenon DEF Backs, LeafGrows
  <2> QED BY <2>4
<1>6. f \in Tlb!TlbEntry /\ Backed(tables', satp, unfenced, f)
  BY <1>4, FilledIs, Zenon DEF Backed
<1>7. ASSUME NEW tlb \in [Tlb!Idx -> Tlb!TlbEntry], AllBacked(tables, satp, unfenced, tlb)
      PROVE  /\ AllBacked(tables', satp, unfenced, tlb)
             /\ [tlb EXCEPT ![k] = f] \in [Tlb!Idx -> Tlb!TlbEntry]
             /\ AllBacked(tables', satp, unfenced, [tlb EXCEPT ![k] = f])
  <2> HIDE DEF f
  <2>1. \A j \in Tlb!Idx : tlb[j] \in Tlb!TlbEntry
    OBVIOUS
  <2>2. AllBacked(tables', satp, unfenced, tlb)
    BY <1>5, <1>7, <2>1, Zenon DEF AllBacked
  <2>3. [tlb EXCEPT ![k] = f] \in [Tlb!Idx -> Tlb!TlbEntry]
    BY <1>6
  <2>4. \A j \in Tlb!Idx : [tlb EXCEPT ![k] = f][j] = IF j = k THEN f ELSE tlb[j]
    BY <1>3
  <2>5. AllBacked(tables', satp, unfenced, [tlb EXCEPT ![k] = f])
    BY <1>6, <2>2, <2>4, Zenon DEF AllBacked
  <2> QED BY <2>2, <2>3, <2>5
<1> HIDE DEF f
<1>8. AllBacked(tables, satp, unfenced, itlb) /\ AllBacked(tables, satp, unfenced, dtlb)
  BY DEF TlbInv
<1>9. /\ itlb' \in [Tlb!Idx -> Tlb!TlbEntry] /\ dtlb' \in [Tlb!Idx -> Tlb!TlbEntry]
      /\ AllBacked(tables', satp, unfenced, itlb') /\ AllBacked(tables', satp, unfenced, dtlb')
  BY <1>1, <1>2, <1>7, <1>8, Zenon
<1> QED BY <1>1, <1>2, <1>4, <1>9 DEF TlbInv, Tlb!TypeOK, TableSet

LEMMA TlbStore ==
    ASSUME TlbInv, NEW slot \in Slots, NEW p \in Entries, Tlb!StorePte(slot, p)
    PROVE  TlbInv'
<1>1. /\ tables \in TableSet /\ satp \in Tables /\ unfenced \subseteq Tlb!Vpn
      /\ itlb \in [Tlb!Idx -> Tlb!TlbEntry] /\ dtlb \in [Tlb!Idx -> Tlb!TlbEntry]
  BY DEF TlbInv, Tlb!TypeOK, TableSet
<1>2. /\ tables' = [tables EXCEPT ![slot[1]][slot[2]] = p]
      /\ unfenced' = unfenced \cup
            {vpn \in Tlb!Vpn : /\ Tlb!LeafOf(tables, satp, vpn) # {}
                               /\ Tlb!LeafOf(tables', satp, vpn) # Tlb!LeafOf(tables, satp, vpn)}
      /\ satp' = satp /\ itlb' = itlb /\ dtlb' = dtlb
  BY DEF Tlb!StorePte
<1>3. tables' \in TableSet
  <2>1. slot \in Tables \X (0 .. Digits - 1) /\ p \in Tlb!Pte
    BY TlbConstants
  <2>2. PICK t \in Tables, d \in 0 .. Digits - 1 : slot[1] = t /\ slot[2] = d
    BY <2>1
  <2>3. tables[t] \in [0 .. Digits - 1 -> Tlb!Pte]
    BY <1>1 DEF TableSet
  <2>4. PICK row \in [0 .. Digits - 1 -> Tlb!Pte] : row = [tables[t] EXCEPT ![d] = p]
    BY <2>1, <2>3
  <2>5. tables' = [tables EXCEPT ![t] = row]
    BY <1>2, <2>2, <2>4
  <2> QED BY <1>1, <2>5 DEF TableSet
<1>4. ASSUME NEW e \in Tlb!TlbEntry, Backed(tables, satp, unfenced, e)
      PROVE  Backed(tables', satp, unfenced', e)
  <2> SUFFICES ASSUME e.valid, e.vpn \notin unfenced'
               PROVE  \E l \in Tlb!LeafOf(tables', satp, e.vpn) : Backs(l, e)
    BY Zenon DEF Backed
  <2>1. e.vpn \in Tlb!Vpn /\ e.vpn \notin unfenced
    BY <1>2 DEF Tlb!TlbEntry
  <2>2. PICK l \in Tlb!LeafOf(tables, satp, e.vpn) : Backs(l, e)
    BY <1>4, <2>1, Zenon DEF Backed
  <2>3. Tlb!LeafOf(tables', satp, e.vpn) = Tlb!LeafOf(tables, satp, e.vpn)
    BY <1>2, <2>1, <2>2, Zenon
  <2> QED BY <2>2, <2>3
<1>5. unfenced' \subseteq Tlb!Vpn
  BY <1>1, <1>2
<1>6. /\ AllBacked(tables', satp, unfenced', itlb) /\ AllBacked(tables', satp, unfenced', dtlb)
  <2>1. \A k \in Tlb!Idx : itlb[k] \in Tlb!TlbEntry /\ dtlb[k] \in Tlb!TlbEntry
    BY <1>1
  <2> QED BY <1>4, <2>1, Zenon DEF TlbInv, AllBacked
<1> QED BY <1>1, <1>2, <1>3, <1>5, <1>6 DEF TlbInv, Tlb!TypeOK, TableSet

LEMMA TlbFlush ==
    ASSUME TlbInv, NEW vpn \in Tlb!Vpn, Tlb!FlushPage(vpn)
    PROVE  TlbInv'
<1> DEFINE After(tlb) == [k \in Tlb!Idx |-> IF tlb[k].vpn = vpn THEN Tlb!Invalid ELSE tlb[k]]
<1>1. /\ tables \in TableSet /\ satp \in Tables /\ unfenced \subseteq Tlb!Vpn
      /\ itlb \in [Tlb!Idx -> Tlb!TlbEntry] /\ dtlb \in [Tlb!Idx -> Tlb!TlbEntry]
      /\ AllBacked(tables, satp, unfenced, itlb) /\ AllBacked(tables, satp, unfenced, dtlb)
  BY DEF TlbInv, Tlb!TypeOK, TableSet
<1>2. /\ dtlb' = After(dtlb) /\ itlb' = After(itlb)
      /\ unfenced' = unfenced \ {vpn} /\ tables' = tables /\ satp' = satp
  BY DEF Tlb!FlushPage
<1>3. ASSUME NEW tlb \in [Tlb!Idx -> Tlb!TlbEntry], AllBacked(tables, satp, unfenced, tlb)
      PROVE  /\ After(tlb) \in [Tlb!Idx -> Tlb!TlbEntry]
             /\ AllBacked(tables, satp, unfenced \ {vpn}, After(tlb))
  <2>1. After(tlb) \in [Tlb!Idx -> Tlb!TlbEntry]
    BY InvalidIs
  <2>2. ASSUME NEW k \in Tlb!Idx PROVE Backed(tables, satp, unfenced \ {vpn}, After(tlb)[k])
    <3>1. CASE tlb[k].vpn = vpn
      <4>1. After(tlb)[k] = Tlb!Invalid
        BY <3>1
      <4> HIDE DEF After
      <4> QED BY <4>1, InvalidIs, Zenon
    <3>2. CASE tlb[k].vpn # vpn
      <4>1. After(tlb)[k] = tlb[k]
        BY <3>2
      <4>2. Backed(tables, satp, unfenced, tlb[k])
        BY <1>3 DEF AllBacked
      <4>3. Backed(tables, satp, unfenced \ {vpn}, tlb[k])
        BY <3>2, <4>2, Zenon DEF Backed
      <4> HIDE DEF After
      <4> QED BY <4>1, <4>3, Zenon
    <3> QED BY <3>1, <3>2
  <2> HIDE DEF After
  <2> QED BY <2>1, <2>2 DEF AllBacked
<1> HIDE DEF After
<1>4. unfenced' \subseteq Tlb!Vpn
  BY <1>1, <1>2
<1>5. /\ itlb' \in [Tlb!Idx -> Tlb!TlbEntry] /\ dtlb' \in [Tlb!Idx -> Tlb!TlbEntry]
      /\ AllBacked(tables', satp', unfenced', itlb') /\ AllBacked(tables', satp', unfenced', dtlb')
  BY <1>1, <1>2, <1>3, Zenon
<1> QED BY <1>1, <1>2, <1>4, <1>5 DEF TlbInv, Tlb!TypeOK, TableSet

LEMMA TlbStep == ASSUME TlbInv, Tlb!Next PROVE TlbInv'
<1>1. ASSUME itlb' = Tlb!Flushed, dtlb' = Tlb!Flushed, unfenced' = {}, tables' = tables,
             satp' \in Tables
      PROVE  TlbInv'
  <2>1. tables \in TableSet
    BY DEF TlbInv, Tlb!TypeOK, TableSet
  <2>2. /\ itlb' \in [Tlb!Idx -> Tlb!TlbEntry] /\ dtlb' \in [Tlb!Idx -> Tlb!TlbEntry]
        /\ AllBacked(tables', satp', unfenced', itlb') /\ AllBacked(tables', satp', unfenced', dtlb')
    BY <1>1, InvalidIs, Zenon
  <2> QED BY <1>1, <2>1, <2>2 DEF TlbInv, Tlb!TypeOK, TableSet
<1>2. CASE Tlb!FlushAll
  BY <1>1, <1>2 DEF Tlb!FlushAll, TlbInv, Tlb!TypeOK
<1>3. ASSUME NEW root \in Satps, Tlb!WriteSatp(root) PROVE TlbInv'
  <2>1. CASE root # satp
    BY <1>1, <1>3, <2>1, TlbConstants DEF Tlb!WriteSatp
  <2>2. CASE root = satp
    BY <1>3, <2>2 DEF Tlb!WriteSatp, TlbInv, Tlb!TypeOK
  <2> QED BY <2>1, <2>2
<1> QED BY <1>2, <1>3, TlbAccess, TlbStore, TlbFlush DEF Tlb!Next

LEMMA TlbMeans == TlbInv => Tlb!TypeOK /\ Tlb!TranslationIsWalk /\ Tlb!NoSilentStore
<1> SUFFICES ASSUME TlbInv PROVE Tlb!TranslationIsWalk /\ Tlb!NoSilentStore
  BY DEF TlbInv
<1>1. /\ tables \in TableSet /\ satp \in Nat
  BY TlbConstants DEF TlbInv, Tlb!TypeOK, TableSet
<1>2. ASSUME NEW vpn \in Tlb!Vpn \ unfenced, NEW type \in Tlb!Type, NEW m \in Modes,
             NEW e, e = Tlb!Tlb(type)[vpn % TLB_ENTRIES], Tlb!Hits(e, vpn, type, m)
      PROVE  \E l \in Tlb!LeafOf(tables, satp, vpn) :
                /\ Backs(l, e) /\ (type = "Store" => l[2].d)
                /\ Tlb!PrivAllows(l[2].perm, type, m) /\ Tlb!TypeAllows(l[2].perm, type, m)
  <2>1. Backed(tables, satp, unfenced, e)
    BY <1>2, IndexIs, Zenon DEF TlbInv, AllBacked, Tlb!Tlb
  <2>2. /\ e.valid /\ e.vpn = vpn /\ Tlb!PrivAllows(e.perm, type, m)
        /\ Tlb!TypeAllows(e.perm, type, m) /\ (type = "Store" => e.dirty)
    BY <1>2, Zenon DEF Tlb!Hits
  <2>3. PICK l \in Tlb!LeafOf(tables, satp, vpn) : Backs(l, e)
    BY <2>1, <2>2, Zenon DEF Backed
  <2> QED BY <2>2, <2>3, Zenon DEF Backs
<1>3. ASSUME NEW vpn \in Tlb!Vpn \ unfenced, NEW type \in Tlb!Type, NEW m \in Modes,
             NEW e, e = Tlb!Tlb(type)[vpn % TLB_ENTRIES], Tlb!Hits(e, vpn, type, m)
      PROVE  /\ Tlb!Walk(tables, satp, vpn, type, m).kind = "ok"
             /\ Tlb!Walk(tables, satp, vpn, type, m).ppn = e.ppn
  <2>1. PICK l \in Tlb!LeafOf(tables, satp, vpn) :
           /\ Backs(l, e) /\ (type = "Store" => l[2].d)
           /\ Tlb!PrivAllows(l[2].perm, type, m) /\ Tlb!TypeAllows(l[2].perm, type, m)
    BY <1>2, <1>3
  <2>2. l[1] = e.ppn /\ l[2].a
    BY <2>1, Zenon DEF Backs
  <2>3. vpn \in Nat /\ m \in Tlb!Mode
    BY VpnNat, TlbConstants
  <2>4. /\ Tlb!Walk(tables, satp, vpn, type, m).kind = "ok"
        /\ Tlb!Walk(tables, satp, vpn, type, m).ppn = l[1]
    BY <1>1, <2>1, <2>2, <2>3, HitIsWalk, Zenon
  <2> QED BY <2>2, <2>4, Zenon
<1>4. Tlb!TranslationIsWalk
  <2> SUFFICES ASSUME NEW vpn \in Tlb!Vpn \ unfenced, NEW type \in Tlb!Type, NEW m \in Modes,
                      Tlb!Hits(Tlb!Tlb(type)[vpn % TLB_ENTRIES], vpn, type, m)
               PROVE  /\ Tlb!Walk(tables, satp, vpn, type, m).kind = "ok"
                      /\ Tlb!Walk(tables, satp, vpn, type, m).ppn
                            = Tlb!Tlb(type)[vpn % TLB_ENTRIES].ppn
    BY Zenon DEF Tlb!TranslationIsWalk
  <2>1. PICK e : e = Tlb!Tlb(type)[vpn % TLB_ENTRIES]
    OBVIOUS
  <2>2. Tlb!Hits(e, vpn, type, m)
    BY <2>1, Zenon
  <2>3. /\ Tlb!Walk(tables, satp, vpn, type, m).kind = "ok"
        /\ Tlb!Walk(tables, satp, vpn, type, m).ppn = e.ppn
    BY <1>3, <2>1, <2>2
  <2> QED BY <2>1, <2>3, Zenon
<1>5. Tlb!NoSilentStore
  <2> SUFFICES ASSUME NEW vpn \in Tlb!Vpn \ unfenced, NEW m \in Modes,
                      Tlb!Hits(dtlb[vpn % TLB_ENTRIES], vpn, "Store", m)
               PROVE  \E l \in Tlb!LeafOf(tables, satp, vpn) : l[2].a /\ l[2].d
    BY Zenon DEF Tlb!NoSilentStore
  <2>1. "Store" \in Tlb!Type /\ Tlb!Tlb("Store") = dtlb
    BY DEF Tlb!Type, Tlb!Tlb
  <2>2. PICK e : e = Tlb!Tlb("Store")[vpn % TLB_ENTRIES]
    OBVIOUS
  <2>3. Tlb!Hits(e, vpn, "Store", m)
    BY <2>1, <2>2, Zenon
  <2> QED BY <1>2, <2>1, <2>2, <2>3, Zenon DEF Backs
<1> QED BY <1>4, <1>5

\* Whatever the TLBs hold, and however privilege and settings changed since, an
\* access to a page that needs no fence is translated as the tables say, and a
\* store goes through only if its page is marked dirty in memory; for every
\* number of levels, tables and TLB entries.
THEOREM TlbsHold == Spec => []TranslationIsWalk
<1> DEFINE Inv == part = "mmu" => TlbInv
<1>1. Init => Inv
  <2> SUFFICES ASSUME Tlb!Init PROVE TlbInv
    BY DEF Init
  <2> DEFINE none == [v |-> FALSE, perm |-> {}, a |-> FALSE, d |-> FALSE, rsv |-> FALSE, ppn |-> 0]
  <2>1. tables \in [Tables -> [0 .. Digits - 1 -> {none}]] /\ satp \in Satps
        /\ itlb = Tlb!Flushed /\ dtlb = Tlb!Flushed /\ unfenced = {}
    BY DEF Tlb!Init
  <2>2. none \in Tlb!Pte
    BY DEF Tlb!Pte
  <2> HIDE DEF none
  <2>3. tables \in TableSet
    BY <2>1, <2>2 DEF TableSet
  <2>4. satp \in Tables
    BY <2>1, TlbConstants
  <2>5. /\ itlb \in [Tlb!Idx -> Tlb!TlbEntry] /\ dtlb \in [Tlb!Idx -> Tlb!TlbEntry]
        /\ AllBacked(tables, satp, unfenced, itlb) /\ AllBacked(tables, satp, unfenced, dtlb)
    BY <2>1, InvalidIs, Zenon
  <2> QED BY <2>1, <2>3, <2>4, <2>5 DEF TlbInv, Tlb!TypeOK, TableSet
<1>2. Inv /\ [Next]_vars => Inv'
  <2> SUFFICES ASSUME Inv, [Next]_vars PROVE Inv'
    OBVIOUS
  <2>1. CASE UNCHANGED mmuVars /\ UNCHANGED part
    BY <2>1 DEF mmuVars, TlbInv, Tlb!TypeOK
  <2>2. CASE part = "mmu" /\ UNCHANGED part /\ Tlb!Next
    BY <2>2, TlbStep
  <2> QED BY <2>1, <2>2 DEF Next, vars
<1>3. Inv => TranslationIsWalk
  BY TlbMeans DEF TranslationIsWalk
<1> QED BY <1>1, <1>2, <1>3, PTL DEF Spec

-----------------------------------------------------------------------------
(* What the walk grants.                                                   *)

\* The table that a walk from root reaches at level i, and the entry it reads.
ReachesAt(tab, root, vpn, i, t) == Tlb!Reaches(tab, root, vpn, t, i)
ReadAt(tab, vpn, i, t) == tab[t][Tlb!Digit(vpn, i)]

LEMMA ReachesRoot ==
    ASSUME NEW tab \in TableSet, NEW root \in Tables, NEW vpn \in Nat
    PROVE  ReachesAt(tab, root, vpn, Levels - 1, root)
<1>1. Levels \in Nat \ {0}
  BY TlbConstants
<1> DEFINE c == [j \in Levels - 1 .. Levels - 1 |-> root]
<1>2. c \in [Levels - 1 .. Levels - 1 -> Tables] /\ c[Levels - 1] = root
  BY <1>1
<1>3. \A j \in (Levels - 1) + 1 .. Levels - 1 :
         tab[c[j]][Tlb!Digit(vpn, j)] = Tlb!Inner(c[j - 1])
  BY <1>1
<1> HIDE DEF c
<1> QED BY <1>2, <1>3, Zenon DEF ReachesAt, Tlb!Reaches

LEMMA ReachesNext ==
    ASSUME NEW tab \in TableSet, NEW root \in Nat, NEW vpn \in Nat,
           NEW i \in TlbLevels \ {0}, NEW t \in Tables, NEW x \in Tables,
           ReachesAt(tab, root, vpn, i, t), ReadAt(tab, vpn, i, t) = Tlb!Inner(x)
    PROVE  ReachesAt(tab, root, vpn, i - 1, x)
<1>1. Levels \in Nat \ {0} /\ i \in 1 .. Levels - 1
  BY TlbConstants DEF TlbLevels
<1>2. PICK c \in [i .. Levels - 1 -> Tables] :
         /\ c[Levels - 1] = root /\ c[i] = t
         /\ \A j \in i + 1 .. Levels - 1 :
               tab[c[j]][Tlb!Digit(vpn, j)] = Tlb!Inner(c[j - 1])
  BY Zenon DEF ReachesAt, Tlb!Reaches
<1> DEFINE e == [j \in i - 1 .. Levels - 1 |-> IF j = i - 1 THEN x ELSE c[j]]
<1>3. e \in [i - 1 .. Levels - 1 -> Tables]
  <2>1. \A j \in i - 1 .. Levels - 1 : j # i - 1 => j \in i .. Levels - 1
    BY <1>1
  <2> QED BY <1>2, <2>1
<1>4. e[i - 1] = x /\ \A j \in i .. Levels - 1 : e[j] = c[j]
  <2>1. i - 1 \in i - 1 .. Levels - 1
    BY <1>1
  <2>2. \A j \in i .. Levels - 1 : j \in i - 1 .. Levels - 1 /\ j # i - 1
    BY <1>1
  <2> QED BY <2>1, <2>2, Zenon
<1> HIDE DEF e
<1>5. e[Levels - 1] = root /\ e[i] = t
  BY <1>1, <1>2, <1>4
<1>6. ASSUME NEW j \in (i - 1) + 1 .. Levels - 1
      PROVE  tab[e[j]][Tlb!Digit(vpn, j)] = Tlb!Inner(e[j - 1])
  <2>1. CASE j = i
    BY <1>4, <1>5, <2>1, Zenon DEF ReadAt
  <2>2. CASE j # i
    <3>1. j \in i + 1 .. Levels - 1 /\ j \in i .. Levels - 1 /\ j - 1 \in i .. Levels - 1
      BY <1>1, <2>2
    <3>2. e[j] = c[j] /\ e[j - 1] = c[j - 1]
      BY <1>4, <3>1
    <3> QED BY <1>2, <3>1, <3>2, Zenon
  <2> QED BY <2>1, <2>2
<1> QED BY <1>3, <1>4, <1>5, <1>6, Zenon DEF ReachesAt, Tlb!Reaches

LEMMA ReachesFrom ==
    ASSUME NEW tab \in TableSet, NEW root \in Nat, NEW vpn \in Nat,
           NEW i \in TlbLevels, NEW t \in Tables, i # Levels - 1,
           ReachesAt(tab, root, vpn, i, t)
    PROVE  \E x \in Tables : /\ ReachesAt(tab, root, vpn, i + 1, x)
                             /\ ReadAt(tab, vpn, i + 1, x) = Tlb!Inner(t)
<1>1. Levels \in Nat \ {0} /\ i \in 0 .. Levels - 2
  BY TlbConstants DEF TlbLevels
<1>2. PICK c \in [i .. Levels - 1 -> Tables] :
         /\ c[Levels - 1] = root /\ c[i] = t
         /\ \A j \in i + 1 .. Levels - 1 :
               tab[c[j]][Tlb!Digit(vpn, j)] = Tlb!Inner(c[j - 1])
  BY Zenon DEF ReachesAt, Tlb!Reaches
<1> DEFINE e == [j \in i + 1 .. Levels - 1 |-> c[j]]
<1>3. e \in [i + 1 .. Levels - 1 -> Tables]
  BY <1>1, <1>2
<1>4. \A j \in i + 1 .. Levels - 1 : e[j] = c[j]
  OBVIOUS
<1> HIDE DEF e
<1>5. e[Levels - 1] = root /\ e[i + 1] = c[i + 1] /\ c[i + 1] \in Tables
  BY <1>1, <1>2, <1>4
<1>6. ASSUME NEW j \in (i + 1) + 1 .. Levels - 1
      PROVE  tab[e[j]][Tlb!Digit(vpn, j)] = Tlb!Inner(e[j - 1])
  <2>1. j \in i + 1 .. Levels - 1 /\ j - 1 \in i + 1 .. Levels - 1
    BY <1>1
  <2>2. e[j] = c[j] /\ e[j - 1] = c[j - 1]
    BY <1>4, <2>1
  <2> QED BY <1>2, <2>1, <2>2, Zenon
<1>7. ReachesAt(tab, root, vpn, i + 1, c[i + 1])
  BY <1>3, <1>5, <1>6, Zenon DEF ReachesAt, Tlb!Reaches
<1>8. tab[c[i + 1]][Tlb!Digit(vpn, i + 1)] = Tlb!Inner(t)
  <2>1. i + 1 \in i + 1 .. Levels - 1 /\ (i + 1) - 1 = i
    BY <1>1
  <2> QED BY <1>2, <2>1, Zenon
<1> QED BY <1>5, <1>7, <1>8, Zenon DEF ReadAt
\* Entries that lead on: well-formed, and not a leaf.
LEMMA InnerIs ==
    ASSUME NEW p \in Tlb!Pte
    PROVE  ~Tlb!Malformed(p) /\ ~Tlb!IsLeaf(p) <=> p = Tlb!Inner(p.ppn)
<1>1. /\ p = [v |-> p.v, perm |-> p.perm, a |-> p.a, d |-> p.d, rsv |-> p.rsv, ppn |-> p.ppn]
      /\ p.v \in BOOLEAN /\ p.perm \in SUBSET Tlb!Perm /\ p.a \in BOOLEAN
      /\ p.d \in BOOLEAN /\ p.rsv \in BOOLEAN
  BY DEF Tlb!Pte
<1>2. ASSUME ~Tlb!Malformed(p), ~Tlb!IsLeaf(p) PROVE p = Tlb!Inner(p.ppn)
  <2>1. p.v /\ ~p.rsv /\ ~p.d /\ ~p.a
    BY <1>2, Zenon DEF Tlb!Malformed
  <2>2. "U" \notin p.perm /\ "R" \notin p.perm /\ "X" \notin p.perm /\ "W" \notin p.perm
    BY <1>2 DEF Tlb!Malformed, Tlb!IsLeaf
  <2>3. p.perm = {}
    BY <1>1, <2>2 DEF Tlb!Perm
  <2>4. p.v = TRUE /\ p.rsv = FALSE /\ p.d = FALSE /\ p.a = FALSE
    BY <1>1, <2>1, Zenon
  <2> QED BY <1>1, <2>3, <2>4, Zenon DEF Tlb!Inner
<1>3. ASSUME NEW x, p = Tlb!Inner(x) PROVE ~Tlb!Malformed(p) /\ ~Tlb!IsLeaf(p)
  <2>1. p.v = TRUE /\ p.rsv = FALSE /\ p.d = FALSE /\ p.a = FALSE /\ p.perm = {}
    BY <1>3 DEF Tlb!Inner
  <2> QED BY <2>1 DEF Tlb!Malformed, Tlb!IsLeaf
<1> QED BY <1>2, <1>3, Zenon

\* The walk goes through whatever the tables reach.
LEMMA WalkGoesThrough ==
    ASSUME NEW tab \in TableSet, NEW root \in Nat, NEW vpn \in Nat, NEW type, NEW m,
           NEW i0 \in TlbLevels, NEW t0 \in Tables, ReachesAt(tab, root, vpn, i0, t0)
    PROVE  Tlb!Walk(tab, root, vpn, type, m) = WalkFrom(tab, vpn, type, m)[<<i0, t0>>]
<1> DEFINE w == WalkFrom(tab, vpn, type, m)
           Good(i, t) == ReachesAt(tab, root, vpn, i, t)
                         => Tlb!Walk(tab, root, vpn, type, m) = w[<<i, t>>]
           Bad == {i \in TlbLevels : \E t \in Tables : ~Good(i, t)}
<1>0. Levels \in Nat \ {0} /\ Tables \subseteq Nat
  BY TlbConstants
<1>1. ASSUME NEW i \in TlbLevels, NEW t \in Tables, ReachesAt(tab, root, vpn, i, t),
             i # Levels - 1 => \A x \in Tables : Good(i + 1, x)
      PROVE  Tlb!Walk(tab, root, vpn, type, m) = w[<<i, t>>]
  <2>1. CASE i = Levels - 1
    <3>1. t = root
      BY <1>1, <2>1, Zenon DEF ReachesAt, Tlb!Reaches
    <3> QED BY <2>1, <3>1, WalkIs, Zenon
  <2>2. CASE i # Levels - 1
    <3>1. PICK x \in Tables : /\ ReachesAt(tab, root, vpn, i + 1, x)
                              /\ ReadAt(tab, vpn, i + 1, x) = Tlb!Inner(t)
      BY <1>1, <2>2, ReachesFrom
    <3>2. Tlb!Walk(tab, root, vpn, type, m) = w[<<i + 1, x>>]
      BY <1>1, <2>2, <3>1
    <3> HIDE DEF w
    <3>3. i + 1 \in TlbLevels /\ i + 1 # 0 /\ (i + 1) - 1 = i /\ x \in Nat
      BY <1>0, <2>2 DEF TlbLevels
    <3> DEFINE k == i + 1
    <3>4. w[<<k, x>>] = WalkBody(tab, vpn, type, m, w, <<k, x>>)
      BY <3>3, WalkStep DEF w
    <3>5. ReadAt(tab, vpn, k, x) \in Tlb!Pte
      BY <3>3, DigitIs, EntryIs DEF ReadAt
    <3>6. /\ ~Tlb!Malformed(ReadAt(tab, vpn, k, x)) /\ ~Tlb!IsLeaf(ReadAt(tab, vpn, k, x))
          /\ ReadAt(tab, vpn, k, x).ppn = t
      <4>1. Tlb!Inner(t).ppn = t
        BY DEF Tlb!Inner
      <4> QED BY <3>1, <3>5, <4>1, InnerIs
    <3>7. <<k, x>>[1] = k /\ <<k, x>>[2] = x
      OBVIOUS
    <3>8. k # 0 /\ k - 1 = i
      BY <3>3
    <3> HIDE DEF k
    <3>9. w[<<k, x>>] = w[<<k - 1, t>>]
      BY <3>4, <3>6, <3>7, <3>8, Zenon DEF WalkBody, ReadAt
    <3> QED BY <3>2, <3>8, <3>9, Zenon DEF k
  <2> QED BY <2>1, <2>2
<1>2. Bad = {}
  <2> SUFFICES ASSUME Bad # {} PROVE FALSE
    OBVIOUS
  <2> HIDE DEF Good
  <2>1. Bad \in SUBSET (0 .. Levels - 1) /\ Levels - 1 \in Nat
    BY <1>0 DEF TlbLevels
  <2>2. PICK i \in Bad : \A k \in Bad : k <= i
    BY <2>1, BoundedSetHasMax
  <2>3. PICK t \in Tables : ~Good(i, t)
    BY <2>2
  <2>4. i \in TlbLevels
    BY <2>2
  <2>5. ASSUME i # Levels - 1, NEW x \in Tables PROVE Good(i + 1, x)
    <3>1. i + 1 \in TlbLevels /\ ~(i + 1 <= i)
      BY <1>0, <2>4, <2>5 DEF TlbLevels
    <3>2. i + 1 \notin Bad
      BY <2>2, <3>1
    <3> QED BY <3>1, <3>2
  <2> QED BY <1>1, <2>3, <2>4, <2>5 DEF Good
<1>3. Good(i0, t0)
  <2> HIDE DEF Good
  <2> QED BY <1>2
<1> QED BY <1>3

\* Where the tables lead no further.
LEMMA ReachesAnEnd ==
    ASSUME NEW tab \in TableSet, NEW root \in Tables, NEW vpn \in Nat
    PROVE  \E i \in TlbLevels, t \in Tables :
              /\ ReachesAt(tab, root, vpn, i, t)
              /\ i # 0 => \A x \in Tables : ReadAt(tab, vpn, i, t) # Tlb!Inner(x)
<1> DEFINE On == {i \in TlbLevels : \E t \in Tables : ReachesAt(tab, root, vpn, i, t)}
<1>0. Levels \in Nat \ {0} /\ Tables \subseteq Nat
  BY TlbConstants
<1>1. Levels - 1 \in On
  BY LastLevel, ReachesRoot
<1>2. On \in SUBSET Nat
  BY <1>0 DEF TlbLevels
<1>3. PICK i \in On : \A k \in On : i <= k
  BY <1>1, <1>2, NatSetHasMin
<1>4. PICK t \in Tables : ReachesAt(tab, root, vpn, i, t)
  BY <1>3
<1>5. i \in TlbLevels
  BY <1>3
<1>6. ASSUME i # 0, NEW x \in Tables, ReadAt(tab, vpn, i, t) = Tlb!Inner(x) PROVE FALSE
  <2>1. ReachesAt(tab, root, vpn, i - 1, x)
    BY <1>0, <1>4, <1>5, <1>6, ReachesNext
  <2>2. i - 1 \in TlbLevels /\ ~(i <= i - 1)
    BY <1>0, <1>5, <1>6 DEF TlbLevels
  <2> QED BY <1>3, <2>1, <2>2
<1> QED BY <1>4, <1>5, <1>6

\* What the rules ask of a leaf, and what the walk asks of it.
Grants(p, i, type, m) ==
    /\ p.v /\ ~p.rsv
    /\ p.perm \cap {"R", "X"} # {} /\ ("W" \in p.perm => "R" \in p.perm)
    /\ p.ppn % Digits ^ i = 0
    /\ ("U" \in p.perm) = (m.priv = "U")
       \/ ("U" \in p.perm /\ m.sum /\ type # "Fetch")
    /\ \/ type = "Fetch" /\ "X" \in p.perm
       \/ type = "Load"  /\ ("R" \in p.perm \/ (m.mxr /\ "X" \in p.perm))
       \/ type = "Store" /\ "W" \in p.perm
    /\ m.adue \/ (p.a /\ (type = "Store" => p.d))
Accepts(p, i, type, m) ==
    /\ ~Tlb!Malformed(p) /\ Tlb!IsLeaf(p)
    /\ p.ppn % Digits ^ i = 0
    /\ Tlb!PrivAllows(p.perm, type, m) /\ Tlb!TypeAllows(p.perm, type, m)
    /\ Tlb!Touched(p, type) = p \/ m.adue

LEMMA TouchedSame ==
    ASSUME NEW p \in Tlb!Pte, NEW type
    PROVE  Tlb!Touched(p, type) = p <=> p.a /\ (type = "Store" => p.d)
<1> DEFINE x == p.d \/ type = "Store"
           q == [p EXCEPT !.a = TRUE, !.d = x]
<1>1. Tlb!Touched(p, type) = q
  BY DEF Tlb!Touched
<1>2. TouchSays(p, q, type)
  BY <1>1, TouchedIs
<1>3. q.a = TRUE /\ q.d = x
  <2> HIDE DEF x
  <2> QED BY DEF Tlb!Pte
<1> HIDE DEF q
<1>4. p.a /\ (type = "Store" => p.d) => q = p
  BY <1>2, Zenon DEF TouchSays
<1>5. q = p => p.a /\ (type = "Store" => p.d)
  BY <1>3, Zenon
<1> QED BY <1>1, <1>4, <1>5, Zenon

LEMMA LeafGrants ==
    ASSUME NEW p \in Tlb!Pte, NEW i, NEW type \in Tlb!Type, NEW m \in Tlb!Mode
    PROVE  Grants(p, i, type, m) <=> Accepts(p, i, type, m)
<1>1. p.v /\ ~p.rsv /\ p.perm \cap {"R", "X"} # {} /\ ("W" \in p.perm => "R" \in p.perm)
      <=> ~Tlb!Malformed(p) /\ Tlb!IsLeaf(p)
  BY Zenon DEF Tlb!Malformed, Tlb!IsLeaf
<1>2. ("U" \in p.perm) = (m.priv = "U") \/ ("U" \in p.perm /\ m.sum /\ type # "Fetch")
      <=> Tlb!PrivAllows(p.perm, type, m)
  <2>1. CASE "U" \in p.perm
    <3>1. ("U" \in p.perm) = (m.priv = "U") <=> m.priv = "U"
      BY <2>1
    <3> QED BY <2>1, <3>1, Zenon DEF Tlb!PrivAllows
  <2>2. CASE "U" \notin p.perm
    <3>1. ("U" \in p.perm) = (m.priv = "U") <=> m.priv # "U"
      BY <2>2
    <3> QED BY <2>2, <3>1, Zenon DEF Tlb!PrivAllows
  <2> QED BY <2>1, <2>2
<1>3. \/ type = "Fetch" /\ "X" \in p.perm
      \/ type = "Load"  /\ ("R" \in p.perm \/ (m.mxr /\ "X" \in p.perm))
      \/ type = "Store" /\ "W" \in p.perm
      <=> Tlb!TypeAllows(p.perm, type, m)
  <2>1. CASE type = "Fetch"
    BY <2>1 DEF Tlb!TypeAllows
  <2>2. CASE type = "Load"
    BY <2>2 DEF Tlb!TypeAllows
  <2>3. CASE type = "Store"
    BY <2>3 DEF Tlb!TypeAllows
  <2> QED BY <2>1, <2>2, <2>3 DEF Tlb!Type
<1>4. p.a /\ (type = "Store" => p.d) <=> Tlb!Touched(p, type) = p
  BY TouchedSame, Zenon
<1> QED BY <1>1, <1>2, <1>3, <1>4, Zenon DEF Grants, Accepts

\* The result r at a leaf: granted, at the page of the leaf, or a page fault.
Granted(r, p, i, vpn, type, m) ==
    /\ r.kind = "ok" <=> Grants(p, i, type, m)
    /\ r.kind = "ok" => r.ppn = p.ppn + (vpn % Digits ^ i)
    /\ r.kind # "access"

LEMMA LeafEnds ==
    ASSUME NEW p \in Tlb!Pte, NEW at, NEW i \in TlbLevels, NEW vpn \in Nat,
           NEW type \in Tlb!Type, NEW m \in Tlb!Mode,
           ~Tlb!Malformed(p), Tlb!IsLeaf(p)
    PROVE  Granted(Tlb!LeafResult(p, at, i, vpn, type, m), p, i, vpn, type, m)
<1> DEFINE r == Tlb!LeafResult(p, at, i, vpn, type, m)
<1>1. LeafSays(r, p, at, i, vpn, type, m)
  BY LeafFields, Zenon
<1>2. r.kind # "access"
  <2>1. Tlb!Fault("page").kind = "page"
    BY DEF Tlb!Fault
  <2>2. ASSUME NEW b \in BOOLEAN, NEW x,
               r = IF b THEN Tlb!Fault("page") ELSE [kind |-> "ok", ppn |-> x, perm |-> p.perm,
                     dirty |-> p.d, at |-> at, new |-> Tlb!Touched(p, type)]
        PROVE  r.kind # "access"
    <3> HIDE DEF r
    <3> QED BY <2>1, <2>2
  <2> QED BY <2>2 DEF Tlb!LeafResult
<1> HIDE DEF r
<1>3. r.kind = "ok" <=> Accepts(p, i, type, m)
  BY <1>1, Zenon DEF LeafSays, Accepts
<1>4. ASSUME r.kind = "ok" PROVE r.ppn = p.ppn + (vpn % Digits ^ i)
  <2>1. p.ppn % Digits ^ i = 0 /\ r.ppn = TlbPlace(p, i, vpn)
    BY <1>1, <1>4, Zenon DEF LeafSays
  <2>2. PICK h \in Nat \ {0} : h = Digits ^ i
    BY TlbConstants DEF TlbLevels
  <2>3. PICK y \in Nat : y = p.ppn
    BY DEF Tlb!Pte
  <2>4. PICK z \in Nat : z = vpn % h
    BY <2>2, SplitOf
  <2>5. r.ppn = y - 0 + z
    BY <2>1, <2>2, <2>3, <2>4, Zenon DEF TlbPlace
  <2> QED BY <2>2, <2>3, <2>4, <2>5
<1>5. Grants(p, i, type, m) <=> Accepts(p, i, type, m)
  BY LeafGrants
<1> QED BY <1>2, <1>3, <1>4, <1>5, Zenon DEF r, Granted

\* What a walk with result r finds at table t on level i.
WalkSays(tab, vpn, type, m, i, t, r) ==
    LET p == ReadAt(tab, vpn, i, t)
    IN  /\ p \in Tlb!Pte /\ p.ppn \in Nat
        /\ Tlb!Malformed(p) => r = Tlb!Fault("page")
        /\ ~Tlb!Malformed(p) /\ Tlb!IsLeaf(p)
           => r = Tlb!LeafResult(p, <<t, Tlb!Digit(vpn, i)>>, i, vpn, type, m)
        /\ ~Tlb!Malformed(p) /\ ~Tlb!IsLeaf(p) /\ i = 0 => r = Tlb!Fault("page")
        /\ ~Tlb!Malformed(p) /\ ~Tlb!IsLeaf(p) /\ i # 0 /\ p.ppn \notin Tables
           => r = Tlb!Fault("access")

LEMMA WalkAt ==
    ASSUME NEW tab \in TableSet, NEW root \in Nat, NEW vpn \in Nat, NEW type, NEW m,
           NEW i \in TlbLevels, NEW t \in Tables, ReachesAt(tab, root, vpn, i, t)
    PROVE  WalkSays(tab, vpn, type, m, i, t, Tlb!Walk(tab, root, vpn, type, m))
<1> DEFINE p == ReadAt(tab, vpn, i, t)
           r == Tlb!Walk(tab, root, vpn, type, m)
           w == WalkFrom(tab, vpn, type, m)
<1>0. Levels \in Nat \ {0} /\ Tables \subseteq Nat
  BY TlbConstants
<1>1. p \in Tlb!Pte /\ p.ppn \in Nat
  BY <1>0, DigitIs, EntryIs DEF ReadAt
<1>2. r = w[<<i, t>>]
  BY WalkGoesThrough
<1>3. ASSUME NEW j \in TlbLevels, NEW x \in Nat
      PROVE  w[<<j, x>>] = WalkBody(tab, vpn, type, m, w, <<j, x>>)
  BY WalkStep
<1>4. \A j, x : <<j, x>>[1] = j /\ <<j, x>>[2] = x
  OBVIOUS
<1> HIDE DEF w, r
<1>5. r = WalkBody(tab, vpn, type, m, w, <<i, t>>)
  BY <1>0, <1>2, <1>3
<1>6. ASSUME i # 0, p.ppn \notin Tables PROVE w[<<i - 1, p.ppn>>] = Tlb!Fault("access")
  <2>1. i - 1 \in TlbLevels
    BY <1>0, <1>6 DEF TlbLevels
  <2>2. w[<<i - 1, p.ppn>>] = WalkBody(tab, vpn, type, m, w, <<i - 1, p.ppn>>)
    BY <1>1, <1>3, <2>1
  <2> QED BY <1>4, <1>6, <2>2, Zenon DEF WalkBody
<1>7. CASE Tlb!Malformed(p)
  BY <1>1, <1>4, <1>5, <1>7, Zenon DEF WalkBody, ReadAt, WalkSays, r
<1>8. CASE ~Tlb!Malformed(p)
  BY <1>1, <1>4, <1>5, <1>6, <1>8, Zenon DEF WalkBody, ReadAt, WalkSays, r
<1> QED BY <1>7, <1>8

LEMMA WalkObeys ==
    ASSUME NEW tab \in TableSet, NEW root \in Nat, NEW vpn \in Tlb!Vpn,
           NEW type \in Tlb!Type, NEW m \in Tlb!Mode
    PROVE  Tlb!WalkIsLawful(tab, root, vpn, type, m)
<1> DEFINE r == Tlb!Walk(tab, root, vpn, type, m)
<1>0. vpn \in Nat /\ Tables \subseteq Nat /\ Levels \in Nat \ {0}
  BY VpnNat, TlbConstants
<1>1. Tlb!Fault("access").kind = "access" /\ Tlb!Fault("page").kind = "page"
  BY DEF Tlb!Fault
<1>2. ASSUME NEW Q, Tlb!Maps(tab, root, vpn, type, m, Q)
      PROVE  r.kind = "ok"
  <2>1. PICK i \in TlbLevels, t \in Tables :
           ReachesAt(tab, root, vpn, i, t) /\ Grants(ReadAt(tab, vpn, i, t), i, type, m)
    BY <1>2, Zenon DEF Tlb!Maps, TlbLevels, ReachesAt, Grants, ReadAt
  <2> DEFINE p == ReadAt(tab, vpn, i, t)
             l == Tlb!LeafResult(p, <<t, Tlb!Digit(vpn, i)>>, i, vpn, type, m)
  <2>0. WalkSays(tab, vpn, type, m, i, t, r)
    BY <1>0, <2>1, WalkAt, Zenon
  <2>2. p \in Tlb!Pte
    BY <2>0, Zenon DEF WalkSays
  <2>3. ~Tlb!Malformed(p) /\ Tlb!IsLeaf(p)
    BY <2>1, <2>2, LeafGrants, Zenon DEF Accepts
  <2>4. r = l
    BY <2>0, <2>3, Zenon DEF WalkSays
  <2>5. Granted(l, p, i, vpn, type, m)
    BY <1>0, <2>1, <2>2, <2>3, LeafEnds, Zenon
  <2> QED BY <2>1, <2>4, <2>5, Zenon DEF Granted
<1>3. ASSUME Tlb!LeavesMemory(tab, root, vpn) PROVE r.kind = "access"
  <2>1. CASE root \notin Tables
    <3>1. WalkFrom(tab, vpn, type, m)[<<Levels - 1, root>>]
             = WalkBody(tab, vpn, type, m, WalkFrom(tab, vpn, type, m), <<Levels - 1, root>>)
      BY <1>0, LastLevel, WalkStep
    <3>2. <<Levels - 1, root>>[2] = root
      OBVIOUS
    <3>3. r = Tlb!Fault("access")
      BY <2>1, <3>1, <3>2, WalkIs, Zenon DEF WalkBody
    <3> QED BY <1>1, <3>3, Zenon
  <2>2. CASE root \in Tables
    <3>1. PICK i \in 1 .. Levels - 1, t \in Tables :
             /\ ReachesAt(tab, root, vpn, i, t)
             /\ ReadAt(tab, vpn, i, t) = Tlb!Inner(ReadAt(tab, vpn, i, t).ppn)
             /\ ReadAt(tab, vpn, i, t).ppn \notin Tables
      BY <1>3, <2>2, Zenon DEF Tlb!LeavesMemory, ReachesAt, ReadAt
    <3> DEFINE p == ReadAt(tab, vpn, i, t)
    <3>2. i \in TlbLevels /\ i # 0
      BY <1>0 DEF TlbLevels
    <3>0. WalkSays(tab, vpn, type, m, i, t, r)
      BY <1>0, <3>1, <3>2, WalkAt, Zenon
    <3>3. p \in Tlb!Pte
      BY <3>0, Zenon DEF WalkSays
    <3>4. ~Tlb!Malformed(p) /\ ~Tlb!IsLeaf(p)
      BY <3>1, <3>3, InnerIs, Zenon
    <3>5. r = Tlb!Fault("access")
      BY <3>0, <3>1, <3>2, <3>4, Zenon DEF WalkSays
    <3> QED BY <1>1, <3>5, Zenon
  <2> QED BY <2>1, <2>2
<1>4. ASSUME root \in Tables
      PROVE  /\ r.kind = "ok" => Tlb!Maps(tab, root, vpn, type, m, {r.ppn})
             /\ r.kind = "access" => Tlb!LeavesMemory(tab, root, vpn)
  <2>1. PICK i \in TlbLevels, t \in Tables :
           /\ ReachesAt(tab, root, vpn, i, t)
           /\ i # 0 => \A x \in Tables : ReadAt(tab, vpn, i, t) # Tlb!Inner(x)
    BY <1>0, <1>4, ReachesAnEnd
  <2> DEFINE p == ReadAt(tab, vpn, i, t)
             l == Tlb!LeafResult(p, <<t, Tlb!Digit(vpn, i)>>, i, vpn, type, m)
  <2>0. WalkSays(tab, vpn, type, m, i, t, r)
    BY <1>0, <2>1, WalkAt, Zenon
  <2>2. p \in Tlb!Pte /\ p.ppn \in Nat
    BY <2>0, Zenon DEF WalkSays
  <2>3. CASE Tlb!Malformed(p)
    <3>1. r = Tlb!Fault("page")
      BY <2>0, <2>3, Zenon DEF WalkSays
    <3> QED BY <1>1, <3>1
  <2>4. CASE ~Tlb!Malformed(p) /\ Tlb!IsLeaf(p)
    <3>1. r = l
      BY <2>0, <2>4, Zenon DEF WalkSays
    <3>2. /\ l.kind = "ok" => Grants(p, i, type, m) /\ l.ppn = p.ppn + (vpn % Digits ^ i)
          /\ l.kind # "access"
      <4>1. Granted(l, p, i, vpn, type, m)
        BY <1>0, <2>1, <2>2, <2>4, LeafEnds, Zenon
      <4> QED BY <4>1, Zenon DEF Granted
    <3>3. ASSUME r.kind = "ok" PROVE Tlb!Maps(tab, root, vpn, type, m, {r.ppn})
      <4>1. Grants(p, i, type, m) /\ p.ppn + (vpn % Digits ^ i) \in {r.ppn}
        BY <3>1, <3>2, <3>3, Zenon
      <4> QED BY <2>1, <4>1, Zenon DEF Tlb!Maps, TlbLevels, ReachesAt, Grants, ReadAt
    <3> QED BY <3>1, <3>2, <3>3, Zenon
  <2>5. CASE ~Tlb!Malformed(p) /\ ~Tlb!IsLeaf(p)
    <3>1. p = Tlb!Inner(p.ppn)
      BY <2>2, <2>5, InnerIs, Zenon
    <3>2. CASE i = 0
      <4>1. r = Tlb!Fault("page")
        BY <2>0, <2>5, <3>2, Zenon DEF WalkSays
      <4> QED BY <1>1, <4>1
    <3>3. CASE i # 0
      <4>1. p.ppn \notin Tables
        BY <2>1, <3>1, <3>3, Zenon
      <4>2. r = Tlb!Fault("access")
        BY <2>0, <2>5, <3>3, <4>1, Zenon DEF WalkSays
      <4>3. i \in 1 .. Levels - 1
        BY <1>0, <3>3 DEF TlbLevels
      <4>4. Tlb!LeavesMemory(tab, root, vpn)
        BY <2>1, <3>1, <4>1, <4>3, Zenon DEF Tlb!LeavesMemory, ReachesAt, ReadAt
      <4> QED BY <1>1, <4>2, <4>4
    <3> QED BY <3>2, <3>3
  <2> QED BY <2>3, <2>4, <2>5
<1>5. ASSUME root \notin Tables
      PROVE  Tlb!LeavesMemory(tab, root, vpn) /\ r.kind # "ok"
  <2>1. Tlb!LeavesMemory(tab, root, vpn)
    BY <1>5, Zenon DEF Tlb!LeavesMemory
  <2> QED BY <1>3, <2>1
<1> HIDE DEF r
<1>6. /\ r.kind = "ok" => Tlb!Maps(tab, root, vpn, type, m, {r.ppn})
      /\ r.kind # "ok" => ~Tlb!Maps(tab, root, vpn, type, m, Nat)
      /\ r.kind = "access" <=> Tlb!LeavesMemory(tab, root, vpn)
  BY <1>2, <1>3, <1>4, <1>5, Zenon
<1> QED BY <1>6, Zenon DEF r, Tlb!WalkIsLawful

\* For every number of levels, tables, root and request the walk of MMU::translate
\* grants exactly the accesses that the tables grant, to the right page, and
\* reports an access fault exactly where they lead out of memory.
THEOREM WalkLawful == Spec => []WalkIsLawful
<1> DEFINE Asked == [root : WalkRoots, vpn : Tlb!Vpn, type : Tlb!Type, mode : Tlb!Mode]
           Inv == part = "walk" => pt \in TableSet /\ asked \in Asked
<1>0. WalkRoots \subseteq Nat /\ WalkEntries \subseteq Tlb!Pte
  BY CpuThreadAssumptions
<1>1. Init => Inv
  <2> SUFFICES ASSUME WalkInit PROVE pt \in TableSet /\ asked \in Asked
    BY DEF Init
  <2>1. NoEntry \in Tlb!Pte
    BY DEF NoEntry, Tlb!Pte
  <2> QED BY <2>1, Zenon DEF WalkInit, TableSet
<1>2. Inv /\ [Next]_vars => Inv'
  <2> SUFFICES ASSUME Inv, [Next]_vars PROVE Inv'
    OBVIOUS
  <2>1. CASE UNCHANGED walkVars /\ UNCHANGED part
    BY <2>1 DEF walkVars
  <2>2. CASE part = "walk" /\ UNCHANGED part /\ WalkNext
    <3>1. PICK t \in Tables, i \in TlbLevels, p \in WalkEntries :
             pt' = [pt EXCEPT ![t][Tlb!Digit(asked.vpn, i)] = p] /\ UNCHANGED asked
      BY <2>2 DEF WalkNext, TlbLevels
    <3>2. PICK d \in 0 .. Digits - 1 : d = Tlb!Digit(asked.vpn, i)
      <4>1. asked.vpn \in Nat
        BY <2>2, VpnNat
      <4> QED BY <4>1, DigitIs
    <3>3. pt \in TableSet /\ asked \in Asked
      BY <2>2
    <3>4. pt' = [pt EXCEPT ![t][d] = p]
      BY <3>1, <3>2, Zenon
    <3> HIDE DEF Asked
    <3>5. pt' \in TableSet
      BY <1>0, <3>3, <3>4 DEF TableSet
    <3> QED BY <3>1, <3>3, <3>5
  <2> QED BY <2>1, <2>2 DEF Next, vars
<1>3. Inv => WalkIsLawful
  <2> SUFFICES ASSUME Inv, part = "walk"
               PROVE  Tlb!WalkIsLawful(pt, asked.root, asked.vpn, asked.type, asked.mode)
    BY DEF WalkIsLawful
  <2>0. pt \in TableSet /\ asked \in Asked
    OBVIOUS
  <2>1. /\ asked.root \in Nat /\ asked.vpn \in Tlb!Vpn /\ asked.type \in Tlb!Type
        /\ asked.mode \in Tlb!Mode
    BY <1>0, <2>0
  <2> QED BY <2>0, <2>1, WalkObeys, Zenon
<1> QED BY <1>1, <1>2, <1>3, PTL DEF Spec

-----------------------------------------------------------------------------
(* Memory accesses.                                                        *)

LEMMA MemConstants ==
    /\ PageSize \in Nat \ {0} /\ Pages \in Nat \ {0} /\ Mem!Half \in Nat \ {0}
    /\ PageSize = 2 * Mem!Half
    /\ AccessSizes \subseteq Nat \ {0} /\ PageSize \in AccessSizes
    /\ \A n \in AccessSizes : n <= PageSize /\ PageSize % n = 0
    /\ Bytes \subseteq Nat /\ 0 \in Bytes /\ 1 \in Bytes
<1>1. /\ AccessSizes \subseteq 1 .. PageSize /\ PageSize \in AccessSizes
      /\ PageSize % 2 = 0 /\ Pages \in Nat \ {0}
      /\ \A n \in AccessSizes : PageSize % n = 0
      /\ Bytes \subseteq Nat /\ 0 \in Bytes /\ 1 \in Bytes
  BY CpuThreadAssumptions DEF Mem!MemoryAssumption
<1>2. PageSize \in 1 .. PageSize
  BY <1>1, Zenon
<1>3. PageSize \in Nat \ {0} /\ Mem!Half \in Nat \ {0} /\ PageSize = 2 * Mem!Half
  BY <1>1, <1>2 DEF Mem!Half
<1>4. \A n \in AccessSizes : n \in 1 .. PageSize
  BY <1>1, Zenon
<1>5. \A n \in AccessSizes : n \in Nat \ {0} /\ n <= PageSize
  BY <1>3, <1>4
<1> QED BY <1>1, <1>3, <1>5

LEMMA PageNat == PageSize \in Nat \ {0}
BY MemConstants

\* From an address to the end of its page nothing but the offset moves.
LEMMA InPage ==
    ASSUME NEW a \in Nat, NEW j \in Nat, Mem!Offset(a) + j < PageSize
    PROVE  (a + j) \div PageSize = a \div PageSize /\ Mem!Offset(a + j) = Mem!Offset(a) + j
<1>1. PICK q \in Nat : q = a \div PageSize
  BY MemConstants, SplitOf
<1>2. PICK r \in 0 .. PageSize - 1 : r = a % PageSize
  BY MemConstants, SplitOf
<1>3. a = PageSize * q + r
  BY <1>1, <1>2, MemConstants, SplitOf
<1>4. PICK s \in 0 .. PageSize - 1 : s = r + j
  BY <1>2, MemConstants DEF Mem!Offset
<1>5. PICK x \in Nat : x = a + j
  OBVIOUS
<1>6. PICK u \in Nat : u = PageSize * q
  BY MemConstants
<1>7. Splits(x, PageSize, q, s)
  BY <1>3, <1>4, <1>5, <1>6, MemConstants DEF Splits
<1>8. x \div PageSize = q /\ x % PageSize = s
  BY <1>7, SplitUnique, SplitUniqueDiv, MemConstants
<1> QED BY <1>1, <1>2, <1>4, <1>5, <1>8 DEF Mem!Offset

\* Two addresses less than a page apart have different offsets.
LEMMA OffsetsDiffer ==
    ASSUME NEW x \in Nat, NEW y \in Nat, x < y, y < x + PageSize
    PROVE  Mem!Offset(x) # Mem!Offset(y)
<1> SUFFICES ASSUME Mem!Offset(x) = Mem!Offset(y) PROVE FALSE
  OBVIOUS
<1>1. PICK p \in Nat : p = x \div PageSize
  BY MemConstants, SplitOf
<1>2. PICK q \in Nat : q = y \div PageSize
  BY MemConstants, SplitOf
<1>3. PICK s \in 0 .. PageSize - 1 : s = x % PageSize /\ s = y % PageSize
  <2>1. x % PageSize \in 0 .. PageSize - 1
    BY MemConstants, SplitOf
  <2> QED BY <2>1, Zenon DEF Mem!Offset
<1>4. x = PageSize * p + s /\ y = PageSize * q + s
  <2>1. x = PageSize * (x \div PageSize) + (x % PageSize)
    BY PageNat, SplitOf
  <2>2. y = PageSize * (y \div PageSize) + (y % PageSize)
    BY PageNat, SplitOf
  <2> QED BY <1>1, <1>2, <1>3, <2>1, <2>2, Zenon
<1>5. PICK u \in Nat : u = PageSize * p
  BY MemConstants
<1>6. PICK w \in Nat : w = PageSize * q
  BY MemConstants
<1>7. u < w /\ w < u + PageSize
  <2>1. x = u + s /\ y = w + s
    BY <1>4, <1>5, <1>6, Zenon
  <2> QED BY ONLY <2>1, u \in Nat, w \in Nat, s \in 0 .. PageSize - 1, x \in Nat,
                  y \in Nat, x < y, y < x + PageSize, PageNat
<1>8. CASE p < q
  <2>1. PageSize * p + PageSize <= PageSize * q
    BY <1>8, TimesLess, MemConstants
  <2> QED BY ONLY <2>1, <1>5, <1>6, <1>7, MemConstants
<1>9. CASE q < p
  <2>1. PageSize * q + PageSize <= PageSize * p
    BY <1>9, TimesLess, MemConstants
  <2> QED BY ONLY <2>1, <1>5, <1>6, <1>7, MemConstants
<1>10. CASE p = q
  BY <1>5, <1>6, <1>7, <1>10
<1> QED BY <1>8, <1>9, <1>10

\* A naturally aligned access ends in the page it starts in, for its size
\* divides the page: this is why its first byte speaks for all of them.
LEMMA AlignedStaysInPage ==
    ASSUME NEW a \in Nat, NEW n \in AccessSizes, a % n = 0
    PROVE  Mem!Offset(a) + n <= PageSize
<1>0. n \in Nat \ {0} /\ PageSize % n = 0
  BY MemConstants
<1>1. PICK q \in Nat : a = n * q
  <2>1. PICK q \in Nat : q = a \div n
    BY <1>0, SplitOf
  <2>2. a = n * q + 0
    BY <1>0, <2>1, SplitOf
  <2> QED BY ONLY <1>0, <2>2, q \in Nat
<1>2. PICK k \in Nat : PageSize = n * k
  <2>1. PICK k \in Nat : k = PageSize \div n
    BY <1>0, SplitOf, MemConstants
  <2>2. PageSize = n * k + 0
    BY <1>0, <2>1, SplitOf, MemConstants
  <2> QED BY ONLY <1>0, <2>2, k \in Nat
<1>3. PICK d \in Nat : d = a \div PageSize
  BY MemConstants, SplitOf
<1>4. PICK r \in 0 .. PageSize - 1 : r = Mem!Offset(a)
  BY MemConstants, SplitOf DEF Mem!Offset
<1>5. a = PageSize * d + r
  BY <1>3, <1>4, MemConstants, SplitOf DEF Mem!Offset
<1>6. PICK e \in Nat : e = k * d
  OBVIOUS
<1>7. PageSize * d = n * e
  <2>1. PageSize * d = (n * k) * d
    BY <1>2
  <2>2. (n * k) * d = n * (k * d)
    BY <1>0
  <2> QED BY <1>6, <2>1, <2>2
<1>8. PICK u \in Nat : u = n * e
  BY <1>0
<1>9. a = u + r
  BY <1>5, <1>7, <1>8
<1>10. ~(q < e)
  <2> SUFFICES ASSUME q < e PROVE FALSE
    OBVIOUS
  <2>1. n * q + n <= n * e
    BY <1>0, TimesLess
  <2>2. a + n <= u
    BY <1>1, <1>8, <2>1
  <2> QED BY ONLY <2>2, <1>9, <1>0, <1>4, <1>8, MemConstants
<1>11. PICK z \in Nat : q = e + z
  BY <1>10
<1>12. PICK w \in Nat : w = n * z
  BY <1>0
<1>13. a = u + w
  <2>1. n * (e + z) = n * e + n * z
    BY <1>0
  <2>2. a = n * (e + z)
    BY <1>1, <1>11, Zenon
  <2> QED BY <1>8, <1>12, <2>1, <2>2, Zenon
<1>14. r = w
  BY ONLY r \in 0 .. PageSize - 1, u \in Nat, w \in Nat, <1>9, <1>13, PageNat
<1>15. z < k
  <2> SUFFICES ASSUME k <= z PROVE FALSE
    OBVIOUS
  <2>1. n * k <= n * z
    <3>1. CASE k = z
      BY <3>1, <1>12
    <3>2. CASE k < z
      <4>1. n * k + n <= n * z
        BY <3>2, <1>0, TimesLess
      <4> QED BY <4>1, <1>0, <1>2, <1>12, MemConstants
    <3> QED BY <3>1, <3>2
  <2>2. PageSize <= w
    BY <1>2, <1>12, <2>1
  <2> QED BY <2>2, <1>4, <1>14, MemConstants
<1>16. n * z + n <= n * k
  BY <1>0, <1>15, TimesLess
<1>17. w + n <= PageSize
  BY <1>2, <1>12, <1>16
<1> QED BY <1>4, <1>14, <1>17

MemTypes == {"Load", "Store", "Fetch"}
MemRam   == [0 .. PageSize - 1 -> Bytes]

\* Translation and an owner for each of the n bytes from a on.
MemAllowed(a, n, type) ==
    \A b \in Mem!Span(a, n) : Mem!Translates(b, type) /\ Mem!AccessibleAt(b)

\* What the result r of an access says and leaves behind.
MemAccess(r, a, n, type) ==
    /\ r.ram \in MemRam
    /\ r.cause \in {"none", Mem!PageFault(type), Mem!AccessFault(type)}
    /\ r.cause = "none" => MemAllowed(a, n, type)
    /\ r.cause # "none" =>
          /\ r.tval \in Mem!Span(a, n)
          /\ r.cause = Mem!PageFault(type) => ~Mem!Translates(r.tval, type)
          /\ ~Mem!TouchesDevice(a, n) => r.ram = ram

LEMMA CauseNames ==
    ASSUME NEW type \in MemTypes
    PROVE  /\ Mem!PageFault(type) # Mem!AccessFault(type)
           /\ Mem!PageFault(type) # "none" /\ Mem!AccessFault(type) # "none"
           /\ Mem!PageFault(type) \in {Mem!PageFault(t) : t \in MemTypes}
           /\ Mem!AccessFault(type) \in {Mem!AccessFault(t) : t \in MemTypes}
BY DEF MemTypes, Mem!PageFault, Mem!AccessFault

LEMMA LeastIs ==
    ASSUME NEW T \in SUBSET Nat, T # {}
    PROVE  Mem!Least(T) \in T /\ \A y \in T : Mem!Least(T) <= y
BY NatSetHasMin DEF Mem!Least

LEMMA SpanNat ==
    ASSUME NEW a \in Nat, NEW n \in Nat \ {0}
    PROVE  Mem!Span(a, n) \in SUBSET Nat /\ a \in Mem!Span(a, n)
BY DEF Mem!Span

LEMMA AccessFaults ==
    ASSUME NEW type \in MemTypes, ram \in MemRam, NEW a, NEW n, NEW t \in Mem!Span(a, n)
    PROVE  /\ MemAccess(Mem!Fault(Mem!AccessFault(type), t), a, n, type)
           /\ ~Mem!Translates(t, type) =>
                 MemAccess(Mem!Fault(Mem!PageFault(type), t), a, n, type)
BY CauseNames DEF MemAccess, Mem!Fault

LEMMA AccessEnds ==
    ASSUME NEW type \in MemTypes, NEW m \in MemRam, NEW v, NEW a, NEW n,
           MemAllowed(a, n, type)
    PROVE  MemAccess(Mem!Done(m, v), a, n, type)
BY CauseNames DEF MemAccess, Mem!Done

\* What the two checks of an aligned access say of its first byte holds of all.
LEMMA AlignedAllowed ==
    ASSUME NEW type \in MemTypes, NEW a \in Nat, NEW n \in AccessSizes, a % n = 0,
           Mem!Translates(a, type), Mem!AccessibleAt(a)
    PROVE  MemAllowed(a, n, type)
<1> SUFFICES ASSUME NEW b \in Mem!Span(a, n)
             PROVE  Mem!Translates(b, type) /\ Mem!AccessibleAt(b)
  BY DEF MemAllowed
<1>1. n \in Nat \ {0}
  BY MemConstants
<1>2. PICK j \in Nat : b = a + j /\ j < n
  BY <1>1 DEF Mem!Span
<1>3. Mem!Offset(a) + n <= PageSize /\ Mem!Offset(a) \in Nat
  BY AlignedStaysInPage, PageNat DEF Mem!Offset
<1>4. b \div PageSize = a \div PageSize
  <2>1. Mem!Offset(a) + j < PageSize
    BY <1>1, <1>2, <1>3, PageNat
  <2> QED BY <1>2, <2>1, InPage
<1> QED BY <1>4 DEF Mem!Translates, Mem!AccessibleAt, Mem!Page

LEMMA CheckedAccess ==
    ASSUME NEW type \in MemTypes, ram \in MemRam, NEW a \in Nat, NEW n \in Nat \ {0}
    PROVE  /\ MemAccess(Mem!Checked(a, n, type), a, n, type)
           /\ Mem!Checked(a, n, type).ram = ram
<1> DEFINE bad == {b \in Mem!Span(a, n) : ~Mem!Translates(b, type) \/ ~Mem!AccessibleAt(b)}
<1>1. CASE bad = {}
  <2>1. MemAllowed(a, n, type)
    BY <1>1 DEF MemAllowed
  <2>2. Mem!Checked(a, n, type) = Mem!Done(ram, <<>>)
    BY <1>1 DEF Mem!Checked
  <2> QED BY <2>1, <2>2, AccessEnds DEF Mem!Done
<1>2. CASE bad # {}
  <2>1. bad \in SUBSET Nat
    BY SpanNat
  <2>2. Mem!Least(bad) \in bad
    BY <1>2, <2>1, LeastIs
  <2>3. PICK t \in Mem!Span(a, n) : t = Mem!Least(bad)
    BY <2>2
  <2>4. CASE ~Mem!Translates(t, type)
    <3>1. Mem!Checked(a, n, type) = Mem!Fault(Mem!PageFault(type), t)
      BY <1>2, <2>3, <2>4 DEF Mem!Checked
    <3>2. MemAccess(Mem!Fault(Mem!PageFault(type), t), a, n, type)
      BY <2>4, AccessFaults
    <3>3. Mem!Fault(Mem!PageFault(type), t).ram = ram
      BY DEF Mem!Fault
    <3> QED BY <3>1, <3>2, <3>3, Zenon
  <2>5. CASE Mem!Translates(t, type)
    <3>1. Mem!Checked(a, n, type) = Mem!Fault(Mem!AccessFault(type), a)
      BY <1>2, <2>3, <2>5 DEF Mem!Checked
    <3>2. MemAccess(Mem!Fault(Mem!AccessFault(type), a), a, n, type)
      <4>1. a \in Mem!Span(a, n)
        BY SpanNat
      <4> QED BY <4>1, AccessFaults
    <3>3. Mem!Fault(Mem!AccessFault(type), a).ram = ram
      BY DEF Mem!Fault
    <3> QED BY <3>1, <3>2, <3>3, Zenon
  <2> QED BY <2>4, <2>5
<1> QED BY <1>1, <1>2

LEMMA ReadAccess ==
    ASSUME NEW type \in MemTypes, ram \in MemRam, NEW a \in Nat, NEW n \in AccessSizes, NEW g
    PROVE  /\ MemAccess(Mem!Read(a, n, type, g), a, n, type)
           /\ Mem!Read(a, n, type, g).ram = ram
           /\ Mem!Read(a, n, type, g).cause = "none" =>
                 Mem!Read(a, n, type, g).val = Mem!BytesAt(a, n)
<1> DEFINE r == Mem!Read(a, n, type, g)
<1>0. n \in Nat \ {0} /\ a \in Mem!Span(a, n)
  BY MemConstants, SpanNat
<1>1. ASSUME r = Mem!Fault(Mem!AccessFault(type), a)
             \/ (~Mem!Translates(a, type) /\ r = Mem!Fault(Mem!PageFault(type), a))
      PROVE  MemAccess(r, a, n, type) /\ r.ram = ram /\ r.cause # "none"
  <2>1. /\ MemAccess(Mem!Fault(Mem!AccessFault(type), a), a, n, type)
        /\ ~Mem!Translates(a, type) =>
              MemAccess(Mem!Fault(Mem!PageFault(type), a), a, n, type)
    BY <1>0, AccessFaults
  <2>2. /\ Mem!Fault(Mem!AccessFault(type), a).ram = ram
        /\ Mem!Fault(Mem!AccessFault(type), a).cause = Mem!AccessFault(type)
        /\ Mem!Fault(Mem!PageFault(type), a).ram = ram
        /\ Mem!Fault(Mem!PageFault(type), a).cause = Mem!PageFault(type)
    BY DEF Mem!Fault
  <2>3. Mem!PageFault(type) # "none" /\ Mem!AccessFault(type) # "none"
    BY CauseNames
  <2> HIDE DEF r
  <2> QED BY <1>1, <2>1, <2>2, <2>3, Zenon
<1>2. ASSUME r = Mem!Done(ram, Mem!BytesAt(a, n)), MemAllowed(a, n, type)
      PROVE  MemAccess(r, a, n, type) /\ r.ram = ram /\ r.val = Mem!BytesAt(a, n)
  BY <1>2, AccessEnds DEF Mem!Done
<1>3. CASE a % n = 0
  <2>1. CASE ~Mem!Translates(a, type) \/ ~Mem!Takes(a, g)
    BY <1>1, <1>3, <2>1 DEF Mem!Read
  <2>2. CASE Mem!Translates(a, type) /\ Mem!Takes(a, g)
    <3>1. r = Mem!Done(ram, Mem!BytesAt(a, n))
      BY <1>3, <2>2 DEF Mem!Read
    <3>2. MemAllowed(a, n, type)
      BY <1>3, <2>2, AlignedAllowed DEF Mem!Takes, Mem!AccessibleAt
    <3> QED BY <3>1, <3>2, <1>2
  <2> QED BY <2>1, <2>2
<1>4. CASE a % n # 0
  <2>0. MemAccess(Mem!Checked(a, n, type), a, n, type) /\ Mem!Checked(a, n, type).ram = ram
    BY <1>0, CheckedAccess
  <2>1. CASE Mem!Checked(a, n, type).cause # "none"
    <3>1. r = Mem!Checked(a, n, type)
      BY <1>4, <2>1 DEF Mem!Read
    <3> QED BY <3>1, <2>0, <2>1
  <2>2. CASE /\ Mem!Checked(a, n, type).cause = "none"
             /\ \E b \in Mem!Span(a, n) : ~Mem!Takes(b, g)
    <3>1. r = Mem!Fault(Mem!AccessFault(type), a)
      BY <1>4, <2>2 DEF Mem!Read
    <3> QED BY <3>1, <1>1
  <2>3. CASE /\ Mem!Checked(a, n, type).cause = "none"
             /\ ~ \E b \in Mem!Span(a, n) : ~Mem!Takes(b, g)
    <3>1. r = Mem!Done(ram, Mem!BytesAt(a, n))
      BY <1>4, <2>3 DEF Mem!Read
    <3>2. MemAllowed(a, n, type)
      BY <2>0, <2>3 DEF MemAccess
    <3> QED BY <3>1, <3>2, <1>2
  <2> QED BY <2>1, <2>2, <2>3
<1> QED BY <1>3, <1>4

LEMMA PatternIs ==
    ASSUME NEW n \in AccessSizes, NEW val \in Mem!Patterns(n)
    PROVE  val \in [1 .. n -> Bytes] /\ Len(val) = n
<1>1. n \in Nat \ {0} /\ 0 \in Bytes /\ 1 \in Bytes
  BY MemConstants
<1>2. \A i \in 1 .. n : i % 2 \in Bytes
  BY <1>1
<1>3. val \in [1 .. n -> Bytes]
  BY <1>1, <1>2 DEF Mem!Patterns
<1> QED BY <1>1, <1>3

\* After the bytes of val at the addresses S were stored in m.
StoresBytes(m, a, val, S) ==
    /\ Mem!Stored(m, a, val, S) \in MemRam
    /\ \A b \in S : Mem!Page(b).to = "ram" =>
          Mem!Stored(m, a, val, S)[Mem!Offset(b)] = val[b - a + 1]
    /\ \A o \in DOMAIN m : Mem!Stored(m, a, val, S)[o] # m[o] =>
          \E b \in S : Mem!Page(b).to = "ram" /\ Mem!Offset(b) = o

LEMMA StoredBytes ==
    ASSUME NEW m \in MemRam, NEW a \in Nat, NEW n \in AccessSizes,
           NEW val \in [1 .. n -> Bytes], NEW S \in SUBSET Mem!Span(a, n)
    PROVE  StoresBytes(m, a, val, S)
<1> DEFINE here(o) == {b \in S : Mem!Page(b).to = "ram" /\ Mem!Offset(b) = o}
           one(o)  == CHOOSE b \in here(o) : TRUE
           after   == Mem!Stored(m, a, val, S)
<1>0. n \in Nat \ {0} /\ n <= PageSize
  BY MemConstants
<1>1. after = [o \in DOMAIN m |-> IF here(o) = {} THEN m[o] ELSE val[one(o) - a + 1]]
  BY DEF Mem!Stored
<1>2. DOMAIN m = 0 .. PageSize - 1 /\ \A o \in 0 .. PageSize - 1 : m[o] \in Bytes
  BY DEF MemRam
<1>3. \A o : here(o) # {} => one(o) \in here(o)
  OBVIOUS
<1>4. \A b \in S : b \in Nat /\ a <= b /\ b < a + n /\ b - a + 1 \in 1 .. n
  BY <1>0 DEF Mem!Span
<1>5. \A o : here(o) # {} => val[one(o) - a + 1] \in Bytes
  <2> SUFFICES ASSUME NEW o, here(o) # {} PROVE val[one(o) - a + 1] \in Bytes
    OBVIOUS
  <2>1. one(o) \in S
    BY <1>3
  <2>2. one(o) - a + 1 \in 1 .. n
    BY <1>4, <2>1
  <2> HIDE DEF one
  <2> QED BY <2>2
<1> HIDE DEF here, one, after
<1>6. after \in MemRam
  BY <1>1, <1>2, <1>5 DEF MemRam
<1>7. ASSUME NEW b \in S, Mem!Page(b).to = "ram"
      PROVE  after[Mem!Offset(b)] = val[b - a + 1]
  <2>1. b \in here(Mem!Offset(b))
    BY <1>7 DEF here
  <2>2. PICK c \in S : c = one(Mem!Offset(b)) /\ Mem!Offset(c) = Mem!Offset(b)
    BY <1>3, <2>1 DEF here
  <2>3. b \in Nat /\ c \in Nat /\ b < c + PageSize /\ c < b + PageSize
    BY <1>0, <1>4, PageNat
  <2>4. c = b
    BY <2>2, <2>3, OffsetsDiffer
  <2>5. Mem!Offset(b) \in 0 .. PageSize - 1
    BY <2>3, PageNat DEF Mem!Offset
  <2> QED BY <1>1, <1>2, <2>1, <2>2, <2>4, <2>5
<1>8. ASSUME NEW o \in DOMAIN m, after[o] # m[o]
      PROVE  \E b \in S : Mem!Page(b).to = "ram" /\ Mem!Offset(b) = o
  <2>1. here(o) # {}
    BY <1>1, <1>8
  <2> QED BY <2>1 DEF here
<1> QED BY <1>6, <1>7, <1>8 DEF after, StoresBytes

LEMMA WriteAccess ==
    ASSUME ram \in MemRam, NEW a \in Nat, NEW n \in AccessSizes,
           NEW val \in [1 .. n -> Bytes], Len(val) = n, NEW g
    PROVE  /\ MemAccess(Mem!Write(a, val, g), a, n, "Store")
           /\ Mem!Write(a, val, g).cause = "none" =>
                 Mem!Write(a, val, g).ram = Mem!Stored(ram, a, val, Mem!Span(a, n))
<1> DEFINE r == Mem!Write(a, val, g)
           denied == {b \in Mem!Span(a, n) : ~Mem!Takes(b, g)}
           all  == Mem!Stored(ram, a, val, Mem!Span(a, n))
           half == Mem!Stored(ram, a, val, a .. Mem!Least(denied) - 1)
<1>0. n \in Nat \ {0} /\ a \in Mem!Span(a, n) /\ "Store" \in MemTypes
  BY MemConstants, SpanNat DEF MemTypes
<1>a. r = IF a % n = 0
          THEN IF ~Mem!Translates(a, "Store") THEN Mem!Fault(Mem!PageFault("Store"), a)
               ELSE IF ~Mem!Takes(a, g) THEN Mem!Fault(Mem!AccessFault("Store"), a)
               ELSE Mem!Done(all, <<>>)
          ELSE IF Mem!Checked(a, n, "Store").cause # "none" THEN Mem!Checked(a, n, "Store")
          ELSE IF denied # {}
               THEN [Mem!Fault(Mem!AccessFault("Store"), a) EXCEPT !.ram = half]
          ELSE Mem!Done(all, <<>>)
  BY DEF Mem!Write
<1>b. all \in MemRam
  <2>1. StoresBytes(ram, a, val, Mem!Span(a, n))
    BY StoredBytes
  <2> QED BY <2>1 DEF StoresBytes
<1>c. denied \in SUBSET Nat
  BY <1>0, SpanNat
<1>d. denied # {} => half \in MemRam
  <2> SUFFICES ASSUME denied # {} PROVE half \in MemRam
    OBVIOUS
  <2>1. PICK l \in Mem!Span(a, n) : l = Mem!Least(denied)
    BY <1>c, LeastIs
  <2>2. a .. l - 1 \in SUBSET Mem!Span(a, n)
    BY <1>0 DEF Mem!Span
  <2>3. StoresBytes(ram, a, val, a .. l - 1)
    BY <2>2, StoredBytes
  <2> QED BY <2>1, <2>3 DEF StoresBytes
<1> HIDE DEF all, half, r
<1>1. ASSUME r = Mem!Fault(Mem!AccessFault("Store"), a)
             \/ (~Mem!Translates(a, "Store") /\ r = Mem!Fault(Mem!PageFault("Store"), a))
      PROVE  MemAccess(r, a, n, "Store") /\ r.cause # "none"
  <2>1. /\ MemAccess(Mem!Fault(Mem!AccessFault("Store"), a), a, n, "Store")
        /\ ~Mem!Translates(a, "Store") =>
              MemAccess(Mem!Fault(Mem!PageFault("Store"), a), a, n, "Store")
    BY <1>0, AccessFaults
  <2>2. /\ Mem!Fault(Mem!AccessFault("Store"), a).cause = Mem!AccessFault("Store")
        /\ Mem!Fault(Mem!PageFault("Store"), a).cause = Mem!PageFault("Store")
    BY DEF Mem!Fault
  <2>3. Mem!PageFault("Store") # "none" /\ Mem!AccessFault("Store") # "none"
    BY <1>0, CauseNames
  <2> QED BY <1>1, <2>1, <2>2, <2>3, Zenon
<1>2. ASSUME r = Mem!Done(all, <<>>), MemAllowed(a, n, "Store")
      PROVE  MemAccess(r, a, n, "Store") /\ r.ram = all
  <2>1. MemAccess(Mem!Done(all, <<>>), a, n, "Store")
    BY <1>0, <1>b, <1>2, AccessEnds
  <2>2. Mem!Done(all, <<>>).ram = all
    BY DEF Mem!Done
  <2> QED BY <1>2, <2>1, <2>2, Zenon
<1>3. CASE a % n = 0
  <2>1. CASE ~Mem!Translates(a, "Store") \/ ~Mem!Takes(a, g)
    <3>1. MemAccess(r, a, n, "Store") /\ r.cause # "none"
      BY <1>a, <1>1, <1>3, <2>1, Zenon
    <3> QED BY <3>1 DEF r
  <2>2. CASE Mem!Translates(a, "Store") /\ Mem!Takes(a, g)
    <3>1. r = Mem!Done(all, <<>>)
      BY <1>a, <1>3, <2>2
    <3>2. MemAllowed(a, n, "Store")
      BY <1>0, <1>3, <2>2, AlignedAllowed DEF Mem!Takes, Mem!AccessibleAt
    <3> QED BY <3>1, <3>2, <1>2 DEF r, all
  <2> QED BY <2>1, <2>2
<1>4. CASE a % n # 0
  <2>0. MemAccess(Mem!Checked(a, n, "Store"), a, n, "Store")
    BY <1>0, CheckedAccess
  <2>1. CASE Mem!Checked(a, n, "Store").cause # "none"
    <3>1. r = Mem!Checked(a, n, "Store")
      BY <1>a, <1>4, <2>1
    <3> QED BY <3>1, <2>0, <2>1 DEF r
  <2>2. CASE Mem!Checked(a, n, "Store").cause = "none" /\ denied # {}
    <3>1. r = [Mem!Fault(Mem!AccessFault("Store"), a) EXCEPT !.ram = half]
      BY <1>a, <1>4, <2>2
    <3>2. r.cause = Mem!AccessFault("Store") /\ r.tval = a /\ r.ram = half
      BY <3>1 DEF Mem!Fault
    <3>3. Mem!TouchesDevice(a, n)
      <4>1. PICK b \in Mem!Span(a, n) : ~Mem!Takes(b, g)
        BY <2>2
      <4>2. Mem!AccessibleAt(b)
        BY <2>0, <2>2 DEF MemAccess, MemAllowed
      <4> QED BY <4>1, <4>2 DEF Mem!Takes, Mem!AccessibleAt, Mem!TouchesDevice
    <3>4. Mem!AccessFault("Store") # "none" /\ Mem!AccessFault("Store") # Mem!PageFault("Store")
      BY <1>0, CauseNames
    <3>5. MemAccess(r, a, n, "Store")
      BY <1>0, <1>d, <2>2, <3>2, <3>3, <3>4, Zenon DEF MemAccess
    <3> QED BY <3>2, <3>4, <3>5 DEF r
  <2>3. CASE Mem!Checked(a, n, "Store").cause = "none" /\ denied = {}
    <3>1. r = Mem!Done(all, <<>>)
      BY <1>a, <1>4, <2>3
    <3>2. MemAllowed(a, n, "Store")
      BY <2>0, <2>3 DEF MemAccess
    <3> QED BY <3>1, <3>2, <1>2 DEF r, all
  <2> QED BY <2>1, <2>2, <2>3
<1> QED BY <1>3, <1>4

LEMMA ProbeAccess ==
    ASSUME ram \in MemRam, NEW a \in Nat, NEW n \in AccessSizes, a % n = 0
    PROVE  /\ MemAccess(Mem!ProbeStore(a), a, n, "Store")
           /\ Mem!ProbeStore(a).ram = ram
<1> DEFINE r == Mem!ProbeStore(a)
<1>0. n \in Nat \ {0} /\ a \in Mem!Span(a, n) /\ "Store" \in MemTypes
  BY MemConstants, SpanNat DEF MemTypes
<1>1. r.ram = ram
  BY DEF Mem!ProbeStore, Mem!Fault, Mem!Done
<1>2. CASE ~Mem!Translates(a, "Store") \/ ~Mem!AccessibleAt(a)
  <2>1. /\ MemAccess(Mem!Fault(Mem!AccessFault("Store"), a), a, n, "Store")
        /\ ~Mem!Translates(a, "Store") =>
              MemAccess(Mem!Fault(Mem!PageFault("Store"), a), a, n, "Store")
    BY <1>0, AccessFaults
  <2> QED BY <1>1, <1>2, <2>1, Zenon DEF Mem!ProbeStore
<1>3. CASE Mem!Translates(a, "Store") /\ Mem!AccessibleAt(a)
  <2>1. MemAllowed(a, n, "Store")
    BY <1>0, <1>3, AlignedAllowed
  <2>2. MemAccess(Mem!Done(ram, <<>>), a, n, "Store")
    BY <1>0, <2>1, AccessEnds
  <2> QED BY <1>1, <1>3, <2>2, Zenon DEF Mem!ProbeStore
<1> QED BY <1>2, <1>3

\* Half an instruction starts in either half of a page.
LEMMA HalvesOfPage ==
    ASSUME NEW a \in Nat, Mem!Offset(a) % Mem!Half = 0
    PROVE  Mem!Offset(a) \in {0, Mem!Half}
<1>0. Mem!Half \in Nat \ {0} /\ PageSize = 2 * Mem!Half
  BY MemConstants
<1>1. PICK o \in Nat : o = Mem!Offset(a) /\ o < PageSize
  BY PageNat DEF Mem!Offset
<1>2. PICK h \in Nat \ {0} : h = Mem!Half
  BY <1>0
<1>3. PICK k \in Nat : k = o \div h
  BY SplitOf
<1>4. o = h * k + 0
  BY <1>1, <1>2, <1>3, SplitOf
<1>5. k < 2
  <2> SUFFICES ASSUME 1 < k PROVE FALSE
    OBVIOUS
  <2>1. h * 1 + h <= h * k
    BY TimesLess
  <2>2. PICK z \in Nat : z = h * k
    OBVIOUS
  <2>3. o = z /\ h + h <= z
    BY ONLY <1>4, <2>1, <2>2, h \in Nat, k \in Nat, o \in Nat
  <2> QED BY ONLY <2>3, <1>0, <1>1, <1>2
<1>6. CASE k = 0
  BY <1>1, <1>4, <1>6
<1>7. CASE k = 1
  BY <1>1, <1>2, <1>4, <1>7
<1> QED BY <1>5, <1>6, <1>7

LEMMA NextPage ==
    ASSUME NEW a \in Nat, Mem!Offset(a) = Mem!Half
    PROVE  Mem!Offset(a + Mem!Half) = 0
<1>0. Mem!Half \in Nat \ {0} /\ PageSize = 2 * Mem!Half
  BY MemConstants
<1>1. PICK q \in Nat : q = a \div PageSize
  BY PageNat, SplitOf
<1>2. a = PageSize * q + Mem!Half
  BY <1>1, PageNat, SplitOf DEF Mem!Offset
<1>3. PICK k \in Nat : k = q + 1
  OBVIOUS
<1>4. PageSize * k = PageSize * q + PageSize
  BY <1>3, PageNat
<1>5. PICK u \in Nat : u = PageSize * q
  BY PageNat
<1>6. PICK x \in Nat : x = a + Mem!Half
  BY <1>0
<1>7. x = u + PageSize
  BY <1>0, <1>2, <1>5, <1>6
<1>8. PICK z \in 0 .. PageSize - 1 : z = 0
  BY PageNat
<1>9. Splits(x, PageSize, k, z)
  BY <1>4, <1>5, <1>7, <1>8, PageNat DEF Splits
<1>10. x % PageSize = 0
  BY <1>8, <1>9, SplitUnique, PageNat
<1> QED BY <1>6, <1>10 DEF Mem!Offset

\* From a to the end of its page what holds of a holds of every byte.
LEMMA SamePage ==
    ASSUME NEW type \in MemTypes, NEW a \in Nat, NEW b \in Nat, a <= b,
           Mem!Offset(a) + (b - a) < PageSize,
           Mem!Translates(a, type), Mem!AccessibleAt(a)
    PROVE  Mem!Translates(b, type) /\ Mem!AccessibleAt(b)
<1>1. PICK j \in Nat : b = a + j /\ j = b - a
  OBVIOUS
<1>2. b \div PageSize = a \div PageSize
  BY <1>1, InPage
<1> QED BY <1>2 DEF Mem!Translates, Mem!AccessibleAt, Mem!Page

FetchLength(a) == IF Mem!IsCompressed(Mem!ByteAt(ram, a)) THEN Mem!Half ELSE 2 * Mem!Half

LEMMA FetchAccess ==
    ASSUME ram \in MemRam, NEW a \in Nat, Mem!Offset(a) % Mem!Half = 0, NEW g
    PROVE  /\ MemAccess(Mem!Ifetch(a, g), a, FetchLength(a), "Fetch")
           /\ Mem!Ifetch(a, g).ram = ram
           /\ Mem!Ifetch(a, g).cause = "none" =>
                 Mem!Ifetch(a, g).val = Mem!BytesAt(a, FetchLength(a))
           /\ Mem!Ifetch(a, g).cause # "none" =>
                 Mem!Ifetch(a, g).tval = a \/ ~Mem!IsCompressed(Mem!ByteAt(ram, a))
<1> DEFINE try(h) == IF ~Mem!Translates(h, "Fetch") THEN Mem!Fault(Mem!PageFault("Fetch"), h)
                       ELSE IF ~Mem!Takes(h, g) THEN Mem!Fault(Mem!AccessFault("Fetch"), h)
                       ELSE Mem!Done(ram, <<>>)
           n == FetchLength(a)
           r == Mem!Ifetch(a, g)
           short == Mem!IsCompressed(Mem!ByteAt(ram, a))
           H == Mem!Half
<1>0. H \in Nat \ {0} /\ PageSize = 2 * H /\ "Fetch" \in MemTypes
  BY MemConstants DEF MemTypes
<1>1. n \in Nat \ {0} /\ n = (IF short THEN H ELSE 2 * H) /\ a \in Mem!Span(a, n)
  BY <1>0 DEF FetchLength, Mem!Span
<1>2. Mem!Offset(a) \in {0, H}
  BY HalvesOfPage
<1>3. r = IF try(a).cause # "none" THEN try(a)
          ELSE IF short THEN Mem!Done(ram, Mem!BytesAt(a, H))
          ELSE IF Mem!MayCrossPage(a) /\ try(a + H).cause # "none" THEN try(a + H)
          ELSE Mem!Done(ram, Mem!BytesAt(a, 2 * H))
  BY DEF Mem!Ifetch
<1>4. \A h : try(h).cause = "none" <=> Mem!Translates(h, "Fetch") /\ Mem!Takes(h, g)
  BY <1>0, CauseNames DEF Mem!Fault, Mem!Done
<1>5. ASSUME NEW h \in Mem!Span(a, n), try(h).cause # "none"
      PROVE  MemAccess(try(h), a, n, "Fetch") /\ try(h).ram = ram /\ try(h).tval = h
  <2>1. /\ MemAccess(Mem!Fault(Mem!AccessFault("Fetch"), h), a, n, "Fetch")
        /\ ~Mem!Translates(h, "Fetch") =>
              MemAccess(Mem!Fault(Mem!PageFault("Fetch"), h), a, n, "Fetch")
    BY <1>0, AccessFaults
  <2>2. /\ Mem!Fault(Mem!AccessFault("Fetch"), h).ram = ram
        /\ Mem!Fault(Mem!AccessFault("Fetch"), h).tval = h
        /\ Mem!Fault(Mem!PageFault("Fetch"), h).ram = ram
        /\ Mem!Fault(Mem!PageFault("Fetch"), h).tval = h
    BY DEF Mem!Fault
  <2> QED BY <1>4, <1>5, <2>1, <2>2, Zenon
<1>6. \A h : Mem!Takes(h, g) => Mem!AccessibleAt(h)
  BY DEF Mem!Takes, Mem!AccessibleAt
<1>7. ASSUME MemAllowed(a, n, "Fetch"), r = Mem!Done(ram, Mem!BytesAt(a, n))
      PROVE  /\ MemAccess(r, a, n, "Fetch") /\ r.ram = ram /\ r.cause = "none"
             /\ r.val = Mem!BytesAt(a, n)
  <2>1. MemAccess(Mem!Done(ram, Mem!BytesAt(a, n)), a, n, "Fetch")
    BY <1>0, <1>7, AccessEnds
  <2>2. LET d == Mem!Done(ram, Mem!BytesAt(a, n))
        IN  d.ram = ram /\ d.cause = "none" /\ d.val = Mem!BytesAt(a, n)
    BY DEF Mem!Done
  <2> HIDE DEF r, n
  <2> QED BY <1>7, <2>1, <2>2, Zenon
<1> HIDE DEF try, n, r, short, H
<1>8. CASE try(a).cause # "none"
  <2>1. r = try(a)
    BY <1>3, <1>8, Zenon
  <2> QED BY <1>1, <1>5, <1>8, <2>1, Zenon DEF n, r
<1>9. CASE try(a).cause = "none" /\ short
  <2>1. n = H /\ r = Mem!Done(ram, Mem!BytesAt(a, n))
    BY <1>1, <1>3, <1>9, Zenon
  <2>2. MemAllowed(a, n, "Fetch")
    <3> SUFFICES ASSUME NEW b \in Mem!Span(a, n)
                 PROVE  Mem!Translates(b, "Fetch") /\ Mem!AccessibleAt(b)
      BY DEF MemAllowed
    <3>1. b \in Nat /\ a <= b /\ Mem!Offset(a) + (b - a) < PageSize
      BY <1>0, <1>1, <1>2, <2>1 DEF Mem!Span
    <3> QED BY <1>0, <1>4, <1>6, <1>9, <3>1, SamePage
  <2> QED BY <1>7, <2>1, <2>2, Zenon DEF n, r
<1>10. CASE try(a).cause = "none" /\ ~short /\ Mem!MayCrossPage(a) /\ try(a + H).cause # "none"
  <2>1. r = try(a + H)
    BY <1>3, <1>10, Zenon
  <2>2. a + H \in Mem!Span(a, n)
    BY <1>0, <1>1, <1>10 DEF Mem!Span
  <2> QED BY <1>5, <1>10, <2>1, <2>2, Zenon DEF n, r, short
<1>11. CASE /\ try(a).cause = "none" /\ ~short
            /\ ~(Mem!MayCrossPage(a) /\ try(a + H).cause # "none")
  <2>1. n = 2 * H /\ r = Mem!Done(ram, Mem!BytesAt(a, n))
    BY <1>1, <1>3, <1>11, Zenon
  <2>2. MemAllowed(a, n, "Fetch")
    <3> SUFFICES ASSUME NEW b \in Mem!Span(a, n)
                 PROVE  Mem!Translates(b, "Fetch") /\ Mem!AccessibleAt(b)
      BY DEF MemAllowed
    <3>1. b \in Nat /\ a <= b /\ b < a + 2 * H
      BY <1>0, <2>1 DEF Mem!Span
    <3>2. CASE Mem!Offset(a) + (b - a) < PageSize
      BY <1>0, <1>4, <1>6, <1>11, <3>1, <3>2, SamePage
    <3>3. CASE ~(Mem!Offset(a) + (b - a) < PageSize)
      <4>1. Mem!Offset(a) = H /\ a + H <= b
        BY <1>0, <1>2, <3>1, <3>3
      <4>2. Mem!MayCrossPage(a)
        BY <1>0, <4>1 DEF Mem!MayCrossPage, H
      <4>3. Mem!Offset(a + H) = 0
        BY <4>1, NextPage DEF H
      <4>4. PICK c \in Nat : c = a + H
        BY <1>0
      <4>5. Mem!Translates(c, "Fetch") /\ Mem!AccessibleAt(c)
        BY <1>4, <1>6, <1>11, <4>2, <4>4
      <4>6. c <= b /\ Mem!Offset(c) + (b - c) < PageSize
        BY <1>0, <3>1, <4>1, <4>3, <4>4
      <4> QED BY <1>0, <3>1, <4>5, <4>6, SamePage
    <3> QED BY <3>2, <3>3
  <2> QED BY <1>7, <2>1, <2>2, Zenon DEF n, r
<1> QED BY <1>8, <1>9, <1>10, <1>11, Zenon

MemInv ==
    /\ Mem!TypeOK /\ Mem!FaultsAreNamed /\ Mem!AllowedThroughout
    /\ lr = reservation

\* The action properties, without the box.
PlacedStep ==
    /\ access'.op \in {"load", "lr", "fetch"} /\ access'.cause = "none" =>
          /\ Len(access'.val) = IF access'.op = "fetch"
                                   /\ Mem!IsCompressed(Mem!ByteAt(ram, access'.a))
                                THEN Mem!Half ELSE access'.n
          /\ \A i \in DOMAIN access'.val :
                access'.val[i] = Mem!ByteAt(ram, access'.a + i - 1)
    /\ /\ access'.op \in {"store", "amo"} \/ (access'.op = "sc" /\ access'.rd = 0)
       /\ access'.cause = "none"
       => /\ \A i \in 1 .. access'.n :
                Mem!Page(access'.a + i - 1).to = "ram"
                   => Mem!ByteAt(ram', access'.a + i - 1) = access'.val[i]
          /\ \A o \in DOMAIN ram :
                ram'[o] # ram[o] =>
                   \E b \in Mem!Span(access'.a, access'.n) :
                      Mem!Page(b).to = "ram" /\ Mem!Offset(b) = o
CleanStep ==
    access'.cause # "none" /\ ~Mem!TouchesDevice(access'.a, access'.n) => ram' = ram
CompressedStep ==
    access'.op = "fetch" /\ access'.cause # "none" /\ Mem!MayCrossPage(access'.a) =>
       access'.tval = access'.a \/ ~Mem!IsCompressed(Mem!ByteAt(ram, access'.a))
ScStep ==
    access'.op = "sc" => /\ access'.rd = 0 => lr = access'.a
                         /\ access'.rd = 1 => ram' = ram

\* What is left to show of an instruction whose access went as it should.
LEMMA MemEnds ==
    ASSUME NEW op \in {"load", "lr", "fetch", "store", "sc", "amo"},
           NEW a \in Nat, NEW n \in Nat, NEW k \in Nat, k <= n, NEW r, NEW val, NEW rd,
           Mem!Ends(op, a, n, r, val, rd),
           MemAccess(r, a, k, Mem!TypeOf(op)), r.cause = "none" => Len(val) = k
    PROVE  /\ access'.op = op /\ access'.a = a /\ access'.n = n /\ access'.rd = rd
           /\ access'.cause = r.cause /\ access'.tval = r.tval /\ ram' = r.ram
           /\ r.cause = "none" => access'.val = val
           /\ ram' \in MemRam
           /\ access'.cause \in {"none"} \cup {Mem!PageFault(t) : t \in MemTypes}
                                \cup {Mem!AccessFault(t) : t \in MemTypes}
           /\ Mem!FaultsAreNamed' /\ Mem!AllowedThroughout' /\ CleanStep
<1> DEFINE type == Mem!TypeOf(op)
<1>1. /\ access'.op = op /\ access'.a = a /\ access'.n = n /\ access'.rd = rd
      /\ access'.cause = r.cause /\ access'.tval = r.tval /\ ram' = r.ram /\ map' = map
      /\ r.cause = "none" => access'.val = val
  BY DEF Mem!Ends
<1>2. type \in MemTypes
  BY DEF Mem!TypeOf, MemTypes
<1>3. Mem!Span(a, k) \subseteq Mem!Span(a, n)
  BY DEF Mem!Span
<1>4. Mem!TypeOf(access.op)' = type
  BY <1>1 DEF Mem!TypeOf
<1>5. \A b, t : Mem!Translates(b, t)' = Mem!Translates(b, t) /\ Mem!AccessibleAt(b)' = Mem!AccessibleAt(b)
  BY <1>1 DEF Mem!Translates, Mem!AccessibleAt, Mem!Page
<1>6. MemAccess(r, a, k, type)
  OBVIOUS
<1> HIDE DEF type
<1>7. ram' \in MemRam
  BY <1>1, <1>6 DEF MemAccess
<1>8. access'.cause \in {"none"} \cup {Mem!PageFault(t) : t \in MemTypes}
                                 \cup {Mem!AccessFault(t) : t \in MemTypes}
  BY <1>1, <1>2, <1>6, Zenon DEF MemAccess
<1>9. Mem!FaultsAreNamed'
  BY <1>1, <1>3, <1>4, <1>5, <1>6 DEF Mem!FaultsAreNamed, MemAccess
<1>10. Mem!AllowedThroughout'
  BY <1>1, <1>4, <1>5, <1>6 DEF Mem!AllowedThroughout, MemAccess, MemAllowed
<1>11. CleanStep
  BY <1>1, <1>3, <1>6 DEF CleanStep, MemAccess, Mem!TouchesDevice
<1> QED BY <1>1, <1>7, <1>8, <1>9, <1>10, <1>11

LEMMA ReadPlaced ==
    ASSUME NEW a \in Nat, NEW n \in Nat
    PROVE  /\ Len(Mem!BytesAt(a, n)) = n
           /\ \A i \in DOMAIN Mem!BytesAt(a, n) :
                 Mem!BytesAt(a, n)[i] = Mem!ByteAt(ram, a + i - 1)
BY DEF Mem!BytesAt

LEMMA StorePlaced ==
    ASSUME ram \in MemRam, NEW a \in Nat, NEW n \in AccessSizes,
           NEW val \in [1 .. n -> Bytes], UNCHANGED map,
           ram' = Mem!Stored(ram, a, val, Mem!Span(a, n))
    PROVE  /\ \A i \in 1 .. n : Mem!Page(a + i - 1).to = "ram"
                 => Mem!ByteAt(ram', a + i - 1) = val[i]
           /\ \A o \in DOMAIN ram : ram'[o] # ram[o] =>
                 \E b \in Mem!Span(a, n) : Mem!Page(b).to = "ram" /\ Mem!Offset(b) = o
<1>0. n \in Nat \ {0}
  BY MemConstants
<1>1. /\ \A b \in Mem!Span(a, n) : Mem!Page(b).to = "ram" =>
            ram'[Mem!Offset(b)] = val[b - a + 1]
      /\ \A o \in DOMAIN ram : ram'[o] # ram[o] =>
            \E b \in Mem!Span(a, n) : Mem!Page(b).to = "ram" /\ Mem!Offset(b) = o
  <2>1. StoresBytes(ram, a, val, Mem!Span(a, n))
    BY StoredBytes
  <2> QED BY <2>1, Zenon DEF StoresBytes
<1>2. ASSUME NEW i \in 1 .. n, Mem!Page(a + i - 1).to = "ram"
      PROVE  Mem!ByteAt(ram', a + i - 1) = val[i]
  <2>1. PICK b \in Mem!Span(a, n) : b = a + i - 1 /\ b - a + 1 = i
    BY <1>0 DEF Mem!Span
  <2> QED BY <1>1, <1>2, <2>1 DEF Mem!ByteAt
<1> QED BY <1>1, <1>2

MemSteps == PlacedStep /\ CleanStep /\ CompressedStep /\ ScStep

LEMMA MemExecutes ==
    ASSUME MemInv, Mem!Execute
    PROVE  MemInv' /\ MemSteps
<1> USE DEF MemSteps
<1>1. PICK a \in Mem!Vaddrs, n \in AccessSizes, g \in Mem!Grants :
         \/ Mem!Load(a, n, g)
         \/ Mem!LoadReserved(a, n, g)
         \/ n = PageSize /\ Mem!Offset(a) % Mem!Half = 0 /\ Mem!Fetch(a, g)
         \/ \E val \in Mem!Patterns(n) :
               \/ Mem!Store(a, val, g)
               \/ Mem!StoreConditional(a, val, g)
               \/ \E h \in Mem!Grants : Mem!Amo(a, val, g, h)
  BY DEF Mem!Execute
<1>2. /\ ram \in MemRam /\ reservation \in {-1} \cup Mem!Vaddrs /\ lr = reservation
  BY DEF MemInv, Mem!TypeOK, MemRam
<1>3. a \in Nat /\ n \in Nat \ {0}
  BY MemConstants DEF Mem!Vaddrs
<1>4. /\ \A op \in {"load", "lr"} : Mem!TypeOf(op) = "Load"
      /\ \A op \in {"store", "sc", "amo"} : Mem!TypeOf(op) = "Store"
      /\ Mem!TypeOf("fetch") = "Fetch"
      /\ "Load" \in MemTypes /\ "Store" \in MemTypes /\ "Fetch" \in MemTypes
  BY DEF Mem!TypeOf, MemTypes
<1>5. ASSUME ram' \in MemRam, reservation' \in {-1} \cup Mem!Vaddrs, lr' = reservation',
             access'.cause \in {"none"} \cup {Mem!PageFault(t) : t \in MemTypes}
                               \cup {Mem!AccessFault(t) : t \in MemTypes},
             Mem!FaultsAreNamed', Mem!AllowedThroughout'
      PROVE  MemInv'
  BY <1>5 DEF MemInv, Mem!TypeOK, MemRam, MemTypes
\* The faults of a misaligned LR, SC or AMO.
<1>6. ASSUME NEW type \in MemTypes, NEW r, MemAccess(r, a, n, type) \/ a % n # 0
      PROVE  /\ MemAccess(Mem!Aligned(a, n, type, r), a, n, type)
             /\ Mem!Aligned(a, n, type, r).cause = "none" => Mem!Aligned(a, n, type, r) = r
             /\ r.ram = ram => Mem!Aligned(a, n, type, r).ram = ram
             /\ a % n = 0 => Mem!Aligned(a, n, type, r) = r
             /\ Mem!Aligned(a, n, type, r).cause = "none" => a % n = 0
  <2>1. a \in Mem!Span(a, n)
    BY <1>3, SpanNat
  <2>2. MemAccess(Mem!Fault(Mem!AccessFault(type), a), a, n, type)
    BY <1>2, <2>1, AccessFaults
  <2>3. /\ Mem!Fault(Mem!AccessFault(type), a).ram = ram
        /\ Mem!Fault(Mem!AccessFault(type), a).cause # "none"
    BY CauseNames DEF Mem!Fault
  <2> QED BY <1>6, <2>2, <2>3, Zenon DEF Mem!Aligned
<1>7. CASE Mem!Load(a, n, g)
  <2> DEFINE r == Mem!Read(a, n, "Load", g)
  <2>1. /\ MemAccess(r, a, n, Mem!TypeOf("load"))
        /\ r.cause = "none" => r.val = Mem!BytesAt(a, n)
    BY <1>2, <1>3, <1>4, ReadAccess
  <2>2. Mem!Ends("load", a, n, r, r.val, -1) /\ UNCHANGED <<reservation, lr>>
    BY <1>7 DEF Mem!Load
  <2>3. /\ Len(Mem!BytesAt(a, n)) = n
        /\ \A i \in DOMAIN Mem!BytesAt(a, n) :
              Mem!BytesAt(a, n)[i] = Mem!ByteAt(ram, a + i - 1)
    BY <1>3, ReadPlaced
  <2> HIDE DEF r
  <2>4. r.cause = "none" => Len(r.val) = n
    BY <2>1, <2>3
  <2>5. /\ access'.op = "load" /\ access'.a = a /\ access'.n = n
        /\ access'.cause = r.cause /\ (r.cause = "none" => access'.val = r.val)
        /\ ram' \in MemRam
        /\ access'.cause \in {"none"} \cup {Mem!PageFault(t) : t \in MemTypes}
                             \cup {Mem!AccessFault(t) : t \in MemTypes}
        /\ Mem!FaultsAreNamed' /\ Mem!AllowedThroughout' /\ CleanStep
    BY <1>3, <2>1, <2>2, <2>4, MemEnds
  <2>6. MemInv'
    BY <1>2, <1>5, <2>2, <2>5
  <2>7. PlacedStep /\ CompressedStep /\ ScStep
    BY <2>1, <2>3, <2>5 DEF PlacedStep, CompressedStep, ScStep
  <2> QED BY <2>5, <2>6, <2>7
<1>8. CASE Mem!LoadReserved(a, n, g)
  <2> DEFINE read == Mem!Read(a, n, "Load", g)
             r == Mem!Aligned(a, n, "Load", read)
  <2>1. MemAccess(read, a, n, "Load") /\ (read.cause = "none" => read.val = Mem!BytesAt(a, n))
    BY <1>2, <1>3, <1>4, ReadAccess
  <2>2. /\ MemAccess(r, a, n, Mem!TypeOf("lr"))
        /\ r.cause = "none" => r.val = Mem!BytesAt(a, n)
    BY <1>4, <1>6, <2>1
  <2>3. /\ Mem!Ends("lr", a, n, r, r.val, -1)
        /\ reservation' = IF r.cause = "none" THEN a ELSE reservation
        /\ lr' = IF r.cause = "none" THEN a ELSE lr
    BY <1>8 DEF Mem!LoadReserved
  <2>4. /\ Len(Mem!BytesAt(a, n)) = n
        /\ \A i \in DOMAIN Mem!BytesAt(a, n) :
              Mem!BytesAt(a, n)[i] = Mem!ByteAt(ram, a + i - 1)
    BY <1>3, ReadPlaced
  <2> HIDE DEF r
  <2>5. r.cause = "none" => Len(r.val) = n
    BY <2>2, <2>4
  <2>6. /\ access'.op = "lr" /\ access'.a = a /\ access'.n = n
        /\ access'.cause = r.cause /\ (r.cause = "none" => access'.val = r.val)
        /\ ram' \in MemRam
        /\ access'.cause \in {"none"} \cup {Mem!PageFault(t) : t \in MemTypes}
                             \cup {Mem!AccessFault(t) : t \in MemTypes}
        /\ Mem!FaultsAreNamed' /\ Mem!AllowedThroughout' /\ CleanStep
    BY <1>3, <2>2, <2>3, <2>5, MemEnds
  <2>7. MemInv'
    BY <1>2, <1>5, <2>3, <2>6
  <2>8. PlacedStep /\ CompressedStep /\ ScStep
    BY <2>2, <2>4, <2>6 DEF PlacedStep, CompressedStep, ScStep
  <2> QED BY <2>6, <2>7, <2>8
<1>9. CASE n = PageSize /\ Mem!Offset(a) % Mem!Half = 0 /\ Mem!Fetch(a, g)
  <2> DEFINE r == Mem!Ifetch(a, g)
             k == FetchLength(a)
             m == 2 * Mem!Half
  <2>1. /\ MemAccess(r, a, k, Mem!TypeOf("fetch"))
        /\ r.cause = "none" => r.val = Mem!BytesAt(a, k)
        /\ r.cause # "none" => r.tval = a \/ ~Mem!IsCompressed(Mem!ByteAt(ram, a))
    BY <1>2, <1>3, <1>4, <1>9, FetchAccess
  <2>2. Mem!Ends("fetch", a, m, r, r.val, -1) /\ UNCHANGED <<reservation, lr>>
    BY <1>9 DEF Mem!Fetch
  <2>3. k \in Nat /\ m \in Nat /\ k <= m
    BY MemConstants DEF FetchLength
  <2>4. /\ Len(Mem!BytesAt(a, k)) = k
        /\ \A i \in DOMAIN Mem!BytesAt(a, k) :
              Mem!BytesAt(a, k)[i] = Mem!ByteAt(ram, a + i - 1)
    BY <1>3, <2>3, ReadPlaced
  <2>5. k = IF Mem!IsCompressed(Mem!ByteAt(ram, a)) THEN Mem!Half ELSE m
    BY DEF FetchLength
  <2> HIDE DEF r, k, m
  <2>6. r.cause = "none" => Len(r.val) = k
    BY <2>1, <2>4
  <2>7. /\ access'.op = "fetch" /\ access'.a = a /\ access'.n = m /\ access'.tval = r.tval
        /\ access'.cause = r.cause /\ (r.cause = "none" => access'.val = r.val)
        /\ ram' \in MemRam
        /\ access'.cause \in {"none"} \cup {Mem!PageFault(t) : t \in MemTypes}
                             \cup {Mem!AccessFault(t) : t \in MemTypes}
        /\ Mem!FaultsAreNamed' /\ Mem!AllowedThroughout' /\ CleanStep
    BY <1>3, <2>1, <2>2, <2>3, <2>6, MemEnds
  <2>8. MemInv'
    BY <1>2, <1>5, <2>2, <2>7
  <2>9. PlacedStep
    BY <2>1, <2>4, <2>5, <2>6, <2>7 DEF PlacedStep
  <2>10. CompressedStep /\ ScStep
    BY <2>1, <2>7 DEF CompressedStep, ScStep
  <2> QED BY <2>7, <2>8, <2>9, <2>10
<1>10. ASSUME NEW val \in Mem!Patterns(n), Mem!Store(a, val, g)
       PROVE  MemInv' /\ MemSteps
  <2> DEFINE r == Mem!Write(a, val, g)
  <2>1. val \in [1 .. n -> Bytes] /\ Len(val) = n
    BY PatternIs
  <2>2. /\ MemAccess(r, a, n, Mem!TypeOf("store"))
        /\ r.cause = "none" => r.ram = Mem!Stored(ram, a, val, Mem!Span(a, n))
    BY <1>2, <1>3, <1>4, <2>1, WriteAccess
  <2>3. Mem!Ends("store", a, n, r, val, -1) /\ UNCHANGED <<reservation, lr>>
    BY <1>10, <2>1 DEF Mem!Store
  <2> HIDE DEF r
  <2>4. /\ access'.op = "store" /\ access'.a = a /\ access'.n = n /\ ram' = r.ram
        /\ access'.cause = r.cause /\ (r.cause = "none" => access'.val = val)
        /\ ram' \in MemRam
        /\ access'.cause \in {"none"} \cup {Mem!PageFault(t) : t \in MemTypes}
                             \cup {Mem!AccessFault(t) : t \in MemTypes}
        /\ Mem!FaultsAreNamed' /\ Mem!AllowedThroughout' /\ CleanStep
    BY <1>3, <2>1, <2>2, <2>3, MemEnds
  <2>5. MemInv'
    BY <1>2, <1>5, <2>3, <2>4
  <2>6. UNCHANGED map
    BY <2>3 DEF Mem!Ends
  <2>7. PlacedStep
    BY <1>2, <1>3, <2>1, <2>2, <2>4, <2>6, StorePlaced DEF PlacedStep
  <2>8. CompressedStep /\ ScStep
    BY <2>4 DEF CompressedStep, ScStep
  <2> QED BY <2>4, <2>5, <2>7, <2>8
<1>11. ASSUME NEW val \in Mem!Patterns(n), Mem!StoreConditional(a, val, g)
       PROVE  MemInv' /\ MemSteps
  <2> DEFINE probe == Mem!Aligned(a, n, "Store", Mem!ProbeStore(a))
             wr == Mem!Write(a, val, g)
             mine == reservation = a
             r == IF probe.cause = "none" /\ mine THEN wr ELSE probe
             rd == IF r.cause # "none" THEN -1 ELSE IF mine THEN 0 ELSE 1
  <2>1. val \in [1 .. n -> Bytes] /\ Len(val) = n
    BY PatternIs
  <2>2. /\ MemAccess(wr, a, n, "Store")
        /\ wr.cause = "none" => wr.ram = Mem!Stored(ram, a, val, Mem!Span(a, n))
    BY <1>2, <1>3, <1>4, <2>1, WriteAccess
  <2>3. MemAccess(probe, a, n, "Store") /\ probe.ram = ram
    <3>1. Mem!ProbeStore(a).ram = ram
      BY DEF Mem!ProbeStore, Mem!Fault, Mem!Done
    <3>2. a % n = 0 => MemAccess(Mem!ProbeStore(a), a, n, "Store")
      BY <1>2, <1>3, ProbeAccess
    <3> QED BY <1>4, <1>6, <3>1, <3>2
  <2>4. /\ Mem!Ends("sc", a, n, r, val, rd)
        /\ reservation' = IF r.cause = "none" THEN -1 ELSE reservation
        /\ lr' = IF r.cause = "none" THEN -1 ELSE lr
    BY <1>11, <2>1 DEF Mem!StoreConditional
  <2>a. /\ rd = 0 => mine /\ r.cause = "none" /\ r = wr
        /\ rd = 1 => r = probe
    OBVIOUS
  <2> HIDE DEF probe, wr, mine, rd
  <2>5. MemAccess(r, a, n, Mem!TypeOf("sc"))
    BY <1>4, <2>2, <2>3, Zenon
  <2> HIDE DEF r
  <2>6. /\ access'.op = "sc" /\ access'.a = a /\ access'.n = n /\ ram' = r.ram
        /\ access'.rd = rd
        /\ access'.cause = r.cause /\ (r.cause = "none" => access'.val = val)
        /\ ram' \in MemRam
        /\ access'.cause \in {"none"} \cup {Mem!PageFault(t) : t \in MemTypes}
                             \cup {Mem!AccessFault(t) : t \in MemTypes}
        /\ Mem!FaultsAreNamed' /\ Mem!AllowedThroughout' /\ CleanStep
    BY <1>3, <2>1, <2>4, <2>5, MemEnds
  <2>7. MemInv'
    BY <1>2, <1>5, <2>4, <2>6
  <2>8. UNCHANGED map
    BY <2>4 DEF Mem!Ends
  <2>9. ScStep
    BY <1>2, <2>3, <2>6, <2>a DEF ScStep, mine
  <2>10. PlacedStep
    <3>1. CASE rd = 0
      <4>1. ram' = Mem!Stored(ram, a, val, Mem!Span(a, n))
        BY <2>2, <2>6, <2>a, <3>1
      <4> QED BY <1>2, <1>3, <2>1, <2>6, <2>8, <2>a, <3>1, <4>1, StorePlaced DEF PlacedStep
    <3>2. CASE rd # 0
      BY <2>6, <3>2 DEF PlacedStep
    <3> QED BY <3>1, <3>2
  <2>11. CompressedStep
    BY <2>6 DEF CompressedStep
  <2> QED BY <2>6, <2>7, <2>9, <2>10, <2>11
<1>12. ASSUME NEW val \in Mem!Patterns(n), NEW h \in Mem!Grants, Mem!Amo(a, val, g, h)
       PROVE  MemInv' /\ MemSteps
  <2> DEFINE read == Mem!Read(a, n, "Store", g)
             r == Mem!Aligned(a, n, "Store", read)
             wr == Mem!Write(a, val, h)
             w == IF r.cause = "none" THEN wr ELSE r
  <2>1. val \in [1 .. n -> Bytes] /\ Len(val) = n
    BY PatternIs
  <2>2. /\ MemAccess(wr, a, n, "Store")
        /\ wr.cause = "none" => wr.ram = Mem!Stored(ram, a, val, Mem!Span(a, n))
    BY <1>2, <1>3, <1>4, <2>1, WriteAccess
  <2>3. MemAccess(read, a, n, "Store")
    BY <1>2, <1>3, <1>4, ReadAccess
  <2>4. MemAccess(r, a, n, "Store")
    BY <1>4, <1>6, <2>3
  <2>5. Mem!Ends("amo", a, n, w, val, -1) /\ UNCHANGED <<reservation, lr>>
    BY <1>12, <2>1 DEF Mem!Amo
  <2> HIDE DEF r, wr
  <2>6. /\ MemAccess(w, a, n, Mem!TypeOf("amo"))
        /\ w.cause = "none" => w.ram = Mem!Stored(ram, a, val, Mem!Span(a, n))
    BY <1>4, <2>2, <2>4, Zenon
  <2> HIDE DEF w
  <2>7. /\ access'.op = "amo" /\ access'.a = a /\ access'.n = n /\ ram' = w.ram
        /\ access'.cause = w.cause /\ (w.cause = "none" => access'.val = val)
        /\ ram' \in MemRam
        /\ access'.cause \in {"none"} \cup {Mem!PageFault(t) : t \in MemTypes}
                             \cup {Mem!AccessFault(t) : t \in MemTypes}
        /\ Mem!FaultsAreNamed' /\ Mem!AllowedThroughout' /\ CleanStep
    BY <1>3, <2>1, <2>5, <2>6, MemEnds
  <2>8. MemInv'
    BY <1>2, <1>5, <2>5, <2>7
  <2>9. UNCHANGED map
    BY <2>5 DEF Mem!Ends
  <2>10. PlacedStep
    BY <1>2, <1>3, <2>1, <2>6, <2>7, <2>9, StorePlaced DEF PlacedStep
  <2>11. CompressedStep /\ ScStep
    BY <2>7 DEF CompressedStep, ScStep
  <2> QED BY <2>7, <2>8, <2>10, <2>11
<1> QED BY <1>1, <1>7, <1>8, <1>9, <1>10, <1>11, <1>12

\* A memory access reads or changes exactly its bytes, all of which it may use,
\* and one that faults changed nothing, for every size of page and access.
THEOREM AccessesHold == Spec => AccessesAreExact
<1> DEFINE Inv == part = "memory" => MemInv
<1>1. Init => Inv
  <2> SUFFICES ASSUME Mem!Init PROVE MemInv
    BY DEF Init
  <2>1. ram \in MemRam
    BY MemConstants DEF Mem!Init, MemRam
  <2>2. reservation = -1 /\ lr = -1 /\ access.op = "none" /\ access.cause = "none"
    BY DEF Mem!Init, Mem!Idle
  <2> QED BY <2>1, <2>2
          DEF MemInv, Mem!TypeOK, MemRam, Mem!FaultsAreNamed, Mem!AllowedThroughout
<1>2. Inv /\ [Next]_vars => Inv' /\ [MemSteps]_(Mem!vars)
  <2> SUFFICES ASSUME Inv, [Next]_vars PROVE Inv' /\ [MemSteps]_(Mem!vars)
    OBVIOUS
  <2>1. CASE UNCHANGED memVars /\ UNCHANGED part
    <3>1. UNCHANGED Mem!vars
      BY <2>1 DEF memVars, Mem!vars
    <3>2. MemInv' = MemInv
      BY <2>1 DEF memVars, MemInv, Mem!TypeOK, Mem!FaultsAreNamed, Mem!AllowedThroughout,
                  Mem!Translates, Mem!AccessibleAt, Mem!Page
    <3> QED BY <2>1, <3>1, <3>2
  <2>2. CASE part = "memory" /\ UNCHANGED part /\ Mem!Execute
    BY <2>2, MemExecutes
  <2>3. CASE part = "memory" /\ UNCHANGED part /\ Mem!Retire
    <3>1. /\ access' = Mem!Idle /\ UNCHANGED <<map, ram, reservation, lr>> /\ MemInv
      BY <2>3 DEF Mem!Retire
    <3>2. access'.op = "none" /\ access'.cause = "none"
      BY <3>1 DEF Mem!Idle
    <3>3. MemInv'
      BY <3>1, <3>2 DEF MemInv, Mem!TypeOK, Mem!FaultsAreNamed, Mem!AllowedThroughout
    <3>4. MemSteps
      BY <3>2 DEF MemSteps, PlacedStep, CleanStep, CompressedStep, ScStep
    <3> QED BY <3>3, <3>4
  <2> QED BY <2>1, <2>2, <2>3 DEF Next, vars, Mem!Next
<1>3. Inv => (part = "memory" => Mem!TypeOK /\ Mem!FaultsAreNamed /\ Mem!AllowedThroughout)
  BY DEF MemInv
<1>4. [MemSteps]_(Mem!vars) => /\ [PlacedStep]_(Mem!vars) /\ [CleanStep]_(Mem!vars)
                               /\ [CompressedStep]_(Mem!vars) /\ [ScStep]_(Mem!vars)
  BY DEF MemSteps
<1>5. Spec => [][MemSteps]_(Mem!vars)
  BY <1>1, <1>2, PTL DEF Spec
<1>6. Spec => [](part = "memory" => Mem!TypeOK /\ Mem!FaultsAreNamed /\ Mem!AllowedThroughout)
  BY <1>1, <1>2, <1>3, PTL DEF Spec
<1>7. Spec => [][PlacedStep]_(Mem!vars) /\ [][CleanStep]_(Mem!vars)
              /\ [][CompressedStep]_(Mem!vars) /\ [][ScStep]_(Mem!vars)
  BY <1>4, <1>5, PTL
<1> QED BY <1>6, <1>7
        DEF AccessesAreExact, Mem!BytesArePlaced, Mem!FaultingStoreIsClean,
            Mem!CompressedStaysInPage, Mem!ScNeedsLr, PlacedStep, CleanStep,
            CompressedStep, ScStep

-----------------------------------------------------------------------------
(* The bus.                                                                *)

BusKnown == Route!Known
NoOverlap(d, s, e) == ~Route!CheckOverlap(d.start, d.end, s, e)

\* No two owners overlap.
BusInv ==
    /\ dramEnd \in DramEnds /\ offered \in Seq(BusKnown) /\ devices \in Seq(BusKnown)
    /\ \A k \in DOMAIN devices : NoOverlap(devices[k], DramStart, dramEnd)
    /\ \A j, k \in DOMAIN devices :
          j # k => NoOverlap(devices[j], devices[k].start, devices[k].end)

LEMMA BusConstants ==
    /\ DramStart \in Nat /\ DramEnds \subseteq Nat
    /\ \A e \in DramEnds : e >= DramStart
    /\ Offered \subseteq Seq(BusKnown)
    /\ \A dev \in BusKnown : dev.start \in Nat /\ dev.end \in Nat
    /\ BusAddrs \subseteq Nat /\ BusSizes \subseteq Nat \ {0}
    /\ AddrSpace \in Nat \ {0} /\ \A a \in BusAddrs : a + 1 <= AddrSpace
<1>1. /\ DramStart \in Nat /\ DramEnds \subseteq 0 .. AddrSpace - 1
      /\ \A e \in DramEnds : e >= DramStart
      /\ Offered \subseteq Seq(BusKnown)
      /\ \A dev \in BusKnown : dev.start \in 0 .. AddrSpace - 1 /\ dev.end \in 0 .. AddrSpace - 1
      /\ BusAddrs \subseteq 0 .. AddrSpace - 1 /\ BusSizes \subseteq Nat \ {0}
      /\ AddrSpace \in Nat \ {0}
  BY CpuThreadAssumptions, Zenon DEF Route!BusAssumption, BusKnown
<1>2. 0 .. AddrSpace - 1 \subseteq Nat /\ \A a \in 0 .. AddrSpace - 1 : a + 1 <= AddrSpace
  BY <1>1
<1> QED BY <1>1, <1>2

\* check_overlap says that no address is in both ranges.
LEMMA OverlapIs ==
    ASSUME NEW s1 \in Nat, NEW e1 \in Nat, NEW s2 \in Nat, NEW e2 \in Nat
    PROVE  Route!CheckOverlap(s1, e1, s2, e2) <=> \E a \in Nat : a \in s1 .. e1 /\ a \in s2 .. e2
<1>1. ASSUME Route!CheckOverlap(s1, e1, s2, e2)
      PROVE  \E a \in Nat : a \in s1 .. e1 /\ a \in s2 .. e2
  <2>1. CASE s1 >= s2
    <3>1. s1 \in s1 .. e1 /\ s1 \in s2 .. e2
      BY <1>1, <2>1 DEF Route!CheckOverlap
    <3> QED BY <3>1
  <2>2. CASE s1 < s2
    <3>1. s2 \in s1 .. e1 /\ s2 \in s2 .. e2
      BY <1>1, <2>2 DEF Route!CheckOverlap
    <3> QED BY <3>1
  <2> QED BY <2>1, <2>2
<1>2. ASSUME NEW a \in Nat, a \in s1 .. e1, a \in s2 .. e2
      PROVE  Route!CheckOverlap(s1, e1, s2, e2)
  BY <1>2 DEF Route!CheckOverlap
<1> QED BY <1>1, <1>2

LEMMA BusStep == ASSUME BusInv, Route!Next PROVE BusInv'
<1> DEFINE dev == Head(offered)
<1>1. offered # <<>> /\ offered' = Tail(offered) /\ dramEnd' = dramEnd
  BY DEF Route!Next, Route!AddDevice
<1>2. offered' \in Seq(BusKnown) /\ dev \in BusKnown /\ dramEnd' \in DramEnds
  BY <1>1 DEF BusInv
<1>3. CASE UNCHANGED devices
  BY <1>1, <1>2, <1>3 DEF BusInv, NoOverlap, Route!CheckOverlap
<1>4. CASE ~Route!Clashes(dev) /\ devices' = Append(devices, dev)
  <2> DEFINE n == Len(devices)
  <2>1. devices \in Seq(BusKnown) /\ n \in Nat /\ DOMAIN devices = 1 .. n
    BY DEF BusInv
  <2>2. /\ devices' \in Seq(BusKnown) /\ DOMAIN devices' = 1 .. n + 1
        /\ devices'[n + 1] = dev /\ \A k \in 1 .. n : devices'[k] = devices[k]
    BY <1>2, <1>4, <2>1
  <2>3. \A k \in 1 .. n + 1 : k = n + 1 \/ k \in 1 .. n
    BY <2>1
  <2>4. NoOverlap(dev, DramStart, dramEnd)
    BY <1>4, Zenon DEF Route!Clashes, NoOverlap
  <2>5. \A k \in 1 .. n : NoOverlap(dev, devices[k].start, devices[k].end)
    BY <1>4, <2>1, Zenon DEF Route!Clashes, NoOverlap
  <2> HIDE DEF dev, n
  <2>6. \A k \in 1 .. n : NoOverlap(devices[k], dev.start, dev.end)
    <3> SUFFICES ASSUME NEW k \in 1 .. n PROVE NoOverlap(devices[k], dev.start, dev.end)
      OBVIOUS
    <3>1. /\ devices[k].start \in Nat /\ devices[k].end \in Nat
          /\ dev.start \in Nat /\ dev.end \in Nat
      BY <1>2, <2>1, BusConstants
    <3>2. ~Route!CheckOverlap(dev.start, dev.end, devices[k].start, devices[k].end)
      BY <2>5 DEF NoOverlap
    <3> QED BY <3>1, <3>2, OverlapIs DEF NoOverlap
  <2>7. ASSUME NEW k \in DOMAIN devices' PROVE NoOverlap(devices'[k], DramStart, dramEnd')
    <3>1. CASE k = n + 1
      BY <1>1, <2>2, <2>4, <3>1, Zenon
    <3>2. CASE k \in 1 .. n
      BY <1>1, <2>1, <2>2, <3>2, Zenon DEF BusInv
    <3> QED BY <2>2, <2>3, <3>1, <3>2
  <2>8. ASSUME NEW j \in DOMAIN devices', NEW k \in DOMAIN devices', j # k
        PROVE  NoOverlap(devices'[j], devices'[k].start, devices'[k].end)
    <3>1. CASE j = n + 1 /\ k \in 1 .. n
      BY <2>2, <2>5, <3>1, Zenon
    <3>2. CASE j \in 1 .. n /\ k = n + 1
      BY <2>2, <2>6, <3>2, Zenon
    <3>3. CASE j \in 1 .. n /\ k \in 1 .. n
      BY <2>1, <2>2, <2>8, <3>3, Zenon DEF BusInv
    <3> QED BY <2>2, <2>3, <2>8, <3>1, <3>2, <3>3
  <2> QED BY <1>2, <2>2, <2>7, <2>8, Zenon DEF BusInv, NoOverlap, Route!CheckOverlap
<1> QED BY <1>3, <1>4 DEF Route!Next, Route!AddDevice

\* The bytes of an owner.
LEMMA BusRanges ==
    ASSUME BusInv, NEW a \in Nat, NEW n \in Nat \ {0}, a + n <= AddrSpace
    PROVE  /\ Route!IsValidAddr(a, n) <=> DramStart <= a /\ a + n - 1 <= dramEnd
           /\ \A k \in DOMAIN devices :
                 k \in Route!Owners(a, n) <=> /\ devices[k].start <= a
                                              /\ a + n - 1 <= devices[k].end
<1>1. DramStart \in Nat /\ dramEnd \in Nat /\ dramEnd >= DramStart
  BY BusConstants DEF BusInv
<1>2. Route!IsValidAddr(a, n) <=> DramStart <= a /\ a + n - 1 <= dramEnd
  BY <1>1 DEF Route!IsValidAddr
<1>3. ASSUME NEW k \in DOMAIN devices
      PROVE  k \in Route!Owners(a, n) <=> devices[k].start <= a /\ a + n - 1 <= devices[k].end
  <2>1. devices[k].start \in Nat /\ devices[k].end \in Nat
    BY BusConstants DEF BusInv
  <2>2. k \in Route!Owners(a, n) <=> Route!Contains(devices[k], a, n)
    BY DEF Route!Owners
  <2>3. (a + n - 1) % AddrSpace = a + n - 1
    <3>1. PICK x \in Nat : x = a + n - 1
      OBVIOUS
    <3>2. AddrSpace \in Nat \ {0} /\ x < AddrSpace /\ x < 2 * AddrSpace
      BY <3>1, BusConstants
    <3>3. x % AddrSpace = x
      BY ONLY <3>2, x \in Nat, WrapsOnce
    <3> QED BY <3>1, <3>3
  <2>4. Route!Contains(devices[k], a, n)
        <=> /\ devices[k].start <= a /\ a <= devices[k].end
            /\ a + n - 1 <= devices[k].end
    BY <2>3, Zenon DEF Route!Contains
  <2>5. a + n - 1 <= devices[k].end => a <= devices[k].end
    BY <2>1
  <2> QED BY <2>2, <2>4, <2>5
<1> QED BY <1>2, <1>3

LEMMA BusOneOwner ==
    ASSUME BusInv, NEW a \in Nat, a + 1 <= AddrSpace,
           NEW j \in Route!Owners(a, 1), NEW k \in Route!Owners(a, 1)
    PROVE  j = k /\ ~Route!IsValidAddr(a, 1)
<1>1. /\ j \in DOMAIN devices /\ k \in DOMAIN devices
  BY DEF Route!Owners
<1>2. /\ devices[j].start \in Nat /\ devices[j].end \in Nat
      /\ devices[k].start \in Nat /\ devices[k].end \in Nat
      /\ DramStart \in Nat /\ dramEnd \in Nat
  BY <1>1, BusConstants DEF BusInv
<1>3. /\ a \in devices[j].start .. devices[j].end
      /\ a \in devices[k].start .. devices[k].end
  BY <1>1, <1>2, BusRanges
<1>4. j = k
  <2>1. Route!CheckOverlap(devices[j].start, devices[j].end, devices[k].start, devices[k].end)
    BY <1>2, <1>3, OverlapIs
  <2> QED BY <1>1, <2>1, Zenon DEF BusInv, NoOverlap
<1>5. ASSUME Route!IsValidAddr(a, 1) PROVE FALSE
  <2>1. a \in DramStart .. dramEnd
    BY <1>2, <1>5, BusRanges
  <2>2. Route!CheckOverlap(devices[j].start, devices[j].end, DramStart, dramEnd)
    BY <1>2, <1>3, <2>1, OverlapIs
  <2> QED BY <1>1, <2>2, Zenon DEF BusInv, NoOverlap
<1> QED BY <1>4, <1>5

\* Who owns an access: DRAM, one device, or nobody.
LEMMA BusOwner ==
    ASSUME BusInv, NEW a \in Nat, NEW n \in Nat \ {0}
    PROVE  /\ Route!IsValidAddr(a, n) => Route!Owner(a, n) = 0
           /\ ~Route!IsValidAddr(a, n) /\ Route!Owners(a, n) = {} => Route!Owner(a, n) = -1
           /\ ~Route!IsValidAddr(a, n) /\ Route!Owners(a, n) # {}
              => Route!Owner(a, n) \in Route!Owners(a, n)
<1> DEFINE W == Route!Owners(a, n)
<1>1. CASE Route!IsValidAddr(a, n) \/ W = {}
  BY <1>1 DEF Route!Owner
<1>2. CASE ~Route!IsValidAddr(a, n) /\ W # {}
  <2>1. W \in SUBSET Nat
    BY DEF Route!Owners, BusInv
  <2>2. \E k \in W : \A j \in W : k <= j
    BY <1>2, <2>1, NatSetHasMin
  <2>3. Route!Owner(a, n) = CHOOSE k \in W : \A j \in W : k <= j
    BY <1>2 DEF Route!Owner
  <2> HIDE DEF W
  <2>4. (CHOOSE k \in W : \A j \in W : k <= j) \in W
    BY <2>2, Zenon
  <2> QED BY <1>2, <2>3, <2>4, Zenon DEF W
<1> QED BY <1>1, <1>2

\* AccessIsBytes: whatever ranges are offered to add_device, however many and in
\* whatever order, no byte has two owners, an access that finds an owner reaches
\* what each of its bytes on its own reaches, and one whose bytes all have an
\* owner finds none only where the owner changes inside it.  Accesses past the
\* last address, which the MMU does not make, are excepted.
THEOREM BusHolds == Spec => []AccessIsBytes
<1> DEFINE Inv == part = "bus" => BusInv
<1>1. Init => Inv
  <2> SUFFICES ASSUME Init, part = "bus" PROVE BusInv
    OBVIOUS
  <2>1. Route!Init
    BY DEF Init
  <2>2. devices = <<>> /\ DOMAIN devices = {} /\ dramEnd \in DramEnds /\ offered \in Seq(BusKnown)
    BY <2>1, BusConstants DEF Route!Init
  <2> QED BY <2>2 DEF BusInv
<1>2. Inv /\ [Next]_vars => Inv'
  <2> SUFFICES ASSUME Inv, [Next]_vars PROVE Inv'
    OBVIOUS
  <2>1. CASE UNCHANGED busVars /\ UNCHANGED part
    BY <2>1 DEF busVars, BusInv, NoOverlap, Route!CheckOverlap
  <2>2. CASE part = "bus" /\ UNCHANGED part /\ Route!Next
    BY <2>2, BusStep
  <2> QED BY <2>1, <2>2 DEF Next, vars
<1>3. BusInv => Route!OneOwner
  BY BusOneOwner, BusConstants DEF Route!OneOwner
<1>4. BusInv => Route!AccessIsBytes
  <2> SUFFICES ASSUME BusInv, NEW a \in BusAddrs, NEW n \in BusSizes,
                      a + n <= AddrSpace
               PROVE  /\ Route!Owner(a, n) >= 0
                         => {Route!Owner(b, 1) : b \in a .. a + n - 1} = {Route!Owner(a, n)}
                      /\ /\ \A b \in a .. a + n - 1 : Route!Accessible(b)
                         /\ Route!Owner(a, n) = -1
                         => \E b, c \in a .. a + n - 1 : Route!Owner(b, 1) # Route!Owner(c, 1)
    BY DEF Route!AccessIsBytes
  <2>0. /\ a \in Nat /\ n \in Nat \ {0} /\ DramStart \in Nat /\ dramEnd \in Nat
        /\ AddrSpace \in Nat /\ a + n <= AddrSpace
    BY BusConstants DEF BusInv
  <2>1. \A b \in a .. a + n - 1 : /\ b \in Nat /\ a <= b /\ b <= a + n - 1 /\ b + 1 - 1 = b
                                  /\ b + 1 <= AddrSpace
    BY <2>0
  <2>2. ASSUME Route!Owner(a, n) >= 0, NEW b \in a .. a + n - 1
        PROVE  Route!Owner(b, 1) = Route!Owner(a, n)
    <3>1. CASE Route!IsValidAddr(a, n)
      <4>1. DramStart <= a /\ a + n - 1 <= dramEnd
        BY ONLY BusInv, <2>0, <3>1, BusRanges, SMTT(40)
      <4>2. DramStart <= b /\ b + 1 - 1 <= dramEnd
        BY ONLY <2>0, <2>1, <4>1, b \in a .. a + n - 1, SMTT(40)
      <4>3. b \in Nat /\ 1 \in Nat \ {0} /\ b + 1 <= AddrSpace
        BY <2>1
      <4>4. Route!IsValidAddr(b, 1)
        BY ONLY BusInv, <4>2, <4>3, BusRanges, SMTT(40)
      <4> QED BY ONLY BusInv, <2>0, <3>1, <4>3, <4>4, BusOwner, SMTT(40)
    <3>2. CASE ~Route!IsValidAddr(a, n)
      <4>1. PICK k : k = Route!Owner(a, n) /\ k \in Route!Owners(a, n)
        BY <2>0, <2>2, <3>2, BusOwner
      <4>2. k \in DOMAIN devices /\ devices[k].start \in Nat /\ devices[k].end \in Nat
        BY <4>1, BusConstants DEF Route!Owners, BusInv
      <4>3. k \in Route!Owners(b, 1)
        <5>1. devices[k].start <= a /\ a + n - 1 <= devices[k].end
          BY ONLY BusInv, <2>0, <4>1, <4>2, BusRanges, SMTT(40)
        <5>2. devices[k].start <= b /\ b + 1 - 1 <= devices[k].end
          BY ONLY <2>0, <2>1, <4>2, <5>1, b \in a .. a + n - 1, SMTT(40)
        <5>3. b \in Nat /\ 1 \in Nat \ {0} /\ b + 1 <= AddrSpace
          BY <2>1
        <5> QED BY ONLY BusInv, <4>2, <5>2, <5>3, BusRanges, SMTT(40)
      <4>4. ~Route!IsValidAddr(b, 1)
        BY <2>1, <4>3, BusOneOwner
      <4>5. Route!Owner(b, 1) \in Route!Owners(b, 1)
        BY <2>1, <4>3, <4>4, BusOwner
      <4> QED BY <2>1, <4>1, <4>3, <4>5, BusOneOwner
    <3> QED BY <3>1, <3>2
  <2>3. Route!Owner(a, n) >= 0
        => {Route!Owner(b, 1) : b \in a .. a + n - 1} = {Route!Owner(a, n)}
    <3>1. a \in a .. a + n - 1
      BY <2>0
    <3> QED BY <2>2, <3>1
  <2>4. ASSUME \A b \in a .. a + n - 1 : Route!Accessible(b), Route!Owner(a, n) = -1,
               \A b, c \in a .. a + n - 1 : Route!Owner(b, 1) = Route!Owner(c, 1)
        PROVE  FALSE
    <3>1. PICK c \in a .. a + n - 1 : c = a + n - 1
      BY <2>0
    <3>2. /\ a \in a .. a + n - 1 /\ a \in Nat /\ c \in Nat
          /\ a + 1 <= AddrSpace /\ c + 1 <= AddrSpace
      BY <2>0, <3>1
    <3>3. /\ Route!IsValidAddr(a, 1) \/ Route!Owners(a, 1) # {}
          /\ Route!IsValidAddr(c, 1) \/ Route!Owners(c, 1) # {}
          /\ Route!Owner(a, 1) = Route!Owner(c, 1)
      BY <2>4, <3>2, Zenon DEF Route!Accessible
    <3>4. 0 \notin Route!Owners(a, 1) /\ 0 \notin Route!Owners(c, 1)
      BY DEF Route!Owners, BusInv
    <3>5. CASE Route!IsValidAddr(a, 1)
      <4>1. Route!IsValidAddr(c, 1)
        BY <3>2, <3>3, <3>4, <3>5, BusOwner
      <4>2. Route!IsValidAddr(a, n)
        BY <2>0, <3>1, <3>2, <3>5, <4>1, BusRanges
      <4> QED BY <2>0, <2>4, <4>2, BusOwner
    <3>6. CASE ~Route!IsValidAddr(a, 1)
      <4>1. Route!Owner(a, 1) \in Route!Owners(a, 1)
        BY <3>2, <3>3, <3>6, BusOwner
      <4>2. ~Route!IsValidAddr(c, 1)
        BY <3>2, <3>3, <3>4, <4>1, BusOwner
      <4>3. PICK k : k \in Route!Owners(a, 1) /\ k \in Route!Owners(c, 1)
        BY <3>2, <3>3, <4>1, <4>2, BusOwner
      <4>4. k \in DOMAIN devices /\ devices[k].start \in Nat /\ devices[k].end \in Nat
        BY <4>3, BusConstants DEF Route!Owners, BusInv
      <4>5. devices[k].start <= a /\ c <= devices[k].end
        BY <3>2, <4>3, <4>4, BusRanges
      <4>6. k \in Route!Owners(a, n)
        BY <2>0, <3>1, <4>4, <4>5, BusRanges
      <4>7. Route!Owner(a, n) = 0 \/ Route!Owner(a, n) \in Route!Owners(a, n)
        BY <2>0, <4>6, BusOwner
      <4>8. -1 \notin Route!Owners(a, n) /\ -1 # 0
        BY DEF Route!Owners, BusInv
      <4> QED BY <2>4, <4>7, <4>8
    <3> QED BY <3>5, <3>6
  <2> QED BY <2>3, <2>4
<1>5. Inv => AccessIsBytes
  BY <1>3, <1>4 DEF AccessIsBytes
<1> QED BY <1>1, <1>2, <1>5, PTL DEF Spec

-----------------------------------------------------------------------------
(* The memory map.                                                         *)

\* The devices of the emulator with a disk, in the order of add_device: the disk
\* is the seventh.
Rows ==
    << Map!Dev(\h2000000, \h10000, 0), Map!Dev(\h40000000, \h1000, 0),
       Map!Dev(\hC000000, \h1000000, 0), Map!Dev(\h100000, \h1000, 0),
       Map!Dev(\h10000000, \h100, 10), Map!Dev(\h50000000, 1024 * 768 * 4, 0),
       Map!Dev(\h10001000, \h1000, 12), Map!Flash(\h20000000), Map!Flash(\h22000000),
       Map!Dev(\h10002000, \h1000, 2), Map!Dev(\h101000, \h100, 11), Map!Battery,
       Map!Dev(\h10004000, \h10, 0), Map!Dev(\h10008000, 8, 0) >>

RowFits(k) ==
    /\ Rows[k].start \in Nat /\ Rows[k].end \in Nat /\ Rows[k].start <= Rows[k].end
    /\ Rows[k].end < Map!DramBase

RowIrq(k) == Rows[k].irq \in 0 .. 1023

RowsApart(j, k) ==
    /\ Rows[j].end < Rows[k].start \/ Rows[k].end < Rows[j].start
    /\ Rows[j].irq = Rows[k].irq => Rows[j].irq = 0

LEMMA RowsAre ==
    ASSUME NEW k \in 1 .. 14
    PROVE  RowFits(k) /\ RowIrq(k)
<1>1. CASE k \in 1 .. 5
  <2>1. Rows[k].start \in Nat /\ Rows[k].end \in Nat /\ Rows[k].start <= Rows[k].end
    BY <1>1, SMTT(240) DEF Rows, Map!Dev, Map!Flash, Map!Battery
  <2>2. Rows[k].end < Map!DramBase
    BY <1>1, SMTT(240) DEF Rows, Map!Dev, Map!Flash, Map!Battery, Map!DramBase
  <2>0. /\ Rows[1].irq = 0 /\ Rows[2].irq = 0 /\ Rows[3].irq = 0
        /\ Rows[4].irq = 0 /\ Rows[5].irq = 10
    BY SMT DEF Rows, Map!Dev, Map!Flash, Map!Battery
  <2>3. Rows[k].irq \in 0 .. 1023
    BY <1>1, <2>0, SMT
  <2>4. RowFits(k)
    BY <2>1, <2>2, Zenon DEF RowFits
  <2>5. RowIrq(k)
    BY <2>3, SMT DEF RowIrq
  <2> QED BY <2>4, <2>5, Zenon
<1>2. CASE k \in 6 .. 10
  <2>1. Rows[k].start \in Nat /\ Rows[k].end \in Nat /\ Rows[k].start <= Rows[k].end
    BY <1>2, SMTT(240) DEF Rows, Map!Dev, Map!Flash, Map!Battery
  <2>2. Rows[k].end < Map!DramBase
    BY <1>2, SMTT(240) DEF Rows, Map!Dev, Map!Flash, Map!Battery, Map!DramBase
  <2>0. /\ Rows[6].irq = 0 /\ Rows[7].irq = 12 /\ Rows[8].irq = 0
        /\ Rows[9].irq = 0 /\ Rows[10].irq = 2
    BY SMT DEF Rows, Map!Dev, Map!Flash, Map!Battery
  <2>3. Rows[k].irq \in 0 .. 1023
    BY <1>2, <2>0, SMT
  <2>4. RowFits(k)
    BY <2>1, <2>2, Zenon DEF RowFits
  <2>5. RowIrq(k)
    BY <2>3, SMT DEF RowIrq
  <2> QED BY <2>4, <2>5, Zenon
<1>3. CASE k \in 11 .. 14
  <2>1. Rows[k].start \in Nat /\ Rows[k].end \in Nat /\ Rows[k].start <= Rows[k].end
    BY <1>3, SMTT(240) DEF Rows, Map!Dev, Map!Flash, Map!Battery
  <2>2. Rows[k].end < Map!DramBase
    BY <1>3, SMTT(240) DEF Rows, Map!Dev, Map!Flash, Map!Battery, Map!DramBase
  <2>0. /\ Rows[11].irq = 11 /\ Rows[12].irq = 3 /\ Rows[13].irq = 0
        /\ Rows[14].irq = 0
    BY SMT DEF Rows, Map!Dev, Map!Flash, Map!Battery
  <2>3. Rows[k].irq \in 0 .. 1023
    BY <1>3, <2>0, SMT
  <2>4. RowFits(k)
    BY <2>1, <2>2, Zenon DEF RowFits
  <2>5. RowIrq(k)
    BY <2>3, SMT DEF RowIrq
  <2> QED BY <2>4, <2>5, Zenon
<1> QED BY <1>1, <1>2, <1>3, SMT

LEMMA RowsDiffer ==
    \A j, k \in 1 .. 14 : j # k => RowsApart(j, k)
BY SMTT(240) DEF RowsApart, Rows, Map!Dev, Map!Flash, Map!Battery

LEMMA DramBaseNat == Map!DramBase \in Nat
BY SMT DEF Map!DramBase

\* Which of the rows is the k-th device.
RowOf(hasDisk, k) == IF hasDisk \/ k <= 6 THEN k ELSE k + 1

DevRecord == [start : Int, end : Int, irq : Int]

LEMMA DevIsRecord ==
    ASSUME NEW b \in Nat, NEW n \in Nat, NEW i \in Nat
    PROVE  Map!Dev(b, n, i) \in DevRecord
BY DEF Map!Dev, DevRecord

LEMMA DevicesAreRows ==
    ASSUME NEW hasDisk \in BOOLEAN
    PROVE  /\ Map!Devices(hasDisk) \in Seq(DevRecord)
           /\ Len(Map!Devices(hasDisk)) = IF hasDisk THEN 14 ELSE 13
           /\ \A k \in 1 .. Len(Map!Devices(hasDisk)) : Map!Devices(hasDisk)[k] = Rows[RowOf(hasDisk, k)]
<1>1. Len(Map!Devices(hasDisk)) = IF hasDisk THEN 14 ELSE 13
  BY SMT DEF Map!Devices
<1>2. \A k \in 1 .. Len(Map!Devices(hasDisk)) : Map!Devices(hasDisk)[k] = Rows[RowOf(hasDisk, k)]
  BY SMTT(240) DEF Map!Devices, Rows, RowOf
<1>3. \A k \in 1 .. Len(Map!Devices(hasDisk)) : RowOf(hasDisk, k) \in 1 .. 14
  BY <1>1, SMT DEF RowOf
<1>4. Map!Devices(hasDisk) \in Seq(DevRecord)
  <2>1. ASSUME NEW a \in Seq(DevRecord), NEW b \in Seq(DevRecord) PROVE a \o b \in Seq(DevRecord)
    BY SMT
  <2>2. \A b, n, i \in Nat : Map!Dev(b, n, i) \in DevRecord
    BY DevIsRecord, SMT
  <2>3. Map!Battery \in DevRecord /\ Map!Flash(\h20000000) \in DevRecord /\ Map!Flash(\h22000000) \in DevRecord
    BY <2>2, SMT DEF Map!Battery, Map!Flash
  <2>4. << Map!Dev(\h2000000, \h10000, 0), Map!Dev(\h40000000, \h1000, 0),
           Map!Dev(\hC000000, \h1000000, 0), Map!Dev(\h100000, \h1000, 0),
           Map!Dev(\h10000000, \h100, 10), Map!Dev(\h50000000, 1024 * 768 * 4, 0) >>
        \in Seq(DevRecord)
    BY <2>2, SMT
  <2>5. (IF hasDisk THEN <<Map!Dev(\h10001000, \h1000, 12)>> ELSE <<>>) \in Seq(DevRecord)
    BY <2>2, SMT
  <2>6. << Map!Flash(\h20000000), Map!Flash(\h22000000), Map!Dev(\h10002000, \h1000, 2),
           Map!Dev(\h101000, \h100, 11), Map!Battery, Map!Dev(\h10004000, \h10, 0),
           Map!Dev(\h10008000, 8, 0) >> \in Seq(DevRecord)
    BY <2>2, <2>3, SMT
  <2> QED BY <2>1, <2>4, <2>5, <2>6, SMT DEF Map!Devices
<1> QED BY <1>1, <1>2, <1>4

\* The devices still to be added follow those that were.
BoardRest(hasDisk) ==
    /\ devices \in Seq(DevRecord) /\ offered \in Seq(DevRecord)
    /\ Len(devices) + Len(offered) = Len(Map!Devices(hasDisk))
    /\ \A k \in 1 .. Len(devices) : devices[k] = Map!Devices(hasDisk)[k]
    /\ \A k \in 1 .. Len(offered) : offered[k] = Map!Devices(hasDisk)[Len(devices) + k]

BoardInv ==
    /\ ~refused /\ dramEnd \in Nat
    /\ \E hasDisk \in BOOLEAN : BoardRest(hasDisk)

LEMMA BoardInitHolds == Board!Init => BoardInv
<1> SUFFICES ASSUME Board!Init PROVE BoardInv
  OBVIOUS
<1>1. DramMegabytes \subseteq Nat \ {0}
  BY CpuThreadAssumptions DEF CpuThreadAssumptions, Map!MapAssumption
<1>2. PICK m \in DramMegabytes : dramEnd = Map!DramBase + (m * \h20000) - 1
  BY SMT DEF Board!Init, Map!DramLast
<1>3. dramEnd \in Nat
  BY <1>1, <1>2, SMT DEF Map!DramBase
<1>4. PICK hasDisk \in BOOLEAN : offered = Map!Devices(hasDisk)
  BY SMT DEF Board!Init, Map!Offers
<1>5. BoardRest(hasDisk)
  <2>1. devices = <<>> /\ devices \in Seq(DevRecord) /\ Len(devices) = 0
    BY DEF Board!Init
  <2>2. Map!Devices(hasDisk) \in Seq(DevRecord)
    BY DevicesAreRows
  <2>3. PICK d \in Seq(DevRecord) : d = Map!Devices(hasDisk)
    BY <2>2
  <2> QED BY <1>4, <2>1, <2>3 DEF BoardRest
<1> QED BY <1>3, <1>4, <1>5 DEF BoardInv, Board!Init

LEMMA BoardStep == BoardInv /\ Board!Next => BoardInv'
<1> SUFFICES ASSUME BoardInv, Board!AddDevice PROVE BoardInv'
  BY DEF Board!Next
<1>1. PICK hasDisk \in BOOLEAN : BoardRest(hasDisk)
  BY DEF BoardInv
<1>2. PICK d \in Seq(DevRecord) :
         /\ d = Map!Devices(hasDisk) /\ Len(d) <= 14
         /\ \A k \in 1 .. Len(d) : d[k] = Rows[RowOf(hasDisk, k)] /\ RowOf(hasDisk, k) \in 1 .. 14
  <2>1. \A k \in 1 .. Len(Map!Devices(hasDisk)) : RowOf(hasDisk, k) \in 1 .. 14
    BY DevicesAreRows, SMT DEF RowOf
  <2>2. Len(Map!Devices(hasDisk)) <= 14
    <3>1. Len(Map!Devices(hasDisk)) = IF hasDisk THEN 14 ELSE 13
      BY DevicesAreRows, Zenon
    <3> QED BY <3>1, SMT
  <2> QED BY <2>1, <2>2, DevicesAreRows, Zenon
<1>3. /\ devices \in Seq(DevRecord) /\ offered \in Seq(DevRecord)
      /\ Len(devices) + Len(offered) = Len(d)
      /\ \A k \in 1 .. Len(devices) : devices[k] = d[k]
      /\ \A k \in 1 .. Len(offered) : offered[k] = d[Len(devices) + k]
  BY <1>1, <1>2, Zenon DEF BoardRest
<1>4. PICK n \in Nat : n = Len(devices) + 1
  BY <1>3
<1>5. offered # <<>> /\ Head(offered) = d[n] /\ n \in 1 .. Len(d)
  BY <1>3, <1>4, SMT DEF Board!AddDevice
<1>6. ~Board!Clashes(d[n])
  <2>1. ASSUME NEW s1 \in Nat, NEW e1 \in Nat, NEW s2 \in Nat, NEW e2 \in Nat,
               e1 < s2 \/ e2 < s1
        PROVE  ~Board!CheckOverlap(s1, e1, s2, e2)
    BY <2>1, SMT DEF Board!CheckOverlap
  <2>2. PICK r \in 1 .. 14 : r = RowOf(hasDisk, n) /\ d[n] = Rows[r]
    BY <1>2, <1>5, Zenon
  <2>3. /\ Rows[r].start \in Nat /\ Rows[r].end \in Nat /\ Rows[r].end < Map!DramBase
        /\ Map!DramBase \in Nat
    BY RowsAre, DramBaseNat, Zenon DEF RowFits
  <2>4. ~Board!CheckOverlap(d[n].start, d[n].end, Map!DramBase, dramEnd)
    BY <2>1, <2>2, <2>3, SMT DEF BoardInv
  <2>5. ASSUME NEW k \in DOMAIN devices
        PROVE  ~Board!CheckOverlap(d[n].start, d[n].end, devices[k].start, devices[k].end)
    <3>1. k \in 1 .. Len(d) /\ k < n /\ devices[k] = d[k]
      BY <1>3, <1>4, <1>5, SMT
    <3>2. PICK q \in 1 .. 14 : q = RowOf(hasDisk, k) /\ d[k] = Rows[q]
      BY <1>2, <3>1, Zenon
    <3>3. q # r
      BY <1>5, <2>2, <3>1, <3>2, SMT DEF RowOf
    <3>4. Rows[q].start \in Nat /\ Rows[q].end \in Nat
      BY RowsAre, Zenon DEF RowFits
    <3>5. Rows[r].end < Rows[q].start \/ Rows[q].end < Rows[r].start
      BY <3>3, RowsDiffer, Zenon DEF RowsApart
    <3> QED BY <2>1, <2>2, <2>3, <3>1, <3>2, <3>4, <3>5, Zenon
  <2> QED BY <2>4, <2>5, Zenon DEF Board!Clashes
<1>7. /\ offered' = Tail(offered) /\ devices' = Append(devices, d[n])
      /\ refused' = refused /\ dramEnd' = dramEnd
  BY <1>5, <1>6, Zenon DEF Board!AddDevice
<1>8. BoardRest(hasDisk)'
  <2>1. d[n] \in DevRecord
    BY <1>5
  <2>2. devices' \in Seq(DevRecord) /\ Len(devices') = n
    BY <1>3, <1>4, <1>7, <2>1
  <2>3. offered' \in Seq(DevRecord) /\ Len(offered') = Len(offered) - 1
    BY <1>3, <1>5, <1>7
  <2>4. ASSUME NEW k \in 1 .. Len(devices') PROVE devices'[k] = d[k]
    BY <1>3, <1>4, <1>7, <2>2
  <2>5. ASSUME NEW k \in 1 .. Len(offered') PROVE offered'[k] = d[Len(devices') + k]
    <3>1. offered'[k] = offered[k + 1] /\ k + 1 \in 1 .. Len(offered)
      BY <1>3, <1>5, <1>7, <2>3
    <3>2. Len(devices) + (k + 1) = Len(devices') + k
      BY <1>3, <1>4, <2>2
    <3> QED BY <1>3, <3>1, <3>2, Zenon
  <2>6. Len(devices') + Len(offered') = Len(d)
    <3>1. Len(devices) \in Nat /\ Len(offered) \in Nat
      BY <1>3
    <3>2. Len(devices) + Len(offered) = Len(d)
      BY <1>3, Zenon
    <3>3. Len(devices') = Len(devices) + 1 /\ Len(offered') = Len(offered) - 1
      BY <1>4, <2>2, <2>3, Zenon
    <3> QED BY ONLY <3>1, <3>2, <3>3, SMT
  <2>7. Map!Devices(hasDisk)' = d
    BY <1>2 DEF Map!Devices, Map!Dev, Map!Flash, Map!Battery
  <2> QED BY <2>2, <2>3, <2>4, <2>5, <2>6, <2>7, Zenon DEF BoardRest
<1> QED BY <1>7, <1>8 DEF BoardInv

LEMMA BoardFollows == BoardInv => Board!NothingRefused /\ Map!OwnInterrupt(devices)
<1> SUFFICES ASSUME BoardInv PROVE Board!NothingRefused /\ Map!OwnInterrupt(devices)
  OBVIOUS
<1>1. PICK hasDisk \in BOOLEAN : BoardRest(hasDisk)
  BY DEF BoardInv
<1>2. ASSUME NEW k \in DOMAIN devices
      PROVE  RowOf(hasDisk, k) \in 1 .. 14 /\ devices[k] = Rows[RowOf(hasDisk, k)] /\ k \in Nat
  <2>1. PICK d \in Seq(DevRecord) : d = Map!Devices(hasDisk)
    BY DevicesAreRows, Zenon
  <2>2. /\ Len(d) = IF hasDisk THEN 14 ELSE 13
        /\ \A j \in 1 .. Len(d) : d[j] = Rows[RowOf(hasDisk, j)]
    BY <2>1, DevicesAreRows, Zenon
  <2>3. /\ devices \in Seq(DevRecord) /\ offered \in Seq(DevRecord)
        /\ Len(devices) + Len(offered) = Len(d)
        /\ \A j \in 1 .. Len(devices) : devices[j] = d[j]
    BY <1>1, <2>1, Zenon DEF BoardRest
  <2>4. k \in 1 .. Len(devices) /\ k \in 1 .. Len(d) /\ k \in Nat
    <3>1. k \in 1 .. Len(devices) /\ Len(devices) \in Nat /\ Len(offered) \in Nat
      BY ONLY <2>3, k \in DOMAIN devices, SMT
    <3>2. Len(devices) + Len(offered) = Len(d)
      BY <2>3, Zenon
    <3> QED BY ONLY <3>1, <3>2, SMT
  <2>5. RowOf(hasDisk, k) \in 1 .. 14
    <3>1. Len(d) = IF hasDisk THEN 14 ELSE 13
      BY <2>2, Zenon
    <3>2. CASE hasDisk
      <4>1. Len(d) = 14 /\ RowOf(hasDisk, k) = k
        BY <3>1, <3>2, Zenon DEF RowOf
      <4> QED BY ONLY <2>4, <4>1, SMT
    <3>3. CASE ~hasDisk
      <4>1. Len(d) = 13 /\ RowOf(hasDisk, k) = IF k <= 6 THEN k ELSE k + 1
        BY <3>1, <3>3, Zenon DEF RowOf
      <4> QED BY ONLY <2>4, <4>1, SMT
    <3> QED BY <3>2, <3>3, Zenon
  <2> QED BY <2>2, <2>3, <2>4, <2>5, Zenon
<1>3. ASSUME NEW j \in DOMAIN devices, NEW k \in DOMAIN devices
      PROVE  /\ devices[j].irq < 1024
             /\ devices[j].irq = devices[k].irq /\ devices[j].irq # 0 => j = k
  <2>1. PICK q \in 1 .. 14 : q = RowOf(hasDisk, j) /\ devices[j] = Rows[q]
    BY <1>2, Zenon
  <2>2. PICK r \in 1 .. 14 : r = RowOf(hasDisk, k) /\ devices[k] = Rows[r]
    BY <1>2, Zenon
  <2>3. RowIrq(q)
    BY RowsAre, Zenon
  <2>4. devices[j].irq < 1024
    <3>1. devices[j].irq = Rows[q].irq
      BY <2>1, Zenon
    <3>2. PICK v \in 0 .. 1023 : v = Rows[q].irq
      BY ONLY <2>3, SMT DEF RowIrq
    <3>3. v < 1024
      BY ONLY v \in 0 .. 1023, SMT
    <3>4. v = devices[j].irq
      BY <3>1, <3>2, Zenon
    <3> QED BY ONLY <3>3, <3>4, SMT
  <2>5. j # k => q # r
    <3>1. j \in Nat /\ k \in Nat
      BY <1>2, Zenon
    <3>2. q = RowOf(hasDisk, j) /\ r = RowOf(hasDisk, k)
      BY <2>1, <2>2, Zenon
    <3> QED BY ONLY <3>1, <3>2, hasDisk \in BOOLEAN, SMT DEF RowOf
  <2>6. q # r => RowsApart(q, r)
    BY RowsDiffer, Zenon
  <2>7. devices[j].irq = devices[k].irq /\ devices[j].irq # 0 => j = k
    BY <2>1, <2>2, <2>5, <2>6, Zenon DEF RowsApart
  <2> QED BY <2>4, <2>7, SMT
<1>4. Map!OwnInterrupt(devices)
  BY <1>3, SMT DEF Map!OwnInterrupt
<1> QED BY <1>4, Zenon DEF BoardInv, Board!NothingRefused

-----------------------------------------------------------------------------
(* The query table of the flash.                                           *)

LEMMA CfiPowers == 2^0 = 1 /\ 2^1 = 2 /\ 2^8 = 256 /\ 2^16 = 65536
<1>1. Cfi!SmallPowers
  BY CpuThreadAssumptions, Zenon DEF CpuThreadAssumptions, Cfi!PowerFacts
<1> QED BY ONLY <1>1, SMT DEF Cfi!SmallPowers

LEMMA CfiPower == \A m \in 0 .. 30 : 2^m \in Nat \ {0}
BY CpuThreadAssumptions, Zenon DEF CpuThreadAssumptions, Cfi!PowerFacts, Cfi!PowerLaws

LEMMA CfiSum == \A m, n \in 0 .. 30 : m + n <= 30 => 2^(m + n) = 2^m * 2^n
BY CpuThreadAssumptions, Zenon DEF CpuThreadAssumptions, Cfi!PowerFacts, Cfi!PowerLaws

\* A power of two other than 1 is even.
LEMMA CfiEven ==
    ASSUME NEW d \in 1 .. 30
    PROVE  \E h \in Nat \ {0} : 2^d = 2 * h
<1>1. d - 1 \in 0 .. 30 /\ 1 \in 0 .. 30 /\ 1 + (d - 1) = d /\ d <= 30
  OBVIOUS
<1>2. 2^(1 + (d - 1)) = 2^1 * 2^(d - 1) /\ 2^(d - 1) \in Nat \ {0} /\ 2^1 = 2
  <2>1. 1 + (d - 1) <= 30
    BY <1>1
  <2>2. 2^1 = 2
    BY CfiPowers, SMT
  <2> QED BY <1>1, <2>1, <2>2, CfiPower, CfiSum, Zenon
<1>3. 2^d = 2^1 * 2^(d - 1)
  BY <1>1, <1>2, Zenon
<1> QED BY <1>2, <1>3

LEMMA CfiTooHigh ==
    ASSUME NEW k \in 0 .. 29, NEW c \in k + 1 .. 31
    PROVE  2^c \in Nat /\ 2^k < 2^c
<1>1. CASE c <= 30
  <2>1. c - k \in 1 .. 30 /\ c - k \in 0 .. 30 /\ k \in 0 .. 30 /\ k + (c - k) = c /\ c \in 0 .. 30
    BY <1>1
  <2>2. PICK h \in Nat \ {0} : 2^(c - k) = 2 * h
    BY <2>1, CfiEven
  <2>3. 2^(k + (c - k)) = 2^k * 2^(c - k) /\ 2^k \in Nat \ {0} /\ 2^c \in Nat
    <3>1. k + (c - k) <= 30
      BY <1>1, <2>1
    <3> QED BY <2>1, <3>1, CfiPower, CfiSum, Zenon
  <2>4. PICK u \in Nat \ {0} : u = 2^k
    BY <2>3
  <2>5. 2^c = u * (2 * h)
    BY <2>1, <2>2, <2>3, <2>4, Zenon
  <2>6. u * (2 * h) = u + u + 2 * (u * (h - 1)) /\ u * (h - 1) \in Nat
    OBVIOUS
  <2> QED BY <2>3, <2>4, <2>5, <2>6
<1>2. CASE c = 31
  <2>1. 2^31 = 2147483648 /\ 2^30 = 1073741824
    BY ONLY SMT
  <2>2. k \in 0 .. 30 /\ 30 - k \in 0 .. 30 /\ k + (30 - k) = 30 /\ 30 <= 30
    OBVIOUS
  <2>3. 2^30 = 2^k * 2^(30 - k) /\ 2^k \in Nat \ {0} /\ 2^(30 - k) \in Nat \ {0}
    BY <2>2, CfiPower, CfiSum, Zenon
  <2>4. PICK u \in Nat \ {0} : u = 2^k
    BY <2>3, Zenon
  <2>5. PICK h \in Nat \ {0} : h = 2^(30 - k)
    BY <2>3, Zenon
  <2>6. u * h = 2^30
    BY <2>3, <2>4, <2>5, Zenon
  <2>7. u * h = u + u * (h - 1) /\ u * (h - 1) \in Nat
    OBVIOUS
  <2>8. u < 2147483648
    BY ONLY <2>1, <2>4, <2>5, <2>6, <2>7, SMT
  <2> QED BY <1>2, <2>1, <2>4, <2>8, SMT
<1> QED BY <1>1, <1>2

LEMMA CtzIs ==
    ASSUME NEW k \in 0 .. 29
    PROVE  Cfi!Ctz(2^k) = k
<1> DEFINE P(c) == 2^k % 2^c = 0 /\ (2^k \div 2^c) % 2 = 1
<1>1. PICK u \in Nat \ {0} : u = 2^k
  <2>1. k \in 0 .. 30
    OBVIOUS
  <2> QED BY <2>1, CfiPower, Zenon
<1>2. u % u = 0 /\ u \div u = 1
  BY SplitOf
<1>3. k \in 0 .. 31 /\ P(k)
  BY <1>1, <1>2
<1>4. ASSUME NEW c \in 0 .. 31, P(c) PROVE c = k
  <2>1. CASE c < k
    <3>1. k - c \in 1 .. 30 /\ k - c \in 0 .. 30 /\ c \in 0 .. 30 /\ c + (k - c) = k /\ k <= 30
      BY <2>1
    <3>2. PICK h \in Nat \ {0} : 2^(k - c) = 2 * h
      BY <3>1, CfiEven
    <3>3. 2^k = 2^c * 2^(k - c) /\ 2^c \in Nat \ {0}
      <4>1. c + (k - c) <= 30
        BY <3>1
      <4>2. 2^(c + (k - c)) = 2^c * 2^(k - c) /\ 2^c \in Nat \ {0}
        BY <3>1, <4>1, CfiPower, CfiSum, Zenon
      <4> QED BY <3>1, <4>2, Zenon
    <3>4. PICK v \in Nat \ {0} : v = 2^c
      BY <3>3
    <3>5. PICK e \in Nat : e = 2 * h
      OBVIOUS
    <3>6. u = v * e
      BY <1>1, <3>2, <3>3, <3>4, <3>5
    <3>7. (v * e) \div v = e
      OBVIOUS
    <3>8. (2^k \div 2^c) % 2 = e % 2
      BY <1>1, <3>4, <3>6, <3>7
    <3>9. e % 2 = 0
      BY <3>5
    <3> QED BY <1>4, <3>8, <3>9
  <2>2. CASE c > k
    <3>0. c \in k + 1 .. 31
      BY <2>2
    <3>a. 2^c \in Nat /\ 2^k < 2^c
      BY <3>0, CfiTooHigh, Zenon
    <3>1. PICK w \in Nat : w = 2^c
      BY <3>a, Zenon
    <3>2. u < w
      BY <3>a, <1>1, <3>1, Zenon
    <3>3. u % w = u
      BY <3>2
    <3> QED BY <1>1, <3>1, <3>3, <1>4
  <2> QED BY <2>1, <2>2
<1> HIDE DEF P
<1>5. (CHOOSE c \in 0 .. 31 : P(c)) = k
  BY <1>3, <1>4
<1> QED BY <1>5 DEF P, Cfi!Ctz

\* A word of the bank shows the answer of a chip twice.
LEMMA TwiceOver ==
    ASSUME NEW h \in Nat \ {0}, NEW t \in 0 .. h - 1
    PROVE  /\ (t \div h) % h = 0 /\ t % h = t
           /\ ((t + t * h) \div 1) % h = t /\ ((t + t * h) \div h) % h = t
<1>1. t \in Nat /\ 0 \in Nat /\ 0 \in 0 .. h - 1
  OBVIOUS
<1>2. Splits(t, h, 0, t) /\ Splits(0, h, 0, 0)
  BY DEF Splits
<1>3. t \div h = 0 /\ t % h = t /\ 0 % h = 0
  BY <1>1, <1>2, SplitUnique, SplitUniqueDiv, Zenon
<1>4. PICK x \in Nat : x = t + t * h
  BY <1>1
<1>5. Splits(x, h, t, t) /\ x \div 1 = x
  BY <1>4 DEF Splits
<1>6. x % h = t /\ x \div h = t
  BY <1>1, <1>5, SplitUnique, SplitUniqueDiv, Zenon
<1> QED BY <1>3, <1>4, <1>5, <1>6, Zenon

LEMMA AnswerTwice ==
    ASSUME NEW n \in 0 .. 81, NEW t \in 0 .. 2^16 - 1, Cfi!CfiTable(n) = t, NEW c \in 1 .. 2
    PROVE  (Cfi!CfiQuery(4 * n) \div 2^(16 * (c - 1))) % 2^16 = t
<1>1. (4 * n) \div 4 = n /\ ~(n >= \h52)
  OBVIOUS
<1>2. PICK h \in Nat \ {0} : h = 2^16
  <2>1. 16 \in 0 .. 30
    OBVIOUS
  <2> QED BY <2>1, CfiPower, Zenon
<1>3. t \in 0 .. h - 1
  BY <1>2, Zenon
<1>4. Cfi!Deposit(t, 16, 16, t) = t + t * h
  <2>1. (t \div h) % h = 0 /\ t % h = t
    BY <1>3, TwiceOver, Zenon
  <2>2. t + ((t - 0) * h) = t + t * h
    BY <1>3
  <2>3. t + (((t % h) - ((t \div h) % h)) * h) = t + t * h
    BY <2>1, <2>2, Zenon
  <2> QED BY <1>2, <2>3, Zenon DEF Cfi!Deposit
<1>5. Cfi!CfiQuery(4 * n) = t + t * h
  BY <1>1, <1>4, Zenon DEF Cfi!CfiQuery
<1>6. ((t + t * h) \div 1) % h = t /\ ((t + t * h) \div h) % h = t
  BY <1>3, TwiceOver, Zenon
<1>7. CASE c = 1
  <2>1. 16 * (c - 1) = 0 /\ 2^0 = 1
    BY <1>7, CfiPowers, SMT
  <2> QED BY <1>2, <1>5, <1>6, <2>1, Zenon
<1>8. CASE c = 2
  <2>1. 16 * (c - 1) = 16
    BY <1>8
  <2> QED BY <1>2, <1>5, <1>6, <2>1, Zenon
<1> QED BY <1>7, <1>8

CfiInv == sectorLen \in SectorLens /\ blocks \in BlockCounts

LEMMA CfiTells == ASSUME CfiInv PROVE Cfi!CfiTellsGeometry
<1>1. PICK i \in 9 .. 24, j \in 0 .. 16 : sectorLen = 2^i /\ blocks = 2^j /\ i + j <= 30
  BY CpuThreadAssumptions DEF CpuThreadAssumptions, Cfi!CfiAssumption, CfiInv
<1>2. /\ 1 \in 0 .. 30 /\ i - 1 \in 0 .. 30 /\ 1 + (i - 1) = i /\ i <= 30
      /\ j \in 0 .. 30 /\ (i - 1) + j <= 30 /\ (i - 1) + j \in 0 .. 29
      /\ 8 \in 0 .. 30 /\ i - 9 \in 0 .. 30 /\ 8 + (i - 9) = i - 1 /\ i - 1 <= 30
      /\ 25 - i \in 1 .. 30 /\ 25 - i \in 0 .. 30 /\ (i - 9) + (25 - i) = 16 /\ 16 <= 30
      /\ i \in 0 .. 30 /\ 16 - j \in 0 .. 30 /\ j + (16 - j) = 16
  BY <1>1
<1>3. /\ 2^i = 2^1 * 2^(i - 1) /\ 2^((i - 1) + j) = 2^(i - 1) * 2^j
      /\ 2^(i - 1) = 2^8 * 2^(i - 9) /\ 2^16 = 2^(i - 9) * 2^(25 - i)
      /\ 2^16 = 2^j * 2^(16 - j)
      /\ 2^(i - 1) \in Nat \ {0} /\ 2^j \in Nat \ {0} /\ 2^(i - 9) \in Nat \ {0}
      /\ 2^(16 - j) \in Nat \ {0}
  <2>1. /\ 1 + (i - 1) <= 30 /\ 8 + (i - 9) <= 30 /\ (i - 9) + (25 - i) <= 30
        /\ j + (16 - j) <= 30 /\ 8 \in 0 .. 30
    BY <1>2
  <2>2. /\ 2^(1 + (i - 1)) = 2^1 * 2^(i - 1) /\ 2^((i - 1) + j) = 2^(i - 1) * 2^j
        /\ 2^(8 + (i - 9)) = 2^8 * 2^(i - 9)
        /\ 2^((i - 9) + (25 - i)) = 2^(i - 9) * 2^(25 - i)
        /\ 2^(j + (16 - j)) = 2^j * 2^(16 - j)
    BY <1>2, <2>1, CfiSum, Zenon
  <2>3. /\ 2^(i - 1) \in Nat \ {0} /\ 2^j \in Nat \ {0} /\ 2^(i - 9) \in Nat \ {0}
        /\ 2^(16 - j) \in Nat \ {0}
    BY <1>2, CfiPower, Zenon
  <2> QED BY <1>2, <2>2, <2>3, Zenon
<1>4. PICK p \in Nat \ {0} : p = 2^(i - 1)
  BY <1>3
<1>5. PICK n \in Nat \ {0} : n = 2^j
  BY <1>3
<1>6. PICK t \in Nat \ {0} : t = 2^(i - 9)
  BY <1>3
<1>7. sectorLen = 2 * p /\ blocks = n /\ p = 256 * t /\ 2^((i - 1) + j) = p * n
  <2>1. 2^1 = 2 /\ 2^8 = 256
    BY CfiPowers, SMT
  <2> QED BY <1>1, <1>3, <1>4, <1>5, <1>6, <2>1, Zenon
<1>8. t < 65536
  <2>1. PICK h \in Nat \ {0} : 2^(25 - i) = 2 * h
    BY <1>2, CfiEven
  <2>2. 2^16 = t * (2 * h)
    BY <1>3, <1>6, <2>1, Zenon
  <2>3. t * (2 * h) = t + t + 2 * (t * (h - 1)) /\ t * (h - 1) \in Nat
    OBVIOUS
  <2>4. 2^16 = 65536
    BY CfiPowers, SMT
  <2> QED BY ONLY <2>2, <2>3, <2>4, t \in Nat \ {0}, SMT
<1>9. n <= 65536
  <2>1. PICK h \in Nat \ {0} : 2^(16 - j) = h
    BY <1>3
  <2>2. 2^16 = n * h
    BY <1>3, <1>5, <2>1, Zenon
  <2>3. n * h = n + n * (h - 1) /\ n * (h - 1) \in Nat
    OBVIOUS
  <2>4. 2^16 = 65536
    BY CfiPowers, SMT
  <2> QED BY ONLY <2>2, <2>3, <2>4, n \in Nat \ {0}, SMT
<1>10. sectorLen \div 2 = p
  BY <1>7
<1>11. PICK k \in 0 .. 29 : k = (i - 1) + j
  BY <1>2
<1>12. Cfi!CfiTable(\h27) = k /\ 2^k = p * n
  <2>1. 2^k = p * n
    BY <1>7, <1>11, Zenon
  <2>2. Cfi!Ctz(p * n) = k
    BY <2>1, CtzIs, Zenon
  <2> QED BY <2>1, <2>2, <1>7, <1>10 DEF Cfi!CfiTable
<1>13. PICK lo \in 0 .. 255 : lo = (n - 1) % 256
  OBVIOUS
<1>14. PICK hi \in 0 .. 255 : hi = (n - 1) \div 256
  BY ONLY <1>9, n \in Nat \ {0}, SMT
<1>15. Cfi!CfiTable(\h2D) = lo /\ Cfi!CfiTable(\h2E) = hi /\ lo + 256 * hi + 1 = n
  <2>1. hi % 256 = hi /\ lo + 256 * hi + 1 = n
    BY <1>13, <1>14
  <2> QED BY <2>1, <1>7, <1>13, <1>14 DEF Cfi!CfiTable
<1>16. PICK sl \in 0 .. 255 : sl = t % 256
  OBVIOUS
<1>17. PICK sh \in 0 .. 255 : sh = t \div 256
  BY ONLY <1>8, t \in Nat \ {0}, SMT
<1>18. /\ Cfi!CfiTable(\h2F) = sl /\ Cfi!CfiTable(\h30) = sh
       /\ 256 * sl + 65536 * sh = p
  <2>1. p \div 256 = t /\ p \div 65536 = sh /\ sh % 256 = sh /\ 256 * sl + 65536 * sh = p
    BY ONLY <1>7, <1>16, <1>17, p \in Nat, t \in Nat, SMT
  <2> QED BY ONLY <2>1, <1>10, <1>16, SMT DEF Cfi!CfiTable
<1>19. Cfi!CfiTable(\h2A) = 11
  BY DEF Cfi!CfiTable
<1> DEFINE Q(m, c) == (Cfi!CfiQuery(4 * m) \div 2^(16 * (c - 1))) % 2^16
<1>20. \A c \in 1 .. 2 :
          /\ Q(\h27, c) = k /\ Q(\h2D, c) = lo /\ Q(\h2E, c) = hi
          /\ Q(\h2F, c) = sl /\ Q(\h30, c) = sh /\ Q(\h2A, c) = 11
  <2>1. 2^16 = 65536
    BY CfiPowers, SMT
  <2>2. PICK h \in Nat : h = 2^16 /\ h = 65536
    BY ONLY <2>1, SMT
  <2>3. /\ k \in 0 .. h - 1 /\ lo \in 0 .. h - 1 /\ hi \in 0 .. h - 1
        /\ sl \in 0 .. h - 1 /\ sh \in 0 .. h - 1 /\ 11 \in 0 .. h - 1
    BY ONLY <2>2, k \in 0 .. 29, lo \in 0 .. 255, hi \in 0 .. 255, sl \in 0 .. 255,
            sh \in 0 .. 255, SMT
  <2>4. ASSUME NEW m \in 0 .. 81, NEW v \in 0 .. h - 1, Cfi!CfiTable(m) = v
        PROVE  \A c \in 1 .. 2 : Q(m, c) = v
    <3>1. v \in 0 .. 2^16 - 1
      BY <2>2
    <3> QED BY <3>1, <2>4, AnswerTwice, Zenon
  <2> HIDE DEF Q
  <2>5. /\ \h27 \in 0 .. 81 /\ \h2D \in 0 .. 81 /\ \h2E \in 0 .. 81
        /\ \h2F \in 0 .. 81 /\ \h30 \in 0 .. 81 /\ \h2A \in 0 .. 81
    BY SMT
  <2>6. \A c \in 1 .. 2 : Q(\h27, c) = k
    BY <2>3, <2>4, <2>5, <1>12, ZenonT(60)
  <2>7. \A c \in 1 .. 2 : Q(\h2D, c) = lo /\ Q(\h2E, c) = hi
    BY <2>3, <2>4, <2>5, <1>15, ZenonT(60)
  <2>8. \A c \in 1 .. 2 : Q(\h2F, c) = sl /\ Q(\h30, c) = sh
    <3>1. Cfi!CfiTable(\h2F) = sl /\ Cfi!CfiTable(\h30) = sh
      BY ONLY <1>18, SMT
    <3> QED BY <2>3, <2>4, <2>5, <3>1, ZenonT(60)
  <2>9. \A c \in 1 .. 2 : Q(\h2A, c) = 11
    <3>1. PICK e \in 0 .. h - 1 : e = 11
      BY <2>3
    <3>2. Cfi!CfiTable(\h2A) = e
      BY <1>19, <3>1
    <3>3. \A c \in 1 .. 2 : Q(\h2A, c) = e
      BY <2>4, <2>5, <3>2, Zenon
    <3> QED BY <3>1, <3>3
  <2> QED BY <2>6, <2>7, <2>8, <2>9, Zenon
<1> HIDE DEF Q
<1>21. 1 \in 1 .. 2 /\ 2 \in 1 .. 2
  OBVIOUS
<1>22. 2^Q(\h27, 1) + 2^Q(\h27, 2) = sectorLen * blocks
  BY <1>7, <1>12, <1>20, <1>21
<1>23. \A c \in 1 .. 2 : Q(\h2D, c) + 256 * Q(\h2E, c) + 1 = blocks
  BY <1>7, <1>15, <1>20
<1>24. (256 * Q(\h2F, 1) + 65536 * Q(\h30, 1)) + (256 * Q(\h2F, 2) + 65536 * Q(\h30, 2)) = sectorLen
  BY <1>7, <1>18, <1>20, <1>21
<1>25. 2^Q(\h2A, 1) + 2^Q(\h2A, 2) = Cfi!WritebuffSize
  <2>1. 2^11 = 2048
    BY SMT
  <2> QED BY <1>19, <1>20, <1>21, <2>1 DEF Cfi!WritebuffSize
<1> QED BY <1>22, <1>23, <1>24, <1>25 DEF Cfi!CfiTellsGeometry, Q

-----------------------------------------------------------------------------
(* The capability bits of the input device.                                *)

PageConstants == /\ ByteWidth \in Nat \ {0} /\ MaxBit \in Nat /\ EV_MAX \in Nat

LEMMA PageAssumed == PageConstants
BY CpuThreadAssumptions DEF CpuThreadAssumptions, Page!BitsAssumption, PageConstants

\* Numbers are compared as their quotients are, and within one as their remainders.
LEMMA SplitOrder ==
    ASSUME NEW w \in Nat \ {0}, NEW i \in Nat, NEW j \in 0 .. w - 1,
           NEW k \in Nat, NEW m \in 0 .. w - 1
    PROVE  w * i + j <= w * k + m <=> i < k \/ (i = k /\ j <= m)
<1>1. ASSUME NEW p \in Nat, NEW q \in Nat, p < q PROVE w * p + w <= w * q
  <2>1. PICK d \in Nat : q = p + 1 + d
    BY <1>1
  <2>2. w * q = w * p + w + w * d /\ w * d \in Nat /\ w * p \in Nat
    BY <2>1
  <2> QED BY ONLY <2>2, w \in Nat, w * q \in Nat, SMT
<1>2. PICK u \in Nat : u = w * i
  OBVIOUS
<1>3. PICK v \in Nat : v = w * k
  OBVIOUS
<1>4. CASE i < k
  <2>1. u + w <= v
    BY <1>1, <1>2, <1>3, <1>4
  <2>2. u + j <= v + m
    BY ONLY <2>1, <1>2, <1>3, w \in Nat, j \in 0 .. w - 1, m \in 0 .. w - 1
  <2> QED BY <1>2, <1>3, <1>4, <2>2
<1>5. CASE k < i
  <2>1. v + w <= u
    BY <1>1, <1>2, <1>3, <1>5
  <2>2. ~(u + j <= v + m)
    BY ONLY <2>1, <1>2, <1>3, w \in Nat, j \in 0 .. w - 1, m \in 0 .. w - 1
  <2> QED BY <1>2, <1>3, <1>5, <2>2
<1>6. CASE i = k
  <2>1. u = v
    BY <1>2, <1>3, <1>6
  <2>2. u + j <= v + m <=> j <= m
    BY ONLY <2>1, <1>2, <1>3, j \in 0 .. w - 1, m \in 0 .. w - 1, w \in Nat
  <2> QED BY <1>2, <1>3, <1>6, <2>2
<1> QED BY <1>4, <1>5, <1>6

\* A number as its quotient and remainder.
LEMMA SplitParts ==
    ASSUME NEW w \in Nat \ {0}, NEW i \in Nat, NEW j \in 0 .. w - 1
    PROVE  (w * i + j) % w = j /\ (w * i + j) \div w = i
<1>1. PICK x \in Nat : x = w * i + j
  OBVIOUS
<1>2. Splits(x, w, i, j)
  BY <1>1 DEF Splits
<1>3. x % w = j
  BY <1>2, SplitUnique
<1>4. PICK q \in Nat : q = x \div w
  BY SplitOf
<1>5. x = w * q + j
  BY <1>3, <1>4, SplitOf
<1>6. q = i
  BY <1>1, <1>5, SplitOrder
<1> QED BY <1>1, <1>3, <1>4, <1>6

\* The bits l .. h of byte i.
Within(l, h, i, j) == l <= ByteWidth * i + j /\ ByteWidth * i + j <= h

LEMMA GrownHolds ==
    ASSUME NEW s \in Seq(SUBSET Page!Byte), NEW h \in Nat
    PROVE  /\ Page!Grown(s, h) \in Seq(SUBSET Page!Byte)
           /\ Len(Page!Grown(s, h)) >= Len(s)
           /\ h \div ByteWidth < Len(Page!Grown(s, h))
           /\ \A k \in 1 .. Len(Page!Grown(s, h)) :
                 Page!Grown(s, h)[k] = IF k <= Len(s) THEN s[k] ELSE {}
<1> DEFINE i == h \div ByteWidth
<1>1. i \in Nat
  BY PageAssumed, SplitOf DEF PageConstants
<1>2. CASE i >= Len(s)
  <2> DEFINE n == (i + 1) - Len(s)
             z == [k \in 1 .. n |-> {}]
  <2>1. n \in Nat /\ Len(s) \in Nat
    BY <1>1, <1>2
  <2>2. z \in Seq(SUBSET Page!Byte) /\ Len(z) = n
    <3>1. z \in [1 .. n -> SUBSET Page!Byte]
      OBVIOUS
    <3> HIDE DEF z
    <3> QED BY <2>1, <3>1
  <2>3. Page!Grown(s, h) = s \o z
    BY <1>2, Zenon DEF Page!Grown, Page!Resize
  <2> HIDE DEF z
  <2>4. Len(s \o z) = Len(s) + n /\ s \o z \in Seq(SUBSET Page!Byte)
    BY <2>2
  <2>5. ASSUME NEW k \in 1 .. Len(s) + n
        PROVE  (s \o z)[k] = IF k <= Len(s) THEN s[k] ELSE {}
    <3>1. CASE k <= Len(s)
      BY <2>1, <2>2, <3>1
    <3>2. CASE ~(k <= Len(s))
      <4>1. (s \o z)[k] = z[k - Len(s)] /\ k - Len(s) \in 1 .. n
        BY <2>1, <2>2, <3>2
      <4> QED BY <3>2, <4>1 DEF z
    <3> QED BY <3>1, <3>2
  <2>6. i < Len(s) + n
    BY <1>1, <2>1
  <2> QED BY <1>1, <2>1, <2>3, <2>4, <2>5, <2>6
<1>3. CASE ~(i >= Len(s))
  <2>1. Page!Grown(s, h) = s
    BY <1>3 DEF Page!Grown
  <2> QED BY <1>1, <1>3, <2>1
<1> QED BY <1>2, <1>3

LEMMA MergeHolds ==
    ASSUME NEW s \in Seq(SUBSET Page!Byte), NEW l \in Nat, NEW h \in Nat, l <= h,
           h \div ByteWidth < Len(s)
    PROVE  /\ Page!Merge(s, l, h) \in Seq(SUBSET Page!Byte)
           /\ Len(Page!Merge(s, l, h)) = Len(s)
           /\ \A k \in 1 .. Len(s), j \in Page!Byte :
                 j \in Page!Merge(s, l, h)[k] <=> j \in s[k] \/ Within(l, h, k - 1, j)
<1>0. ByteWidth \in Nat \ {0} /\ Page!Byte = 0 .. ByteWidth - 1
  BY PageAssumed DEF PageConstants, Page!Byte
<1>1. PICK il \in Nat : il = l \div ByteWidth
  BY <1>0, SplitOf
<1>2. PICK jl \in Page!Byte : jl = l % ByteWidth
  BY <1>0, SplitOf
<1>3. PICK ih \in Nat : ih = h \div ByteWidth
  BY <1>0, SplitOf
<1>4. PICK jh \in Page!Byte : jh = h % ByteWidth
  BY <1>0, SplitOf
<1>5. l = ByteWidth * il + jl /\ h = ByteWidth * ih + jh
  BY <1>0, <1>1, <1>2, <1>3, <1>4, SplitOf
<1>6. il < ih \/ (il = ih /\ jl <= jh)
  BY <1>0, <1>5, SplitOrder
<1>7. ASSUME NEW i \in Nat, NEW j \in Page!Byte
      PROVE  Within(l, h, i, j) <=> /\ il < i \/ (il = i /\ jl <= j)
                                    /\ i < ih \/ (i = ih /\ j <= jh)
  <2>1. l <= ByteWidth * i + j <=> il < i \/ (il = i /\ jl <= j)
    BY <1>0, <1>5, SplitOrder
  <2>2. ByteWidth * i + j <= h <=> i < ih \/ (i = ih /\ j <= jh)
    BY <1>0, <1>5, SplitOrder
  <2> QED BY <2>1, <2>2 DEF Within
<1>8. /\ Page!MaskL(l) = {j \in Page!Byte : j >= jl}
      /\ Page!MaskH(h) = {j \in Page!Byte : j <= jh}
  BY <1>2, <1>4 DEF Page!MaskL, Page!MaskH
<1>9. CASE il >= ih
  <2> DEFINE m == [s EXCEPT ![ih + 1] = @ \cup (Page!MaskH(h) \cap Page!MaskL(l))]
  <2>1. Page!Merge(s, l, h) = m
    BY <1>1, <1>3, <1>9 DEF Page!Merge
  <2>2. ih + 1 \in 1 .. Len(s) /\ il = ih
    BY <1>3, <1>6, <1>9
  <2>3. m \in Seq(SUBSET Page!Byte) /\ Len(m) = Len(s)
    <3>1. s[ih + 1] \cup (Page!MaskH(h) \cap Page!MaskL(l)) \in SUBSET Page!Byte
      BY <1>8, <2>2
    <3> QED BY <2>2, <3>1
  <2>4. ASSUME NEW k \in 1 .. Len(s), NEW j \in Page!Byte
        PROVE  j \in m[k] <=> j \in s[k] \/ Within(l, h, k - 1, j)
    <3>1. Within(l, h, k - 1, j) <=> k = ih + 1 /\ jl <= j /\ j <= jh
      BY <1>0, <1>7, <2>2
    <3>2. CASE k = ih + 1
      <4>1. m[k] = s[k] \cup (Page!MaskH(h) \cap Page!MaskL(l))
        BY <2>2, <3>2
      <4> QED BY <1>8, <1>0, <3>1, <3>2, <4>1
    <3>3. CASE k # ih + 1
      BY <2>2, <3>1, <3>3
    <3> QED BY <3>2, <3>3
  <2> QED BY <2>1, <2>3, <2>4
<1>10. CASE ~(il >= ih)
  <2> DEFINE m == [k \in 1 .. Len(s) |->
                CASE k - 1 = il -> s[k] \cup Page!MaskL(l)
                  [] k - 1 = ih -> s[k] \cup Page!MaskH(h)
                  [] il < k - 1 /\ k - 1 < ih -> Page!Byte
                  [] OTHER -> s[k]]
  <2>1. Page!Merge(s, l, h) = m
    BY <1>1, <1>3, <1>10 DEF Page!Merge
  <2>2. ASSUME NEW k \in 1 .. Len(s)
        PROVE  /\ k - 1 = il => m[k] = s[k] \cup Page!MaskL(l)
               /\ k - 1 = ih => m[k] = s[k] \cup Page!MaskH(h)
               /\ il < k - 1 /\ k - 1 < ih => m[k] = Page!Byte
               /\ k - 1 < il \/ ih < k - 1 => m[k] = s[k]
    BY <1>10
  <2>3. \A k \in 1 .. Len(s) : s[k] \in SUBSET Page!Byte
    OBVIOUS
  <2> HIDE DEF m
  <2>4. \A k \in 1 .. Len(s) : m[k] \in SUBSET Page!Byte
    BY <1>8, <2>2, <2>3
  <2>5. m \in Seq(SUBSET Page!Byte) /\ Len(m) = Len(s)
    BY <2>4 DEF m
  <2>6. ASSUME NEW k \in 1 .. Len(s), NEW j \in Page!Byte
        PROVE  j \in m[k] <=> j \in s[k] \/ Within(l, h, k - 1, j)
    <3>1. k - 1 \in Nat
      OBVIOUS
    <3>2. Within(l, h, k - 1, j) <=> /\ il < k - 1 \/ (il = k - 1 /\ jl <= j)
                                     /\ k - 1 < ih \/ (k - 1 = ih /\ j <= jh)
      BY <1>7, <3>1
    <3>3. CASE k - 1 = il
      BY <1>0, <1>8, <1>10, <2>2, <3>2, <3>3
    <3>4. CASE k - 1 = ih
      BY <1>0, <1>8, <1>10, <2>2, <3>2, <3>4
    <3>5. CASE il < k - 1 /\ k - 1 < ih
      BY <1>0, <1>10, <2>2, <3>2, <3>5
    <3>6. CASE k - 1 < il \/ ih < k - 1
      BY <1>0, <1>10, <2>2, <3>2, <3>6
    <3> QED BY <3>1, <3>3, <3>4, <3>5, <3>6
  <2> QED BY <2>1, <2>5, <2>6
<1> QED BY <1>9, <1>10

PageByte(s, n) == n \div ByteWidth < Len(s) /\ n % ByteWidth \in s[(n \div ByteWidth) + 1]

\* The bytes show exactly the bits entered.
PageInv ==
    /\ evBits \in [Page!Types -> Seq(SUBSET Page!Byte)]
    /\ wanted \in [Page!Types -> SUBSET Nat]
    /\ \A t \in Page!Types : \A n \in Nat : n \in wanted[t] <=> PageByte(evBits[t], n)

LEMMA PageInitHolds == Page!Init => PageInv
<1> SUFFICES ASSUME Page!Init PROVE PageInv
  OBVIOUS
<1>1. evBits \in [Page!Types -> Seq(SUBSET Page!Byte)] /\ wanted \in [Page!Types -> SUBSET Nat]
  BY DEF Page!Init
<1>2. ASSUME NEW t \in Page!Types, NEW n \in Nat PROVE n \in wanted[t] <=> PageByte(evBits[t], n)
  <2>1. wanted[t] = {} /\ evBits[t] = <<>>
    BY DEF Page!Init
  <2>2. ~PageByte(<<>>, n)
    <3>1. PICK q \in Nat : q = n \div ByteWidth
      BY SplitOf, PageAssumed DEF PageConstants
    <3>2. ~(q < Len(<<>>))
      OBVIOUS
    <3> QED BY <3>1, <3>2, Zenon DEF PageByte
  <2> QED BY <2>1, <2>2
<1> QED BY <1>1, <1>2 DEF PageInv

LEMMA PageStep == PageInv /\ Page!Next => PageInv'
<1> SUFFICES ASSUME PageInv, NEW t \in Page!Types, NEW l \in 0 .. MaxBit, NEW h \in 0 .. MaxBit,
                    l <= h, Page!SetEventBits(t, l, h)
             PROVE  PageInv'
  BY DEF Page!Next
<1>0. ByteWidth \in Nat \ {0} /\ Page!Byte = 0 .. ByteWidth - 1 /\ l \in Nat /\ h \in Nat
  BY PageAssumed DEF PageConstants, Page!Byte
<1>1. PICK s \in Seq(SUBSET Page!Byte) : s = evBits[t]
  BY DEF PageInv
<1>2. PICK g \in Seq(SUBSET Page!Byte) :
         /\ g = Page!Grown(s, h) /\ Len(g) >= Len(s) /\ h \div ByteWidth < Len(g)
         /\ \A k \in 1 .. Len(g) : g[k] = IF k <= Len(s) THEN s[k] ELSE {}
  BY <1>0, GrownHolds
<1>3. PICK m \in Seq(SUBSET Page!Byte) :
         /\ m = Page!Merge(g, l, h) /\ Len(m) = Len(g)
         /\ \A k \in 1 .. Len(g), j \in Page!Byte :
               j \in m[k] <=> j \in g[k] \/ Within(l, h, k - 1, j)
  <2>1. /\ Page!Merge(g, l, h) \in Seq(SUBSET Page!Byte)
        /\ Len(Page!Merge(g, l, h)) = Len(g)
        /\ \A k \in 1 .. Len(g), j \in Page!Byte :
              j \in Page!Merge(g, l, h)[k] <=> j \in g[k] \/ Within(l, h, k - 1, j)
    BY <1>0, <1>2, MergeHolds, Zenon
  <2> QED BY <2>1, Zenon
<1>4. evBits' = [evBits EXCEPT ![t] = m]
  BY <1>1, <1>2, <1>3 DEF Page!SetEventBits
<1>5. wanted' = [wanted EXCEPT ![t] = wanted[t] \cup l .. h]
  BY DEF Page!SetEventBits
<1>6. ASSUME NEW n \in Nat
      PROVE  PageByte(m, n) <=> PageByte(s, n) \/ n \in l .. h
  <2>1. PICK i \in Nat : i = n \div ByteWidth
    BY <1>0, SplitOf
  <2>2. PICK j \in Page!Byte : j = n % ByteWidth
    BY <1>0, SplitOf
  <2>3. n = ByteWidth * i + j
    BY <1>0, <2>1, <2>2, SplitOf
  <2>4. Within(l, h, i, j) <=> n \in l .. h
    BY <1>0, <2>3 DEF Within
  <2>5. n \in l .. h => i < Len(g)
    <3>1. PICK q \in Nat : q = h \div ByteWidth
      BY <1>0, SplitOf
    <3>2. PICK r \in Page!Byte : r = h % ByteWidth
      BY <1>0, SplitOf
    <3>3. h = ByteWidth * q + r
      BY <1>0, <3>1, <3>2, SplitOf
    <3>4. ByteWidth * i + j <= ByteWidth * q + r <=> i < q \/ (i = q /\ j <= r)
      BY <1>0, SplitOrder, Zenon
    <3>5. n \in l .. h => i <= q
      BY <1>0, <2>3, <3>3, <3>4
    <3>6. Len(g) \in Nat /\ q < Len(g)
      BY <1>2, <3>1
    <3> QED BY <3>5, <3>6
  <2>6. CASE i < Len(g)
    <3>1. i + 1 \in 1 .. Len(g) /\ (i + 1) - 1 = i
      BY <2>6
    <3>2. j \in m[i + 1] <=> j \in g[i + 1] \/ Within(l, h, i, j)
      BY <1>3, <3>1
    <3>3. g[i + 1] = IF i + 1 <= Len(s) THEN s[i + 1] ELSE {}
      BY <1>2, <3>1
    <3>4. i + 1 <= Len(s) <=> i < Len(s)
      OBVIOUS
    <3> QED BY <1>3, <2>1, <2>2, <2>4, <2>6, <3>2, <3>3, <3>4 DEF PageByte
  <2>7. CASE ~(i < Len(g))
    <3>1. ~(i < Len(s)) /\ ~(i < Len(m))
      BY <1>2, <1>3, <2>7
    <3> QED BY <2>1, <2>5, <2>7, <3>1 DEF PageByte
  <2> QED BY <2>6, <2>7
<1>7. evBits' \in [Page!Types -> Seq(SUBSET Page!Byte)] /\ wanted' \in [Page!Types -> SUBSET Nat]
  <2>1. wanted[t] \cup l .. h \in SUBSET Nat
    BY <1>0 DEF PageInv
  <2> QED BY <1>4, <1>5, <2>1 DEF PageInv
<1>8. ASSUME NEW u \in Page!Types, NEW n \in Nat
      PROVE  n \in wanted'[u] <=> PageByte(evBits'[u], n)
  <2>1. CASE u = t
    <3>1. evBits'[u] = m /\ wanted'[u] = wanted[t] \cup l .. h
      BY <1>4, <1>5, <2>1 DEF PageInv
    <3>2. n \in wanted[t] <=> PageByte(s, n)
      BY <1>1 DEF PageInv
    <3> QED BY <1>6, <3>1, <3>2
  <2>2. CASE u # t
    <3>1. evBits'[u] = evBits[u] /\ wanted'[u] = wanted[u]
      BY <1>4, <1>5, <2>2 DEF PageInv
    <3> QED BY <3>1 DEF PageInv
  <2> QED BY <2>1, <2>2
<1> QED BY <1>7, <1>8 DEF PageInv

LEMMA PagesFollow == PageInv => Page!PagesShowBits
<1> SUFFICES ASSUME PageInv, NEW t \in Page!Types
             PROVE  wanted[t] = {n \in 0 .. ByteWidth * Page!PageLen(t) :
                                   n % ByteWidth \in Page!PageData(t, n \div ByteWidth)}
  BY DEF Page!PagesShowBits
<1>0. ByteWidth \in Nat \ {0}
  BY PageAssumed DEF PageConstants
<1>1. PICK s \in Seq(SUBSET Page!Byte) : s = evBits[t]
  BY DEF PageInv
<1>2. Page!PageLen(t) = Len(s) /\ Len(s) \in Nat /\ ByteWidth * Len(s) \in Nat
  BY <1>0, <1>1 DEF Page!PageLen
<1>3. ASSUME NEW n \in Nat
      PROVE  n % ByteWidth \in Page!PageData(t, n \div ByteWidth) <=> PageByte(s, n)
  <2>1. n \div ByteWidth \in Nat
    BY <1>0, SplitOf
  <2>2. n \div ByteWidth >= Page!PageLen(t) <=> ~(n \div ByteWidth < Len(s))
    BY <1>2, <2>1
  <2> QED BY <1>1, <2>2 DEF Page!PageData, PageByte
<1>4. ASSUME NEW n \in Nat, PageByte(s, n) PROVE n \in 0 .. ByteWidth * Len(s)
  <2>1. PICK i \in Nat : i = n \div ByteWidth
    BY <1>0, SplitOf
  <2>2. PICK j \in 0 .. ByteWidth - 1 : j = n % ByteWidth
    BY <1>0, SplitOf
  <2>3. n = ByteWidth * i + j /\ i < Len(s)
    BY <1>0, <1>4, <2>1, <2>2, SplitOf DEF PageByte
  <2>4. ByteWidth * i + j <= ByteWidth * Len(s) + 0
    BY <1>0, <1>2, <2>3, SplitOrder
  <2> QED BY <1>2, <2>3, <2>4
<1>5. wanted[t] \subseteq Nat /\ \A n \in Nat : n \in wanted[t] <=> PageByte(s, n)
  BY <1>1 DEF PageInv
<1> QED BY <1>2, <1>3, <1>4, <1>5

\* The guest finds the machine that was built, whatever the size of its memory, with
\* or without a disk, for every flash geometry the table can express and whatever
\* bits are entered in whatever order: add_device accepts every device of the
\* emulator's map and no two share an interrupt, cfi_query tells the true geometry,
\* and the pages of the input device show exactly the bits that were set.
THEOREM DevicesHold == Spec => []DevicesAreFound
<1> DEFINE Inv == /\ part = "board" => BoardInv
                  /\ part = "cfi" => CfiInv
                  /\ part = "pages" => PageInv
<1>1. Init => Inv
  <2> SUFFICES ASSUME Init PROVE Inv
    OBVIOUS
  <2>1. part = "board" => BoardInv
    <3>1. part = "board" => Board!Init
      BY Zenon DEF Init
    <3> QED BY <3>1, BoardInitHolds, Zenon
  <2>2. part = "cfi" => CfiInv
    BY Zenon DEF Init, Cfi!Init, CfiInv
  <2>3. part = "pages" => PageInv
    <3>1. Page!Init
      BY Zenon DEF Init
    <3> QED BY <3>1, PageInitHolds, Zenon
  <2> QED BY <2>1, <2>2, <2>3, Zenon
<1>2. Inv /\ [Next]_vars => Inv'
  <2> SUFFICES ASSUME Inv, [Next]_vars PROVE Inv'
    OBVIOUS
  <2>0. UNCHANGED part
    BY Zenon DEF Next, vars
  <2>1. part = "board" => BoardInv'
    <3> SUFFICES ASSUME part = "board" PROVE BoardInv'
      OBVIOUS
    <3>1. CASE UNCHANGED busVars
      BY <3>1, Zenon DEF busVars, BoardInv, BoardRest
    <3>2. CASE Board!Next
      BY <3>2, BoardStep, Zenon
    <3> QED BY <3>1, <3>2, Zenon DEF Next, vars
  <2>2. part = "cfi" => CfiInv'
    BY Zenon DEF Next, vars, cfiVars, Cfi!Next, CfiInv
  <2>3. part = "pages" => PageInv'
    <3> SUFFICES ASSUME part = "pages" PROVE PageInv'
      OBVIOUS
    <3>1. CASE UNCHANGED bitVars
      BY <3>1, Zenon DEF bitVars, PageInv, PageByte
    <3>2. CASE Page!Next
      BY <3>2, PageStep, Zenon
    <3> QED BY <3>1, <3>2, Zenon DEF Next, vars
  <2> QED BY <2>0, <2>1, <2>2, <2>3, Zenon
<1>3. Inv => DevicesAreFound
  BY BoardFollows, CfiTells, PagesFollow, Zenon DEF DevicesAreFound
<1> QED BY <1>1, <1>2, <1>3, PTL DEF Spec
==============================================================================
