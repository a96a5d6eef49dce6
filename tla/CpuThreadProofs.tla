-------------------------- MODULE CpuThreadProofs ---------------------------
(* Proofs about what only the CPU thread does, for every size of its       *)
(* memories, registers and queues.  The parts have no variable in common,  *)
(* so each has an inductive invariant of its own.                          *)
EXTENDS CpuThread, WellFoundedInduction, TLAPS

-----------------------------------------------------------------------------
(* Numbers.                                                                *)

LEMMA NatSetHasMin ==
    ASSUME NEW T \in SUBSET Nat, T # {}
    PROVE  \E x \in T : \A y \in T : x <= y
<1>1. PICK x \in T : \A y \in T : ~(<<y, x>> \in OpToRel(<, Nat))
  BY NatLessThanWellFounded, WFMin
<1>2. \A y \in T : ~(y < x)
  BY <1>1 DEF OpToRel
<1> QED BY <1>2

\* A set of numbers up to n has a greatest one.
LEMMA BoundedSetHasMax ==
    ASSUME NEW n \in Nat, NEW T \in SUBSET (0 .. n), T # {}
    PROVE  \E x \in T : \A y \in T : y <= x
<1> DEFINE D == {n - x : x \in T}
<1>0. \A x \in T : n - x \in Nat
  OBVIOUS
<1>1. D \in SUBSET Nat /\ D # {}
  BY <1>0
<1>2. PICK d \in D : \A e \in D : d <= e
  BY <1>1, NatSetHasMin
<1>3. PICK x \in T : d = n - x
  BY <1>2
<1>4. ASSUME NEW y \in T PROVE y <= x
  <2>1. d <= n - y
    BY <1>2
  <2> QED BY <1>3, <2>1
<1> QED BY <1>4

LEMMA SplitOf ==
    ASSUME NEW h \in Nat \ {0}, NEW x \in Nat
    PROVE  x = h * (x \div h) + (x % h) /\ x \div h \in Nat /\ x % h \in 0 .. h - 1
OBVIOUS

Splits(x, h, k, s) == x = h * k + s

LEMMA SplitUnique ==
    ASSUME NEW h \in Nat \ {0}, NEW k \in Nat, NEW s \in 0 .. h - 1, NEW x \in Nat,
           Splits(x, h, k, s)
    PROVE  x % h = s
<1>0. x = h * k + s
  BY DEF Splits
<1>1. PICK q \in Nat : q = x \div h
  BY SplitOf
<1>2. PICK r \in 0 .. h - 1 : r = x % h
  BY SplitOf
<1>3. x = h * q + r
  BY <1>1, <1>2, SplitOf
<1>4. ASSUME NEW m \in Nat, NEW n \in Nat, m < n PROVE h * m + h <= h * n
  <2>1. PICK d \in Nat : n = m + 1 + d
    BY <1>4
  <2>2. h * n = h * m + h + h * d
    BY <2>1
  <2>3. h * d \in Nat
    OBVIOUS
  <2>4. PICK e \in Nat : e = h * d
    BY <2>3
  <2>5. PICK g \in Nat : g = h * m
    OBVIOUS
  <2> QED BY ONLY h \in Nat, <2>2, <2>4, <2>5
<1>5. PICK u \in Nat : u = h * q
  OBVIOUS
<1>6. PICK w \in Nat : w = h * k
  OBVIOUS
<1>7. u + r = w + s
  BY <1>0, <1>3, <1>5, <1>6
<1>8. CASE q < k
  <2>1. u + h <= w
    BY <1>4, <1>5, <1>6, <1>8
  <2> QED BY ONLY <1>5, <1>6, <1>2, <1>7, <2>1, h \in Nat, s \in 0 .. h - 1
<1>9. CASE k < q
  <2>1. w + h <= u
    BY <1>4, <1>5, <1>6, <1>9
  <2> QED BY ONLY <1>5, <1>6, <1>2, <1>7, <2>1, h \in Nat, s \in 0 .. h - 1
<1>10. CASE k = q
  <2>1. u = w
    BY <1>5, <1>6, <1>10
  <2>2. r = s
    BY ONLY <1>5, <1>6, <1>2, <1>7, <2>1, h \in Nat, s \in 0 .. h - 1
  <2> QED BY <1>2, <2>2
<1> QED BY <1>8, <1>9, <1>10

LEMMA ModAdd ==
    ASSUME NEW h \in Nat \ {0}, NEW x \in Nat, NEW y \in Nat
    PROVE  (x + (y % h)) % h = (x + y) % h
<1>1. PICK q \in Nat : q = y \div h
  BY SplitOf
<1>2. PICK r \in 0 .. h - 1 : r = y % h
  BY SplitOf
<1>3. y = h * q + r
  BY <1>1, <1>2, SplitOf
<1>4. x + r \in Nat
  OBVIOUS
<1>5. PICK p \in Nat : p = (x + r) \div h
  BY <1>4, SplitOf
<1>6. PICK s \in 0 .. h - 1 : s = (x + r) % h
  BY <1>4, SplitOf
<1>7. x + r = h * p + s
  BY <1>4, <1>5, <1>6, SplitOf
<1>8. q + p \in Nat /\ x + y \in Nat /\ h * (q + p) = h * q + h * p
  <2>1. h * (q + p) = h * q + h * p
    OBVIOUS
  <2>2. q + p \in Nat /\ x + y \in Nat
    OBVIOUS
  <2> QED BY <2>1, <2>2, Zenon
<1>9. x + y = h * (q + p) + s
  <2>1. PICK u \in Nat : u = h * q
    OBVIOUS
  <2>2. PICK w \in Nat : w = h * p
    OBVIOUS
  <2> QED BY <1>3, <1>7, <1>8, <2>1, <2>2
<1>10. (x + y) % h = s
  <2>1. PICK k \in Nat : k = q + p
    BY <1>8
  <2>2. PICK z \in Nat : z = x + y
    BY <1>8
  <2>3. Splits(z, h, k, s)
    BY <1>9, <2>1, <2>2 DEF Splits
  <2>4. z % h = s
    BY <2>3, SplitUnique
  <2> QED BY <2>2, <2>4
<1> QED BY <1>2, <1>6, <1>10

LEMMA TimesLess ==
    ASSUME NEW h \in Nat, NEW m \in Nat, NEW n \in Nat, m < n
    PROVE  h * m + h <= h * n
<1>1. PICK d \in Nat : n = m + 1 + d
  OBVIOUS
<1>2. h * n = h * m + h + h * d
  BY <1>1
<1>3. PICK e \in Nat : e = h * d
  OBVIOUS
<1>4. PICK g \in Nat : g = h * m
  OBVIOUS
<1> QED BY ONLY h \in Nat, <1>2, <1>3, <1>4

LEMMA SplitUniqueDiv ==
    ASSUME NEW h \in Nat \ {0}, NEW k \in Nat, NEW s \in 0 .. h - 1, NEW x \in Nat,
           Splits(x, h, k, s)
    PROVE  x \div h = k
<1>1. PICK q \in Nat : q = x \div h
  BY SplitOf
<1>2. x = h * q + s /\ x = h * k + s
  <2>1. x % h = s
    BY SplitUnique
  <2> QED BY <1>1, <2>1, SplitOf DEF Splits
<1>3. PICK u \in Nat : u = h * q
  OBVIOUS
<1>4. PICK w \in Nat : w = h * k
  OBVIOUS
<1>5. u = w
  BY ONLY <1>2, <1>3, <1>4, x \in Nat, s \in 0 .. h - 1, h \in Nat
<1>6. ~(q < k)
  <2> SUFFICES ASSUME q < k PROVE FALSE
    OBVIOUS
  <2>1. h * q + h <= h * k
    BY TimesLess
  <2> QED BY ONLY <2>1, <1>3, <1>4, <1>5, h \in Nat \ {0}
<1>7. ~(k < q)
  <2> SUFFICES ASSUME k < q PROVE FALSE
    OBVIOUS
  <2>1. h * k + h <= h * q
    BY TimesLess
  <2> QED BY ONLY <2>1, <1>3, <1>4, <1>5, h \in Nat \ {0}
<1> QED BY <1>1, <1>6, <1>7

-----------------------------------------------------------------------------
(* The flash.                                                              *)

FlashWord == Data \cup {Flash!Erased}
FlashMembers(f) ==
    /\ DOMAIN f = {"storage", "wcycle", "cmd", "ready", "error", "counter", "blk",
                   "blkOffset", "readMode"}
    /\ f.storage \in [Flash!Words -> FlashWord]
    /\ f.wcycle \in 0 .. 3 /\ f.cmd \in Flash!Commands \ {\hFF}
    /\ f.error \in BOOLEAN /\ f.readMode \in BOOLEAN /\ f.counter \in Nat
    /\ f.blkOffset \in {-1} \cup {o \in Flash!Words : o % WriteBlock = 0}

\* The open block holds the storage with the words of the session over it, and
\* unless an error is flagged all of them lie in it.
BlockHolds(f, s) ==
    /\ f.blk \in [1 .. WriteBlock -> FlashWord]
    /\ \A k \in 1 .. WriteBlock :
          f.blk[k] = Flash!Overlay(f.storage, s)[f.blkOffset + k - 1]
    /\ ~f.error => \A k \in 1 .. Len(s) :
          s[k][1] \in f.blkOffset .. f.blkOffset + WriteBlock - 1

FlashBlock(f, s) ==
    IF f.blkOffset = -1
    THEN (f.wcycle = 3 => f.error) /\ (f.wcycle # 3 => s = <<>>)
    ELSE f.wcycle \in {2, 3} /\ BlockHolds(f, s)

FlashInv ==
    /\ FlashMembers(flash)
    /\ session \in Seq(Flash!Words \X Data)
    /\ flash.readMode <=> flash.cmd = \h00
    /\ flash.readMode => flash.wcycle = 0
    /\ flash.wcycle \in {2, 3} => flash.cmd = \hE8
    /\ flash.wcycle \notin {2, 3} => session = <<>>
    /\ FlashBlock(flash, session)

LEMMA FlashConstants ==
    /\ SectorLen \in Nat \ {0} /\ FlashBlocks \in Nat \ {0} /\ WriteBlock \in Nat \ {0}
    /\ SectorLen % WriteBlock = 0 /\ WordCounts \subseteq Nat
    /\ Images \subseteq [Flash!Words -> FlashWord]
BY CpuThreadAssumptions DEF Flash!PFlashAssumption, FlashWord

LEMMA FlashInit == Flash!Init => FlashInv
<1> SUFFICES ASSUME Flash!Init PROVE FlashInv
  OBVIOUS
<1>1. FlashMembers(flash)
  <2>1. PICK i \in Images :
          flash = [storage |-> i, wcycle |-> 0, cmd |-> \h00, ready |-> TRUE,
                   error |-> FALSE, counter |-> 0, blk |-> <<>>, blkOffset |-> -1,
                   readMode |-> TRUE]
    BY DEF Flash!Init
  <2> QED BY <2>1, FlashConstants DEF FlashMembers, Flash!Commands
<1>2. session \in Seq(Flash!Words \X Data) /\ session = <<>>
  BY DEF Flash!Init
<1>3. flash.readMode = TRUE /\ flash.cmd = \h00 /\ flash.wcycle = 0 /\ flash.blkOffset = -1
  BY DEF Flash!Init
<1> QED BY <1>1, <1>2, <1>3 DEF FlashInv, FlashBlock

\* A write block that holds a word lies in the flash.
LEMMA BlockInside ==
    ASSUME NEW o \in Flash!Words
    PROVE  /\ o - (o % WriteBlock) \in Flash!Words
           /\ (o - (o % WriteBlock)) % WriteBlock = 0
           /\ o - (o % WriteBlock) + WriteBlock <= SectorLen * FlashBlocks
           /\ o - (o % WriteBlock) <= o /\ o < o - (o % WriteBlock) + WriteBlock
<1> DEFINE W == WriteBlock
           q == o \div W
           s == SectorLen \div W
           n == s * FlashBlocks
<1>1. W \in Nat \ {0} /\ o \in Nat /\ SectorLen \in Nat /\ FlashBlocks \in Nat
  BY FlashConstants DEF Flash!Words
<1>2. o = W * q + (o % W) /\ q \in Nat /\ o % W \in 0 .. W - 1
  BY <1>1, SplitOf
<1>3. SectorLen = W * s + (SectorLen % W) /\ s \in Nat
  BY <1>1, SplitOf
<1>4. SectorLen = W * s /\ n \in Nat
  BY <1>1, <1>3, FlashConstants
<1> HIDE DEF W, q, s
<1>5. SectorLen * FlashBlocks = W * n
  BY <1>1, <1>3, <1>4
<1> HIDE DEF n
<1>6. W * q < W * n
  BY <1>1, <1>2, <1>5, <1>4 DEF Flash!Words
<1>7. q + 1 <= n
  <2>1. ASSUME n <= q PROVE FALSE
    <3>1. W * n <= W * q
      BY <1>1, <1>2, <1>4, <2>1
    <3> QED BY <1>1, <1>2, <1>4, <1>6, <3>1
  <2> QED BY <1>2, <1>4, <2>1
<1>8. W * (q + 1) <= W * n
  BY <1>1, <1>2, <1>4, <1>7
<1>9. W * q + W <= SectorLen * FlashBlocks
  BY <1>1, <1>2, <1>4, <1>5, <1>8
<1>10. o - (o % W) = W * q /\ W * q \in Nat
  BY <1>1, <1>2
<1>11. (W * q) % W = 0
  BY <1>1, <1>2
<1>12. W * q \in Flash!Words
  BY <1>1, <1>2, <1>10, <1>9 DEF Flash!Words
<1>13. W * q <= o /\ o < W * q + W
  BY <1>1, <1>2, <1>10
<1> QED BY <1>9, <1>10, <1>11, <1>12, <1>13 DEF W
\* What the words of a session make of the storage.
LEMMA OverlayEmpty ==
    ASSUME NEW st \in [Flash!Words -> FlashWord], NEW w \in Flash!Words
    PROVE  Flash!Overlay(st, <<>>)[w] = st[w]
BY DEF Flash!Overlay, Flash!Written

LEMMA LastWritten ==
    ASSUME NEW s \in Seq(Flash!Words \X Data), NEW w \in Flash!Words,
           Flash!Written(s, w) # {}
    PROVE  LET c == CHOOSE k \in Flash!Written(s, w) : \A j \in Flash!Written(s, w) : j <= k
           IN  /\ c \in Flash!Written(s, w) /\ c \in 1 .. Len(s)
               /\ \A j \in Flash!Written(s, w) : j <= c
<1> DEFINE T == Flash!Written(s, w)
<1>1. Len(s) \in Nat /\ DOMAIN s = 1 .. Len(s)
  OBVIOUS
<1>2. T \in SUBSET (0 .. Len(s)) /\ T \subseteq 1 .. Len(s) /\ T # {}
  BY <1>1 DEF Flash!Written
<1>3. \E x \in T : \A y \in T : y <= x
  <2> HIDE DEF T
  <2> QED BY <1>1, <1>2, BoundedSetHasMax
<1> DEFINE c == CHOOSE k \in T : \A j \in T : j <= k
<1>4. c \in T /\ \A j \in T : j <= c
  <2> HIDE DEF T
  <2> QED BY <1>3
<1> QED BY <1>2, <1>4, Zenon

LEMMA OverlayType ==
    ASSUME NEW st \in [Flash!Words -> FlashWord], NEW s \in Seq(Flash!Words \X Data)
    PROVE  Flash!Overlay(st, s) \in [Flash!Words -> FlashWord]
<1> SUFFICES ASSUME NEW w \in Flash!Words
             PROVE  (IF Flash!Written(s, w) = {} THEN st[w]
                     ELSE s[CHOOSE k \in Flash!Written(s, w) :
                               \A j \in Flash!Written(s, w) : j <= k][2]) \in FlashWord
  BY DEF Flash!Overlay
<1>1. CASE Flash!Written(s, w) = {}
  BY <1>1
<1>2. CASE Flash!Written(s, w) # {}
  <2> DEFINE c == CHOOSE k \in Flash!Written(s, w) : \A j \in Flash!Written(s, w) : j <= k
  <2>1. c \in 1 .. Len(s)
    BY <1>2, LastWritten
  <2> HIDE DEF c
  <2>2. s[c] \in Flash!Words \X Data
    BY <2>1
  <2>3. s[c][2] \in FlashWord
    BY <2>2 DEF FlashWord
  <2> QED BY <1>2, <2>3 DEF c
<1> QED BY <1>1, <1>2

LEMMA OverlayAppend ==
    ASSUME NEW st \in [Flash!Words -> FlashWord], NEW s \in Seq(Flash!Words \X Data),
           NEW o \in Flash!Words, NEW v \in Data, NEW w \in Flash!Words
    PROVE  Flash!Overlay(st, Append(s, <<o, v>>))[w] =
             IF w = o THEN v ELSE Flash!Overlay(st, s)[w]
<1> DEFINE t == Append(s, <<o, v>>)
           n == Len(s) + 1
           T == Flash!Written(t, w)
           c == CHOOSE k \in T : \A j \in T : j <= k
<1>1. /\ t \in Seq(Flash!Words \X Data) /\ Len(t) = n /\ Len(s) \in Nat
      /\ DOMAIN t = 1 .. n /\ DOMAIN s = 1 .. Len(s)
      /\ t[n] = <<o, v>> /\ \A k \in 1 .. Len(s) : t[k] = s[k]
  OBVIOUS
<1> HIDE DEF t, n
<1>2. T = Flash!Written(s, w) \cup (IF w = o THEN {n} ELSE {})
  BY <1>1 DEF Flash!Written, n
<1>3. Flash!Overlay(st, t)[w] = IF T = {} THEN st[w] ELSE t[c][2]
  BY DEF Flash!Overlay
<1>4. CASE w = o
  <2>1. n \in T
    BY <1>2, <1>4
  <2>2. T # {}
    BY <2>1
  <2>3. c \in 1 .. n /\ \A j \in T : j <= c
    BY <1>1, <2>2, LastWritten
  <2> HIDE DEF c, T
  <2>4. c = n
    BY <1>1, <2>1, <2>3 DEF n
  <2> QED BY <1>1, <1>3, <1>4, <2>2, <2>4 DEF t
<1>5. CASE w # o
  <2>1. T = Flash!Written(s, w)
    BY <1>2, <1>5
  <2>2. Flash!Overlay(st, s)[w] = IF T = {} THEN st[w] ELSE s[c][2]
    BY <2>1 DEF Flash!Overlay
  <2>3. T # {} => c \in 1 .. Len(s)
    BY <2>1, LastWritten
  <2> HIDE DEF c, T
  <2>4. T # {} => t[c] = s[c]
    BY <1>1, <2>3
  <2> QED BY <1>3, <1>5, <2>2, <2>4 DEF t
<1> QED BY <1>4, <1>5

\* A step that leaves no block open and the machine outside of a session.
LEMMA FlashRests ==
    ASSUME NEW f, NEW s, FlashMembers(f), f.blkOffset = -1, s = <<>>, f.wcycle # 3,
           f.wcycle = 2 => f.cmd = \hE8, f.readMode <=> f.cmd = \h00,
           f.readMode => f.wcycle = 0, flash' = f, session' = s
    PROVE  FlashInv'
<1>1. FlashBlock(f, s)
  BY DEF FlashBlock
<1>2. s \in Seq(Flash!Words \X Data)
  OBVIOUS
<1> QED BY <1>1, <1>2 DEF FlashInv

LEMMA ReadArray ==
    ASSUME NEW f, FlashMembers(f), NEW g, g = Flash!ModeReadArray(f)
    PROVE  /\ FlashMembers(g) /\ g.readMode = TRUE /\ g.cmd = \h00 /\ g.wcycle = 0
           /\ g.blkOffset = f.blkOffset /\ g.storage = f.storage /\ g.error = f.error
BY DEF FlashMembers, Flash!ModeReadArray, Flash!Commands

\* The first cycle.
LEMMA Cycle0Members ==
    ASSUME NEW f, FlashMembers(f), f.wcycle = 0, NEW o \in Flash!Words,
           NEW v \in Flash!Commands \cup {\h01, \hD0}, NEW g, g = Flash!Cycle0(f, o, v)
    PROVE  /\ FlashMembers(g) /\ g.blkOffset = f.blkOffset /\ g.wcycle \in {0, 1}
           /\ (g.readMode <=> g.cmd = \h00) /\ (g.readMode => g.wcycle = 0)
<1>1. PICK h : h = [f EXCEPT !.readMode = FALSE]
  OBVIOUS
<1>2. FlashMembers(h) /\ h.blkOffset = f.blkOffset /\ h.readMode = FALSE /\ h.wcycle = 0
  BY <1>1 DEF FlashMembers
<1>3. CASE v \in {\h10, \h60, \h98}
  <2>1. g = [h EXCEPT !.wcycle = 1, !.cmd = v]
    BY <1>1, <1>3 DEF Flash!Cycle0
  <2> QED BY <1>2, <1>3, <2>1 DEF FlashMembers, Flash!Commands
<1>4. CASE v = \h20
  <2>0. v \notin {\h10, \h60, \h98}
    BY <1>4
  <2>1. PICK i : i = Flash!EraseSector(h, o)
    OBVIOUS
  <2>2. PICK j : j = Flash!Ready(i)
    OBVIOUS
  <2>3. g = [j EXCEPT !.wcycle = 1, !.cmd = v]
    BY <1>1, <1>4, <2>0, <2>1, <2>2 DEF Flash!Cycle0
  <2>4. FlashMembers(i) /\ i.blkOffset = f.blkOffset /\ i.readMode = FALSE
    BY <1>2, <2>1 DEF FlashMembers, Flash!EraseSector, FlashWord
  <2>5. FlashMembers(j) /\ j.blkOffset = f.blkOffset /\ j.readMode = FALSE
    BY <2>4, <2>2 DEF FlashMembers, Flash!Ready
  <2>6. FlashMembers(g) /\ g.blkOffset = f.blkOffset /\ g.wcycle = 1 /\ g.cmd = \h20
    BY ONLY <1>4, <2>3, <2>5 DEF FlashMembers, Flash!Commands
  <2>7. g.readMode = FALSE
    BY <2>3, <2>5 DEF FlashMembers
  <2> QED BY <2>6, <2>7
<1>5. CASE v = \hE8
  <2>0. v \notin {\h10, \h60, \h98} /\ v # \h20
    BY <1>5
  <2>1. PICK j : j = Flash!Ready(h)
    OBVIOUS
  <2>2. g = [j EXCEPT !.wcycle = 1, !.cmd = v]
    BY <1>1, <1>5, <2>0, <2>1 DEF Flash!Cycle0
  <2>3. FlashMembers(j) /\ j.blkOffset = f.blkOffset /\ j.readMode = FALSE
    BY <1>2, <2>1 DEF FlashMembers, Flash!Ready
  <2>4. FlashMembers(g) /\ g.blkOffset = f.blkOffset /\ g.wcycle = 1 /\ g.cmd = \hE8
    BY ONLY <1>5, <2>2, <2>3 DEF FlashMembers, Flash!Commands
  <2>5. g.readMode = FALSE
    BY <2>2, <2>3 DEF FlashMembers
  <2> QED BY <2>4, <2>5
<1>6. CASE v \in {\h70, \h90}
  <2>0. v \notin {\h10, \h60, \h98} /\ v # \h20 /\ v # \hE8
    BY <1>6
  <2>1. g = [h EXCEPT !.cmd = v]
    BY <1>1, <1>6, <2>0 DEF Flash!Cycle0
  <2> QED BY <1>2, <1>6, <2>1 DEF FlashMembers, Flash!Commands
<1>7. CASE v = \h50
  <2>0. v \notin {\h10, \h60, \h98} /\ v # \h20 /\ v # \hE8 /\ v \notin {\h70, \h90}
    BY <1>7
  <2>1. PICK i : i = [h EXCEPT !.ready = FALSE, !.error = FALSE]
    OBVIOUS
  <2>2. g = Flash!ModeReadArray(i)
    BY <1>1, <1>7, <2>0, <2>1 DEF Flash!Cycle0
  <2>3. FlashMembers(i) /\ i.blkOffset = f.blkOffset
    BY <1>2, <2>1 DEF FlashMembers
  <2>4. FlashMembers(g) /\ g.blkOffset = f.blkOffset /\ g.wcycle = 0 /\ g.cmd = \h00
        /\ g.readMode = TRUE
    BY ONLY <2>2, <2>3 DEF FlashMembers, Flash!ModeReadArray, Flash!Commands
  <2> QED BY <2>4
<1>8. CASE v \notin {\h20, \h10, \h60, \h98, \hE8, \h70, \h90, \h50}
  <2>0. /\ v \notin {\h10, \h60, \h98} /\ v # \h20 /\ v # \hE8 /\ v \notin {\h70, \h90}
        /\ v # \h50
    BY <1>8
  <2>1. g = Flash!ModeReadArray(h)
    BY <1>1, <2>0 DEF Flash!Cycle0
  <2>2. FlashMembers(g) /\ g.blkOffset = f.blkOffset /\ g.wcycle = 0 /\ g.cmd = \h00
        /\ g.readMode = TRUE
    BY ONLY <1>2, <2>1 DEF FlashMembers, Flash!ModeReadArray, Flash!Commands
  <2> QED BY <2>2
<1> QED BY <1>3, <1>4, <1>5, <1>6, <1>7, <1>8

\* The second cycle.
LEMMA Cycle1Members ==
    ASSUME NEW f, FlashMembers(f), f.wcycle = 1, ~f.readMode, f.cmd # \h00, f.blkOffset = -1,
           NEW o \in Flash!Words, NEW v, f.cmd = \h10 => v \in Data,
           f.cmd = \hE8 => v \in WordCounts, NEW g, g = Flash!Cycle1(f, o, v)
    PROVE  /\ FlashMembers(g) /\ g.blkOffset = -1 /\ g.wcycle \in {0, 1, 2}
           /\ (g.readMode <=> g.cmd = \h00) /\ (g.readMode => g.wcycle = 0)
           /\ (g.wcycle = 2 => g.cmd = \hE8)
<1>1. PICK r : r = Flash!Ready(f)
  OBVIOUS
<1>2. PICK d : d = [r EXCEPT !.wcycle = 0]
  OBVIOUS
<1>3. PICK a : a = Flash!ModeReadArray(f)
  OBVIOUS
<1>4. /\ FlashMembers(d) /\ d.blkOffset = -1 /\ d.wcycle = 0 /\ d.cmd = f.cmd
      /\ d.readMode = f.readMode
  <2>1. FlashMembers(r) /\ r.blkOffset = -1 /\ r.cmd = f.cmd /\ r.readMode = f.readMode
    BY <1>1 DEF FlashMembers, Flash!Ready
  <2> QED BY <1>2, <2>1 DEF FlashMembers
<1>5. FlashMembers(a) /\ a.blkOffset = -1 /\ a.wcycle = 0 /\ a.cmd = \h00 /\ a.readMode = TRUE
  <2>1. /\ FlashMembers(a) /\ a.readMode = TRUE /\ a.cmd = \h00 /\ a.wcycle = 0
        /\ a.blkOffset = f.blkOffset
    BY ONLY <1>3, ReadArray, FlashMembers(f), Zenon
  <2> QED BY <2>1
<1>6. CASE f.cmd = \h10
  <2>1. PICK i : i = Flash!DataWrite(f, o, v)
    OBVIOUS
  <2>2. PICK j : j = Flash!Ready(i)
    OBVIOUS
  <2>3. g = [j EXCEPT !.wcycle = 0]
    BY <1>6, <2>1, <2>2 DEF Flash!Cycle1
  <2>4. i = [f EXCEPT !.storage[o] = v] /\ v \in FlashWord
    BY <1>6, <2>1 DEF Flash!DataWrite, FlashWord
  <2>5. FlashMembers(i) /\ i.blkOffset = -1 /\ i.cmd = f.cmd /\ i.readMode = f.readMode
    BY <2>4 DEF FlashMembers
  <2>6. FlashMembers(j) /\ j.blkOffset = -1 /\ j.cmd = f.cmd /\ j.readMode = f.readMode
    BY <2>2, <2>5 DEF FlashMembers, Flash!Ready
  <2> QED BY <2>3, <2>6 DEF FlashMembers
<1>7. CASE f.cmd = \hE8
  <2>0. f.cmd # \h10 /\ f.cmd # \h20
    BY <1>7
  <2>1. PICK n : n = v
    OBVIOUS
  <2>2. n \in Nat
    BY <1>7, <2>1, FlashConstants
  <2>3. g = [f EXCEPT !.counter = n, !.wcycle = 2]
    BY <1>7, <2>0, <2>1, <2>2 DEF Flash!Cycle1
  <2> QED BY <1>7, <2>2, <2>3 DEF FlashMembers
<1>8. CASE f.cmd \notin {\h10, \hE8}
  <2>1. g \in {d, a, f}
    BY <1>1, <1>2, <1>3, <1>8 DEF Flash!Cycle1
  <2> QED BY <1>4, <1>5, <2>1
<1> QED BY <1>6, <1>7, <1>8
\* Where the words of an open block lie.
LEMMA BlockWords ==
    ASSUME NEW f, FlashMembers(f), f.blkOffset # -1, NEW k \in 1 .. WriteBlock
    PROVE  f.blkOffset \in Flash!Words /\ f.blkOffset + k - 1 \in Flash!Words
<1>1. PICK b : b = f.blkOffset
  OBVIOUS
<1>2. b \in Flash!Words /\ b % WriteBlock = 0
  BY <1>1 DEF FlashMembers
<1> DEFINE n == SectorLen * FlashBlocks
<1>3. b - (b % WriteBlock) + WriteBlock <= n
  BY <1>2, BlockInside
<1>4. b \in Nat /\ WriteBlock \in Nat /\ n \in Nat /\ Flash!Words = 0 .. n - 1
  BY <1>2, FlashConstants DEF Flash!Words
<1> HIDE DEF n
<1>5. b + WriteBlock <= n
  BY <1>2, <1>3, <1>4
<1>6. b + k - 1 \in 0 .. n - 1
  BY <1>4, <1>5
<1> QED BY <1>1, <1>2, <1>4, <1>6

\* blk_write_start copies the block that holds the word.
LEMMA OpensBlock ==
    ASSUME NEW f, FlashMembers(f), NEW o \in Flash!Words,
           NEW g, g = Flash!BlkWriteStart(f, o)
    PROVE  /\ FlashMembers(g) /\ g.blkOffset # -1 /\ g.storage = f.storage /\ g.cmd = f.cmd
           /\ g.wcycle = f.wcycle /\ g.counter = f.counter
           /\ g.readMode = f.readMode /\ g.error = f.error
           /\ BlockHolds(g, <<>>)
<1> DEFINE b == o - (o % WriteBlock)
<1>1. b \in Flash!Words /\ b % WriteBlock = 0 /\ b # -1 /\ b \in Int
  BY BlockInside DEF Flash!Words
<1>2. PICK c : c = [k \in 1 .. WriteBlock |-> f.storage[b + k - 1]]
  OBVIOUS
<1>3. g = [f EXCEPT !.blkOffset = b, !.blk = c]
  BY <1>2 DEF Flash!BlkWriteStart
<1> HIDE DEF b
<1>4. /\ FlashMembers(g) /\ g.blkOffset = b /\ g.blk = c /\ g.storage = f.storage
      /\ g.cmd = f.cmd /\ g.wcycle = f.wcycle /\ g.counter = f.counter
  BY <1>1, <1>3 DEF FlashMembers
<1>5. g.readMode = f.readMode /\ g.error = f.error
  BY <1>3 DEF FlashMembers
<1>6. ASSUME NEW k \in 1 .. WriteBlock
      PROVE  /\ c[k] = Flash!Overlay(g.storage, <<>>)[g.blkOffset + k - 1]
             /\ c[k] \in FlashWord
  <2>1. g.blkOffset + k - 1 \in Flash!Words /\ g.blkOffset # -1
    BY <1>1, <1>4, BlockWords
  <2>2. g.storage \in [Flash!Words -> FlashWord]
    BY <1>4 DEF FlashMembers
  <2>3. c[k] = g.storage[g.blkOffset + k - 1]
    BY <1>2, <1>4
  <2>4. Flash!Overlay(g.storage, <<>>)[g.blkOffset + k - 1] = g.storage[g.blkOffset + k - 1]
    BY ONLY <2>1, <2>2, OverlayEmpty
  <2> QED BY <2>1, <2>2, <2>3, <2>4
<1>7. c \in [1 .. WriteBlock -> FlashWord]
  BY <1>2, <1>6
<1>8. BlockHolds(g, <<>>)
  BY <1>4, <1>6, <1>7 DEF BlockHolds
<1> QED BY <1>1, <1>4, <1>5, <1>8

\* data_write into an open block.
LEMMA WritesBlock ==
    ASSUME NEW f, FlashMembers(f), f.blkOffset # -1,
           NEW s \in Seq(Flash!Words \X Data), BlockHolds(f, s),
           NEW o \in Flash!Words, NEW v \in Data, NEW g, g = Flash!DataWrite(f, o, v)
    PROVE  /\ FlashMembers(g) /\ g.blkOffset = f.blkOffset /\ g.storage = f.storage
           /\ g.cmd = f.cmd /\ g.wcycle = f.wcycle /\ g.counter = f.counter
           /\ g.readMode = f.readMode
           /\ BlockHolds(g, Append(s, <<o, v>>))
<1> DEFINE b == f.blkOffset
           t == Append(s, <<o, v>>)
           st == f.storage
<1>0. /\ b \in Int /\ o \in Int /\ WriteBlock \in Nat \ {0} /\ v \in FlashWord
      /\ st \in [Flash!Words -> FlashWord]
      /\ t \in Seq(Flash!Words \X Data) /\ Len(t) = Len(s) + 1 /\ Len(s) \in Nat
      /\ t[Len(s) + 1] = <<o, v>> /\ \A k \in 1 .. Len(s) : t[k] = s[k]
  BY FlashConstants DEF FlashMembers, Flash!Words, FlashWord
<1>01. /\ f.blk \in [1 .. WriteBlock -> FlashWord]
       /\ \A k \in 1 .. WriteBlock : f.blk[k] = Flash!Overlay(st, s)[b + k - 1]
       /\ ~f.error => \A k \in 1 .. Len(s) : s[k][1] \in b .. b + WriteBlock - 1
  BY DEF BlockHolds
<1>02. \A k \in 1 .. WriteBlock : b + k - 1 \in Flash!Words
  BY BlockWords
<1>03. ASSUME NEW k \in 1 .. WriteBlock
       PROVE  Flash!Overlay(st, t)[b + k - 1] =
                IF b + k - 1 = o THEN v ELSE Flash!Overlay(st, s)[b + k - 1]
  <2>1. PICK w \in Flash!Words : w = b + k - 1
    BY <1>02
  <2>2. PICK c \in [Flash!Words -> FlashWord] : c = st
    BY <1>0
  <2>3. Flash!Overlay(c, Append(s, <<o, v>>))[w] = IF w = o THEN v ELSE Flash!Overlay(c, s)[w]
    BY ONLY OverlayAppend, SMTT(40), <2>1, <2>2, s \in Seq(Flash!Words \X Data), o \in Flash!Words,
            v \in Data
  <2> QED BY ONLY <2>1, <2>2, <2>3
<1>1. CASE o < b \/ o + 1 > b + WriteBlock
  <2>1. g = [f EXCEPT !.error = TRUE]
    BY <1>1 DEF Flash!DataWrite
  <2>2. /\ FlashMembers(g) /\ g.blkOffset = b /\ g.storage = st /\ g.blk = f.blk
        /\ g.cmd = f.cmd /\ g.wcycle = f.wcycle /\ g.counter = f.counter
    BY <2>1 DEF FlashMembers
  <2>3. g.readMode = f.readMode /\ g.error = TRUE
    BY <2>1 DEF FlashMembers
  <2>4. ASSUME NEW k \in 1 .. WriteBlock
        PROVE  g.blk[k] = Flash!Overlay(g.storage, t)[g.blkOffset + k - 1]
    <3>1. b + k - 1 # o
      BY <1>0, <1>1
    <3> QED BY <1>01, <1>03, <2>2, <3>1
  <2>5. BlockHolds(g, t)
    BY <1>01, <2>2, <2>3, <2>4 DEF BlockHolds
  <2> QED BY <2>2, <2>3, <2>5
<1>2. CASE ~(o < b \/ o + 1 > b + WriteBlock)
  <2> DEFINE i == o - b + 1
  <2>0. i \in 1 .. WriteBlock /\ o \in b .. b + WriteBlock - 1
    BY <1>0, <1>2, SMTT(40)
  <2>1. g = [f EXCEPT !.blk[i] = v]
    BY <1>2 DEF Flash!DataWrite
  <2>2. PICK c : c = [f.blk EXCEPT ![i] = v]
    OBVIOUS
  <2>3. g = [f EXCEPT !.blk = c]
    BY <2>1, <2>2
  <2>4. /\ c \in [1 .. WriteBlock -> FlashWord]
        /\ \A k \in 1 .. WriteBlock : c[k] = IF k = i THEN v ELSE f.blk[k]
    BY <1>0, <1>01, <2>0, <2>2
  <2> HIDE DEF i
  <2>5. /\ FlashMembers(g) /\ g.blkOffset = b /\ g.storage = st /\ g.blk = c
        /\ g.cmd = f.cmd /\ g.wcycle = f.wcycle /\ g.counter = f.counter
    BY <2>3 DEF FlashMembers
  <2>6. g.readMode = f.readMode /\ g.error = f.error
    BY <2>3 DEF FlashMembers
  <2>7. ASSUME NEW k \in 1 .. WriteBlock
        PROVE  g.blk[k] = Flash!Overlay(g.storage, t)[g.blkOffset + k - 1]
    <3>0. b \in Int /\ o \in Int /\ k \in Int /\ i = o - b + 1
      BY <1>0 DEF i
    <3> HIDE DEF b
    <3>1. k = i <=> b + k - 1 = o
      BY ONLY <3>0
    <3> USE DEF b
    <3> QED BY <1>01, <1>03, <2>4, <2>5, <3>1
  <2>8. ASSUME ~g.error, NEW k \in 1 .. Len(t)
        PROVE  t[k][1] \in b .. b + WriteBlock - 1
    BY <1>0, <1>01, <2>0, <2>6, <2>8, SMTT(40)
  <2>9. BlockHolds(g, t)
    BY <2>4, <2>5, <2>7, <2>8 DEF BlockHolds
  <2> QED BY <2>5, <2>6, <2>9
<1> QED BY <1>1, <1>2
\* The third cycle, once the word is in the buffer.
CountDown(f) ==
    Flash!Ready(IF f.counter = 0 THEN [f EXCEPT !.wcycle = 3] ELSE [f EXCEPT !.counter = @ - 1])

LEMMA CountsDown ==
    ASSUME NEW f, FlashMembers(f), f.wcycle = 2, f.cmd = \hE8,
           NEW g, g = CountDown(f)
    PROVE  /\ FlashMembers(g) /\ g.blkOffset = f.blkOffset /\ g.storage = f.storage
           /\ g.cmd = f.cmd /\ g.blk = f.blk /\ g.readMode = f.readMode /\ g.error = f.error
           /\ g.wcycle = IF f.counter = 0 THEN 3 ELSE 2
<1>1. CASE f.counter = 0
  <2>1. PICK h : h = [f EXCEPT !.wcycle = 3]
    OBVIOUS
  <2>2. g = [h EXCEPT !.ready = TRUE]
    BY <1>1, <2>1 DEF CountDown, Flash!Ready
  <2>3. /\ FlashMembers(h) /\ h.blkOffset = f.blkOffset /\ h.storage = f.storage
        /\ h.cmd = f.cmd /\ h.blk = f.blk /\ h.wcycle = 3
    BY <2>1 DEF FlashMembers
  <2>4. h.readMode = f.readMode /\ h.error = f.error
    BY <2>1 DEF FlashMembers
  <2>5. /\ FlashMembers(g) /\ g.blkOffset = h.blkOffset /\ g.storage = h.storage
        /\ g.cmd = h.cmd /\ g.blk = h.blk /\ g.wcycle = h.wcycle
    BY <2>2, <2>3 DEF FlashMembers
  <2>6. g.readMode = h.readMode /\ g.error = h.error
    BY <2>2, <2>3 DEF FlashMembers
  <2> QED BY ONLY <1>1, <2>3, <2>4, <2>5, <2>6
<1>2. CASE f.counter # 0
  <2>1. PICK h : h = [f EXCEPT !.counter = @ - 1]
    OBVIOUS
  <2>2. g = [h EXCEPT !.ready = TRUE]
    BY <1>2, <2>1 DEF CountDown, Flash!Ready
  <2>3. /\ FlashMembers(h) /\ h.blkOffset = f.blkOffset /\ h.storage = f.storage
        /\ h.cmd = f.cmd /\ h.blk = f.blk /\ h.wcycle = 2
    BY <1>2, <2>1 DEF FlashMembers
  <2>4. h.readMode = f.readMode /\ h.error = f.error
    BY <2>1 DEF FlashMembers
  <2>5. /\ FlashMembers(g) /\ g.blkOffset = h.blkOffset /\ g.storage = h.storage
        /\ g.cmd = h.cmd /\ g.blk = h.blk /\ g.wcycle = h.wcycle
    BY <2>2, <2>3 DEF FlashMembers
  <2>6. g.readMode = h.readMode /\ g.error = h.error
    BY <2>2, <2>3 DEF FlashMembers
  <2> QED BY ONLY <1>2, <2>3, <2>4, <2>5, <2>6
<1> QED BY <1>1, <1>2

\* The third cycle.
LEMMA Cycle2Members ==
    ASSUME NEW f, FlashMembers(f), f.wcycle = 2, f.cmd = \hE8,
           NEW s \in Seq(Flash!Words \X Data), FlashBlock(f, s),
           NEW o \in Flash!Words, NEW v \in Data, NEW g, g = Flash!Cycle2(f, o, v)
    PROVE  /\ FlashMembers(g) /\ g.storage = f.storage /\ g.cmd = \hE8
           /\ g.wcycle \in {2, 3} /\ g.readMode = f.readMode
           /\ FlashBlock(g, Append(s, <<o, v>>))
<1>1. ASSUME NEW e, FlashMembers(e), e.wcycle = 2, e.cmd = \hE8, e.storage = f.storage,
             e.readMode = f.readMode, e.blkOffset # -1, BlockHolds(e, s),
             NEW h, h = Flash!DataWrite(e, o, v), g = CountDown(h)
      PROVE  /\ FlashMembers(g) /\ g.storage = f.storage /\ g.cmd = \hE8
             /\ g.wcycle \in {2, 3} /\ g.readMode = f.readMode
             /\ FlashBlock(g, Append(s, <<o, v>>))
  <2> DEFINE t == Append(s, <<o, v>>)
  <2>1. /\ FlashMembers(h) /\ h.blkOffset = e.blkOffset /\ h.storage = e.storage
        /\ h.cmd = e.cmd /\ h.wcycle = e.wcycle /\ h.readMode = e.readMode
        /\ BlockHolds(h, t)
    BY ONLY <1>1, WritesBlock, s \in Seq(Flash!Words \X Data), o \in Flash!Words, v \in Data
  <2> HIDE DEF t
  <2>2. /\ FlashMembers(g) /\ g.blkOffset = h.blkOffset /\ g.storage = h.storage
        /\ g.cmd = h.cmd /\ g.blk = h.blk /\ g.readMode = h.readMode /\ g.error = h.error
        /\ g.wcycle = IF h.counter = 0 THEN 3 ELSE 2
    BY <1>1, <2>1, CountsDown
  <2>3. BlockHolds(g, t)
    BY ONLY <2>1, <2>2 DEF BlockHolds
  <2>4. g.blkOffset # -1 /\ g.wcycle \in {2, 3}
    BY ONLY <1>1, <2>1, <2>2
  <2>5. FlashBlock(g, t)
    BY <2>3, <2>4 DEF FlashBlock
  <2> QED BY <1>1, <2>1, <2>2, <2>4, <2>5 DEF t
<1>2. CASE f.blkOffset # -1
  <2>1. PICK h : h = Flash!DataWrite(f, o, v)
    OBVIOUS
  <2>2. g = CountDown(h)
    BY <1>2, <2>1 DEF Flash!Cycle2, CountDown
  <2>3. BlockHolds(f, s)
    BY <1>2 DEF FlashBlock
  <2> QED BY ONLY <1>1, <1>2, <2>1, <2>2, <2>3, FlashMembers(f), f.wcycle = 2, f.cmd = \hE8,
                  Zenon
<1>3. CASE f.blkOffset = -1 /\ f.counter # 0
  <2>1. PICK e : e = Flash!BlkWriteStart(f, o)
    OBVIOUS
  <2>2. PICK h : h = Flash!DataWrite(e, o, v)
    OBVIOUS
  <2>3. /\ FlashMembers(e) /\ e.blkOffset # -1 /\ e.storage = f.storage /\ e.cmd = f.cmd
        /\ e.wcycle = f.wcycle /\ e.readMode = f.readMode /\ BlockHolds(e, <<>>)
    BY <2>1, OpensBlock
  <2>4. g = CountDown(h)
    BY <1>3, <2>1, <2>2, <2>3 DEF Flash!Cycle2, CountDown
  <2>5. s = <<>>
    BY <1>3 DEF FlashBlock
  <2> QED BY <1>1, <2>2, <2>3, <2>4, <2>5
<1>4. CASE f.blkOffset = -1 /\ f.counter = 0
  <2>1. PICK h : h = [f EXCEPT !.error = TRUE]
    OBVIOUS
  <2>2. /\ FlashMembers(h) /\ h.blkOffset = -1 /\ h.storage = f.storage
        /\ h.cmd = f.cmd /\ h.wcycle = 2 /\ h.counter = 0
    BY <1>4, <2>1 DEF FlashMembers
  <2>3. h.readMode = f.readMode /\ h.error = TRUE
    BY <2>1 DEF FlashMembers
  <2>4. g = CountDown(h)
    <3> DEFINE G == IF f.blkOffset = -1 /\ f.counter # 0 THEN Flash!BlkWriteStart(f, o) ELSE f
               H == IF G.blkOffset # -1 THEN Flash!DataWrite(G, o, v)
                    ELSE [G EXCEPT !.error = TRUE]
    <3>1. g = CountDown(H)
      BY Zenon DEF Flash!Cycle2, CountDown
    <3>2. G = f
      BY <1>4, Zenon
    <3> HIDE DEF G
    <3>3. H = [f EXCEPT !.error = TRUE]
      BY <1>4, <3>2, Zenon
    <3> HIDE DEF H
    <3> QED BY <2>1, <3>1, <3>3, Zenon
  <2>5. /\ FlashMembers(g) /\ g.blkOffset = h.blkOffset /\ g.storage = h.storage
        /\ g.cmd = h.cmd /\ g.readMode = h.readMode /\ g.error = h.error /\ g.wcycle = 3
    <3>1. h.cmd = \hE8
      BY <2>2
    <3>3. /\ FlashMembers(g) /\ g.blkOffset = h.blkOffset /\ g.storage = h.storage
          /\ g.cmd = h.cmd /\ g.readMode = h.readMode /\ g.error = h.error
          /\ g.wcycle = IF h.counter = 0 THEN 3 ELSE 2
      BY ONLY <2>2, <2>4, <3>1, CountsDown
    <3> QED BY <2>2, <3>3
  <2>6. FlashBlock(g, Append(s, <<o, v>>))
    BY <2>2, <2>3, <2>5 DEF FlashBlock
  <2> QED BY <2>2, <2>3, <2>5, <2>6
<1> QED BY <1>2, <1>3, <1>4

\* blk_write_flush puts the words of the session into the storage.
LEMMA FlushWrites ==
    ASSUME NEW f, FlashMembers(f), f.blkOffset # -1, ~f.error,
           NEW s \in Seq(Flash!Words \X Data), BlockHolds(f, s),
           NEW g, g = Flash!BlkWriteFlush(f)
    PROVE  /\ FlashMembers(g) /\ g.blkOffset = -1 /\ g.cmd = f.cmd
           /\ g.readMode = f.readMode /\ g.storage = Flash!Overlay(f.storage, s)
<1>1. PICK b : b = f.blkOffset
  OBVIOUS
<1>2. PICK st \in [Flash!Words -> FlashWord] : st = f.storage
  BY DEF FlashMembers
<1>3. PICK c : c = [o \in Flash!Words |->
                      IF o \in b .. b + WriteBlock - 1 THEN f.blk[o - b + 1] ELSE st[o]]
  OBVIOUS
<1>4. g = [f EXCEPT !.storage = c, !.blkOffset = -1]
  BY <1>1, <1>2, <1>3 DEF Flash!BlkWriteFlush
<1>5. b \in Int /\ WriteBlock \in Nat /\ Flash!Words \subseteq Int
  BY <1>1, FlashConstants DEF FlashMembers, Flash!Words
<1>6. PICK u : u = Flash!Overlay(st, s)
  OBVIOUS
<1>7. u \in [Flash!Words -> FlashWord]
  BY <1>6, OverlayType
<1>8. ASSUME NEW o \in Flash!Words PROVE c[o] = u[o]
  <2>1. CASE o \in b .. b + WriteBlock - 1
    <3>1. PICK k \in 1 .. WriteBlock : k = o - b + 1
      BY <1>5, <2>1
    <3>2. b + k - 1 = o
      BY <1>5, <3>1
    <3>3. f.blk[k] = u[b + k - 1]
      BY <1>1, <1>2, <1>6 DEF BlockHolds
    <3> QED BY <1>3, <2>1, <3>1, <3>2, <3>3
  <2>2. CASE o \notin b .. b + WriteBlock - 1
    <3>1. \A k \in 1 .. Len(s) : s[k][1] \in b .. b + WriteBlock - 1
      BY <1>1 DEF BlockHolds
    <3>2. Flash!Written(s, o) = {}
      BY <2>2, <3>1 DEF Flash!Written
    <3>3. u[o] = st[o]
      BY <1>6, <3>2 DEF Flash!Overlay
    <3> QED BY <1>3, <2>2, <3>3
  <2> QED BY <2>1, <2>2
<1>9. c = u
  BY ONLY <1>3, <1>7, <1>8
<1>10. FlashMembers(g) /\ g.blkOffset = -1 /\ g.cmd = f.cmd /\ g.storage = c
  BY ONLY <1>4, <1>7, <1>9, FlashMembers(f) DEF FlashMembers
<1>11. g.readMode = f.readMode
  BY ONLY <1>4, FlashMembers(f) DEF FlashMembers
<1> QED BY <1>2, <1>6, <1>9, <1>10, <1>11

\* The last cycle.
LEMMA Cycle3Members ==
    ASSUME NEW f, FlashMembers(f), f.wcycle = 3, f.cmd = \hE8, ~f.readMode,
           NEW s \in Seq(Flash!Words \X Data), FlashBlock(f, s),
           NEW v, NEW g, g = Flash!Cycle3(f, v)
    PROVE  /\ FlashMembers(g) /\ g.blkOffset = -1 /\ g.wcycle = 0
           /\ (g.readMode <=> g.cmd = \h00)
           /\ IF v = \hD0 /\ ~f.error THEN g.storage = Flash!Overlay(f.storage, s)
              ELSE g.storage = f.storage /\ g.error = f.error
<1>1. CASE v = \hD0 /\ ~f.error
  <2>1. f.blkOffset # -1 /\ BlockHolds(f, s)
    BY <1>1 DEF FlashBlock
  <2>2. PICK h : h = Flash!BlkWriteFlush(f)
    OBVIOUS
  <2>3. PICK r : r = [h EXCEPT !.ready = TRUE]
    OBVIOUS
  <2>4. g = [r EXCEPT !.wcycle = 0]
    BY <1>1, <2>1, <2>2, <2>3 DEF Flash!Cycle3, Flash!Ready
  <2>5. /\ FlashMembers(h) /\ h.blkOffset = -1 /\ h.cmd = f.cmd
        /\ h.readMode = f.readMode /\ h.storage = Flash!Overlay(f.storage, s)
    BY <1>1, <2>1, <2>2, FlushWrites
  <2>6. FlashMembers(r) /\ r.blkOffset = -1 /\ r.cmd = h.cmd /\ r.storage = h.storage
    BY ONLY <2>3, <2>5 DEF FlashMembers
  <2>7. r.readMode = h.readMode
    BY ONLY <2>3, <2>5 DEF FlashMembers
  <2>8. /\ FlashMembers(g) /\ g.blkOffset = -1 /\ g.cmd = r.cmd /\ g.storage = r.storage
        /\ g.wcycle = 0
    BY ONLY <2>4, <2>6 DEF FlashMembers
  <2>9. g.readMode = r.readMode
    BY ONLY <2>4, <2>6 DEF FlashMembers
  <2>10. ~g.readMode
    BY <2>5, <2>7, <2>9
  <2>11. g.cmd # \h00
    BY <2>5, <2>6, <2>8
  <2> QED BY <1>1, <2>5, <2>6, <2>8, <2>10, <2>11
<1>2. CASE ~(v = \hD0 /\ ~f.error)
  <2>1. PICK h : h = [f EXCEPT !.blkOffset = -1]
    OBVIOUS
  <2>2. g = Flash!ModeReadArray(h)
    BY <1>2, <2>1 DEF Flash!Cycle3, Flash!BlkWriteAbort
  <2>3. FlashMembers(h) /\ h.blkOffset = -1 /\ h.storage = f.storage
    BY <2>1 DEF FlashMembers
  <2>4. h.error = f.error
    BY <2>1 DEF FlashMembers
  <2>5. /\ FlashMembers(g) /\ g.readMode = TRUE /\ g.cmd = \h00 /\ g.wcycle = 0
        /\ g.blkOffset = h.blkOffset /\ g.storage = h.storage /\ g.error = h.error
    BY ONLY <2>2, <2>3, ReadArray
  <2> QED BY ONLY <1>2, <2>3, <2>4, <2>5
<1> QED BY <1>1, <1>2
AtomicStep ==
    flash.cmd = \hE8 /\ flash.wcycle \in {2, 3} =>
      IF flash.wcycle = 3 /\ confirmed' /\ ~flash.error
      THEN flash'.storage = Flash!Overlay(flash.storage, session)
      ELSE flash'.storage = flash.storage /\ (confirmed' => flash'.error)

\* Every write of the guest.
LEMMA FlashNext ==
    ASSUME FlashInv, Flash!Next
    PROVE  FlashInv' /\ AtomicStep
<1>1. PICK o \in Flash!Words : \E v \in Flash!Inputs : Flash!WriteInternal(o, v)
  BY DEF Flash!Next
<1>2. PICK v \in Flash!Inputs : Flash!WriteInternal(o, v)
  BY <1>1
<1>3. /\ Flash!Fits(flash, v) /\ flash' = Flash!WriteWord(flash, o, v)
      /\ session' = Flash!Remember(session, flash, o, v)
  BY <1>2 DEF Flash!WriteInternal
<1>13. confirmed' = (flash.wcycle = 3 /\ v = \hD0)
  BY <1>2 DEF Flash!WriteInternal
<1>4. PICK f : f = flash
  OBVIOUS
<1>5. PICK s : s = session
  OBVIOUS
<1>6. PICK g : g = flash'
  OBVIOUS
<1>7. /\ FlashMembers(f) /\ s \in Seq(Flash!Words \X Data)
      /\ (f.readMode <=> f.cmd = \h00) /\ (f.readMode => f.wcycle = 0)
      /\ (f.wcycle \in {2, 3} => f.cmd = \hE8) /\ (f.wcycle \notin {2, 3} => s = <<>>)
      /\ FlashBlock(f, s)
  BY <1>4, <1>5 DEF FlashInv
<1>8. f.wcycle \in 0 .. 3
  BY <1>7 DEF FlashMembers
<1>9. CASE f.wcycle = 0
  <2>1. v \in Flash!Commands \cup {\h01, \hD0}
    BY <1>3, <1>4, <1>9 DEF Flash!Fits
  <2>2. g = Flash!Cycle0(f, o, v)
    BY <1>3, <1>4, <1>6, <1>9 DEF Flash!WriteWord
  <2>3. session' = <<>>
    BY <1>3, <1>4, <1>5, <1>7, <1>9 DEF Flash!Remember
  <2>4. f.blkOffset = -1
    BY <1>7, <1>9 DEF FlashBlock
  <2>5. /\ FlashMembers(g) /\ g.blkOffset = -1 /\ g.wcycle \in {0, 1}
        /\ (g.readMode <=> g.cmd = \h00) /\ (g.readMode => g.wcycle = 0)
    BY ONLY <1>7, <1>9, <2>1, <2>2, <2>4, Cycle0Members, o \in Flash!Words
  <2>6. FlashInv'
    BY ONLY <1>6, <2>3, <2>5, FlashRests
  <2> QED BY <1>4, <1>9, <2>6 DEF AtomicStep
<1>10. CASE f.wcycle = 1
  <2>1. (f.cmd = \h10 => v \in Data) /\ (f.cmd = \hE8 => v \in WordCounts)
    BY <1>3, <1>4, <1>10 DEF Flash!Fits
  <2>2. g = Flash!Cycle1(f, o, v)
    BY <1>3, <1>4, <1>6, <1>10 DEF Flash!WriteWord
  <2>3. session' = <<>>
    BY <1>3, <1>4, <1>5, <1>7, <1>10 DEF Flash!Remember
  <2>4. f.blkOffset = -1 /\ ~f.readMode /\ f.cmd # \h00
    BY <1>7, <1>10 DEF FlashBlock
  <2>5. /\ FlashMembers(g) /\ g.blkOffset = -1 /\ g.wcycle \in {0, 1, 2}
        /\ (g.readMode <=> g.cmd = \h00) /\ (g.readMode => g.wcycle = 0)
        /\ (g.wcycle = 2 => g.cmd = \hE8)
    BY ONLY <1>7, <1>10, <2>1, <2>2, <2>4, Cycle1Members, o \in Flash!Words
  <2>6. FlashInv'
    BY ONLY <1>6, <2>3, <2>5, FlashRests
  <2> QED BY <1>4, <1>10, <2>6 DEF AtomicStep
<1>11. CASE f.wcycle = 2
  <2>1. v \in Data
    BY <1>3, <1>4, <1>11 DEF Flash!Fits
  <2>2. g = Flash!Cycle2(f, o, v)
    BY <1>3, <1>4, <1>6, <1>11 DEF Flash!WriteWord
  <2> DEFINE t == Append(s, <<o, v>>)
  <2>3. session' = t
    BY <1>3, <1>4, <1>5, <1>11 DEF Flash!Remember
  <2>4. /\ FlashMembers(g) /\ g.storage = f.storage /\ g.cmd = \hE8
        /\ g.wcycle \in {2, 3} /\ g.readMode = f.readMode /\ FlashBlock(g, t)
    BY ONLY <1>7, <1>11, <2>1, <2>2, Cycle2Members, o \in Flash!Words
  <2>5. t \in Seq(Flash!Words \X Data)
    BY <1>7, <2>1
  <2> HIDE DEF t
  <2>6. ~g.readMode
    BY <1>7, <1>11, <2>4
  <2>7. FlashInv'
    BY ONLY <1>6, <2>3, <2>4, <2>5, <2>6 DEF FlashInv
  <2>8. ~confirmed'
    <3>1. ~(flash.wcycle = 3 /\ v = \hD0)
      BY ONLY <1>4, <1>11
    <3> QED BY ONLY <1>13, <3>1, Zenon
  <2>9. AtomicStep
    BY <1>4, <1>6, <1>11, <2>4, <2>8 DEF AtomicStep
  <2> QED BY <2>7, <2>9
<1>12. CASE f.wcycle = 3
  <2>1. g = Flash!Cycle3(f, v)
    BY <1>3, <1>4, <1>6, <1>12 DEF Flash!WriteWord
  <2>2. session' = <<>>
    BY <1>3, <1>4, <1>5, <1>12 DEF Flash!Remember
  <2>3. f.cmd = \hE8 /\ ~f.readMode
    BY <1>7, <1>12
  <2>4. /\ FlashMembers(g) /\ g.blkOffset = -1 /\ g.wcycle = 0
        /\ (g.readMode <=> g.cmd = \h00)
        /\ IF v = \hD0 /\ ~f.error THEN g.storage = Flash!Overlay(f.storage, s)
           ELSE g.storage = f.storage /\ g.error = f.error
    BY ONLY <1>7, <1>12, <2>1, <2>3, Cycle3Members
  <2>5. FlashInv'
    BY ONLY <1>6, <2>2, <2>4, FlashRests
  <2>6. confirmed' <=> v = \hD0
    BY <1>4, <1>12, <1>13
  <2>7. CASE v = \hD0 /\ ~f.error
    BY <1>4, <1>5, <1>6, <1>12, <2>4, <2>5, <2>6, <2>7 DEF AtomicStep
  <2>8. CASE ~(v = \hD0 /\ ~f.error)
    <3>1. flash'.storage = flash.storage /\ flash'.error = flash.error
      BY ONLY <1>4, <1>6, <2>4, <2>8
    <3>2. ~(confirmed' /\ ~flash.error)
      BY ONLY <1>4, <2>6, <2>8
    <3>3. confirmed' => flash'.error
      BY ONLY <3>1, <3>2
    <3> QED BY <2>5, <3>1, <3>2, <3>3 DEF AtomicStep
  <2> QED BY <2>7, <2>8
<1> QED BY <1>8, <1>9, <1>10, <1>11, <1>12

LEMMA FlashMeans ==
    FlashInv => Flash!TypeOK /\ Flash!ArrayModeIsRest /\ Flash!OpenOnlyInBufferedWrite
<1> SUFFICES ASSUME FlashInv
             PROVE  Flash!TypeOK /\ Flash!ArrayModeIsRest /\ Flash!OpenOnlyInBufferedWrite
  OBVIOUS
<1>1. Flash!TypeOK
  BY DEF FlashInv, FlashMembers, FlashWord, Flash!TypeOK
<1>2. ASSUME NEW o \in Flash!Words PROVE Flash!ReadInternal(o)[1] # "unknown"
  BY DEF FlashInv, FlashMembers, Flash!ReadInternal, Flash!Commands
<1>3. Flash!ArrayModeIsRest
  BY <1>2 DEF FlashInv, Flash!ArrayModeIsRest
<1>4. Flash!OpenOnlyInBufferedWrite
  BY DEF FlashInv, FlashBlock, Flash!OpenOnlyInBufferedWrite
<1> QED BY <1>1, <1>3, <1>4

\* A buffered write of pflash_cfi01.cpp is all or nothing for every size of the
\* flash, its sectors and its write block, every word count and every order of
\* commands and words: the confirmation stores every word of the session unless
\* the error bit is set, and then none and the bit stays; any other command in
\* its place stores none.  Outside a buffered write no block is open, and the
\* array is readable exactly while the machine rests.
THEOREM FlashHolds == Spec => AllOrNothing
<1>1. Init => FlashInv
  BY FlashInit DEF Init
<1>2. FlashInv /\ [Next]_vars => FlashInv' /\ [AtomicStep]_(Flash!vars)
  <2> SUFFICES ASSUME FlashInv, [Next]_vars
               PROVE  FlashInv' /\ [AtomicStep]_(Flash!vars)
    OBVIOUS
  <2>1. Flash!Next \/ UNCHANGED <<flash, session, confirmed>>
    BY DEF Next, vars, flashVars
  <2>2. CASE UNCHANGED <<flash, session, confirmed>>
    BY <2>2 DEF FlashInv, Flash!vars
  <2>3. CASE Flash!Next
    BY <2>3, FlashNext
  <2> QED BY <2>1, <2>2, <2>3
<1>3. FlashInv => (part = "flash" => /\ Flash!TypeOK /\ Flash!ArrayModeIsRest
                                     /\ Flash!OpenOnlyInBufferedWrite)
  BY FlashMeans
<1>4. Spec => Flash!AllOrNothing
  <2>1. Spec => [][AtomicStep]_(Flash!vars)
    BY <1>1, <1>2, PTL DEF Spec
  <2> QED BY <2>1 DEF Flash!AllOrNothing, AtomicStep
<1>5. Spec => [](part = "flash" => /\ Flash!TypeOK /\ Flash!ArrayModeIsRest
                                   /\ Flash!OpenOnlyInBufferedWrite)
  BY <1>1, <1>2, <1>3, PTL DEF Spec
<1> QED BY <1>4, <1>5 DEF AllOrNothing
-----------------------------------------------------------------------------
(* The counters.                                                           *)

CountInv ==
    /\ mcycle \in Nat /\ mcycle < 2^CounterWidth
    /\ minstret \in Nat /\ minstret < 2^CounterWidth
    /\ inhibit \subseteq {"CY", "IR"} /\ increase_suppressed = FALSE
    /\ DOMAIN since = {"instret", "retired", "cycle", "begun"}
    /\ since.instret \in Nat /\ since.retired \in Nat
    /\ since.cycle \in Nat /\ since.begun \in Nat
    /\ Count!CountsExactly

LEMMA CountStep ==
    ASSUME CountInv, Count!Next
    PROVE  CountInv'
<1> DEFINE W == 2^CounterWidth
<1>1. W \in Nat \ {0} /\ CounterWords \subseteq 0 .. W - 1
  BY CpuThreadAssumptions DEF Count!CountersAssumption
<1>2. /\ mcycle \in Nat /\ mcycle < W /\ minstret \in Nat /\ minstret < W
      /\ increase_suppressed = FALSE /\ inhibit \subseteq {"CY", "IR"}
      /\ minstret = (since.instret + since.retired) % W
      /\ mcycle = (since.cycle + since.begun) % W
  BY DEF CountInv, Count!CountsExactly, Count!Wrap
<1>3. PICK a \in Nat : a = since.instret
  BY DEF CountInv
<1>4. PICK b \in Nat : b = since.retired
  BY DEF CountInv
<1>5. PICK c \in Nat : c = since.cycle
  BY DEF CountInv
<1>6. PICK d \in Nat : d = since.begun
  BY DEF CountInv
<1>7. ASSUME NEW x \in Nat
      PROVE  x % W \in Nat /\ x % W < W
  <2> HIDE DEF W
  <2> QED BY <1>1
<1>8. ASSUME NEW x \in Nat, NEW y \in Nat, NEW z \in Nat
      PROVE  (x + ((y + z) % W)) % W = (((x + y) % W) + z) % W
  <2> HIDE DEF W
  <2>1. ASSUME NEW m \in Nat, NEW n \in Nat PROVE (m + (n % W)) % W = (m + n) % W
    BY <1>1, ModAdd
  <2>2. y + z \in Nat /\ x + y \in Nat /\ (x + y) % W \in Nat
    BY <1>7
  <2>3. (x + ((y + z) % W)) % W = (x + (y + z)) % W
    BY <2>1, <2>2
  <2>4. (z + ((x + y) % W)) % W = (z + (x + y)) % W
    BY <2>1, <2>2
  <2>5. x + (y + z) = z + (x + y) /\ z + ((x + y) % W) = ((x + y) % W) + z
    BY <2>2
  <2> QED BY <2>3, <2>4, <2>5
<1>9. ASSUME NEW x \in Nat, x < W PROVE (x + 0) % W = x
  <2> HIDE DEF W
  <2> QED BY <1>1, <1>9
<1> DEFINE cy == Count!One("CY", inhibit)
<1>10. cy \in {0, 1} /\ Count!CycleAdvanced = (mcycle + cy) % W
  <2>1. CASE "CY" \in inhibit
    BY <1>2, <1>9, <2>1 DEF Count!One, Count!CycleAdvanced, Count!CY
  <2>2. CASE "CY" \notin inhibit
    BY <2>2 DEF Count!One, Count!CycleAdvanced, Count!CY, Count!Wrap
  <2> QED BY <2>1, <2>2
<1>11. ASSUME NEW S, Count!Retire(minstret, S, increase_suppressed)
       PROVE  /\ Count!One("IR", S) \in {0, 1} /\ increase_suppressed' = FALSE
              /\ minstret' = (minstret + Count!One("IR", S)) % W
  <2>1. CASE "IR" \in S
    BY <1>2, <1>9, <1>11, <2>1 DEF Count!One, Count!Retire, Count!IR
  <2>2. CASE "IR" \notin S
    BY <1>2, <1>11, <2>2 DEF Count!One, Count!Retire, Count!IR, Count!Wrap
  <2> QED BY <2>1, <2>2
\* What is left to show, once it is clear what a turn adds to each counter.
<1>12. ASSUME NEW a1 \in Nat, NEW b1 \in Nat, NEW c1 \in Nat, NEW d1 \in Nat,
              since' = [since EXCEPT !.instret = a1, !.retired = b1,
                                     !.cycle = c1, !.begun = d1],
              minstret' = (a1 + b1) % W, mcycle' = (c1 + d1) % W,
              inhibit' \subseteq {"CY", "IR"}, increase_suppressed' = FALSE
       PROVE  CountInv'
  <2>1. a1 + b1 \in Nat /\ c1 + d1 \in Nat
    OBVIOUS
  <2>2. /\ minstret' \in Nat /\ minstret' < W /\ mcycle' \in Nat /\ mcycle' < W
    <3> HIDE DEF W
    <3> QED BY <1>7, <1>12, <2>1
  <2>3. /\ DOMAIN since' = {"instret", "retired", "cycle", "begun"}
        /\ since'.instret = a1 /\ since'.retired = b1 /\ since'.cycle = c1 /\ since'.begun = d1
    BY <1>12 DEF CountInv
  <2> QED BY <1>12, <2>2, <2>3 DEF CountInv, Count!CountsExactly, Count!Wrap
<1>13. DOMAIN since = {"instret", "retired", "cycle", "begun"}
  BY DEF CountInv
<1>14. minstret = (a + b) % W /\ mcycle = (c + d) % W
  BY <1>2, <1>3, <1>4, <1>5, <1>6
<1>15. (c + ((d + cy) % W)) % W = (mcycle + cy) % W /\ (d + cy) % W \in Nat
  <2> HIDE DEF W, cy
  <2>1. cy \in Nat
    BY <1>10
  <2> QED BY <1>7, <1>8, <1>14, <2>1
<1>16. ASSUME NEW i \in {0, 1}
       PROVE  (a + ((b + i) % W)) % W = (minstret + i) % W /\ (b + i) % W \in Nat
  <2> HIDE DEF W
  <2> QED BY <1>7, <1>8, <1>14
<1>17. ASSUME NEW S \in SUBSET {"CY", "IR"}, NEW i \in {0, 1}, Count!Counts(cy, i),
              mcycle' = Count!CycleAdvanced, minstret' = (minstret + i) % W,
              increase_suppressed' = FALSE, inhibit' = S
       PROVE  CountInv'
  <2> HIDE DEF cy
  <2>1. PICK b1 \in Nat : b1 = (b + i) % W
    BY <1>16
  <2>2. PICK d1 \in Nat : d1 = (d + cy) % W
    BY <1>15
  <2>3. since' = [since EXCEPT !.retired = b1, !.begun = d1]
    BY <1>4, <1>6, <1>17, <2>1, <2>2 DEF Count!Counts, Count!Wrap
  <2>4. since' = [since EXCEPT !.instret = a, !.retired = b1, !.cycle = c, !.begun = d1]
    BY <1>3, <1>5, <1>13, <2>3
  <2>5. minstret' = (a + b1) % W /\ mcycle' = (c + d1) % W
    BY <1>10, <1>15, <1>16, <1>17, <2>1, <2>2
  <2> HIDE DEF W
  <2> QED BY <1>12, <1>17, <2>4, <2>5
<1>18. CASE Count!Execute
  BY <1>2, <1>11, <1>17, <1>18 DEF Count!Execute, Count!CY, Count!IR
<1>19. CASE Count!Trap
  <2>1. minstret' = (minstret + 0) % W
    BY <1>2, <1>9, <1>19 DEF Count!Trap
  <2> QED BY <1>2, <1>17, <1>19, <2>1 DEF Count!Trap, Count!CY
<1>20. ASSUME NEW v \in CounterWords, Count!WriteMinstret(v) PROVE CountInv'
  <2>1. v \in Nat /\ v < W
    <3> HIDE DEF W
    <3> QED BY <1>1
  <2>2. minstret' = v /\ increase_suppressed' = FALSE
    BY <1>20 DEF Count!WriteMinstret, Count!Retire
  <2>3. minstret' = (v + 0) % W
    BY <1>9, <2>1, <2>2
  <2>4. PICK d1 \in Nat : d1 = (d + cy) % W
    BY <1>15
  <2>5. since' = [since EXCEPT !.instret = v, !.retired = 0, !.begun = d1]
    BY <1>6, <1>20, <2>4 DEF Count!WriteMinstret, Count!Wrap, Count!CY
  <2>6. since' = [since EXCEPT !.instret = v, !.retired = 0, !.cycle = c, !.begun = d1]
    BY <1>5, <1>13, <2>5
  <2>7. mcycle' = (c + d1) % W /\ inhibit' \subseteq {"CY", "IR"}
    BY <1>2, <1>10, <1>15, <1>20, <2>4 DEF Count!WriteMinstret
  <2> HIDE DEF W
  <2> QED BY <1>12, <2>1, <2>2, <2>3, <2>6, <2>7
<1>21. ASSUME NEW v \in CounterWords, Count!WriteMcycle(v) PROVE CountInv'
  <2>1. v \in Nat /\ v < W
    <3> HIDE DEF W
    <3> QED BY <1>1
  <2>2. mcycle' = (v + 0) % W /\ inhibit' \subseteq {"CY", "IR"}
    BY <1>2, <1>9, <1>21, <2>1 DEF Count!WriteMcycle
  <2> DEFINE ir == Count!One("IR", inhibit)
  <2>3. ir \in {0, 1} /\ minstret' = (minstret + ir) % W /\ increase_suppressed' = FALSE
    BY <1>11, <1>21 DEF Count!WriteMcycle
  <2>4. PICK b1 \in Nat : b1 = (b + ir) % W
    BY <1>16, <2>3
  <2>5. since' = [since EXCEPT !.cycle = v, !.begun = 0, !.retired = b1]
    BY <1>4, <1>21, <2>4 DEF Count!WriteMcycle, Count!Wrap, Count!IR
  <2>6. since' = [since EXCEPT !.instret = a, !.retired = b1, !.cycle = v, !.begun = 0]
    BY <1>3, <1>13, <2>5
  <2>7. minstret' = (a + b1) % W
    BY <1>16, <2>3, <2>4
  <2> HIDE DEF W
  <2> QED BY <1>12, <2>1, <2>2, <2>3, <2>6, <2>7
<1>22. ASSUME NEW S \in SUBSET {"CY", "IR"}, Count!WriteMcountinhibit(S) PROVE CountInv'
  BY <1>2, <1>11, <1>17, <1>22 DEF Count!WriteMcountinhibit, Count!CY, Count!IR
<1> QED BY <1>18, <1>19, <1>20, <1>21, <1>22 DEF Count!Next, Count!CY, Count!IR
-----------------------------------------------------------------------------
(* The control and status registers.                                       *)

CsrInv ==
    /\ priv \in {0, 1, 3} /\ csrWrites \in 0 .. MaxWrites
    /\ reg \in [Csrs!Stateful -> SUBSET Csrs!Bits]
    /\ \A c \in Csrs!Stateful : reg[c] \subseteq Csrs!Mask(c)
    /\ Csrs!SatpMode(reg["satp"]) \in {{}, {3}}
    /\ Csrs!TrapsLeaveNoTrace

LEMMA CsrConstants == CsrWords \subseteq SUBSET Csrs!Bits /\ MaxWrites \in Nat
BY CpuThreadAssumptions DEF Csrs!CsrAssumption

LEMMA CsrMasks == \A c \in Csrs!Csrs : Csrs!Mask(c) \subseteq Csrs!Bits
BY DEF Csrs!Mask, Csrs!Bits, Csrs!TvecMask, Csrs!EpcMask, Csrs!MieMask, Csrs!MenvcfgMask,
       Csrs!SenvcfgMask, Csrs!ScounterenMask, Csrs!CY, Csrs!TM, Csrs!IR, Csrs!STCE

\* What a CSR instruction may do: leave everything as it was, or write a
\* register it is allowed to write.
LEMMA CsrInsnCases ==
    ASSUME CsrInv, Csrs!CsrInsn
    PROVE  \E c \in Csrs!Csrs, op \in {"csr", "csrrwi"}, rd \in BOOLEAN :
              \/ \E trap \in BOOLEAN :
                    Csrs!Leaves(op, c, trap, rd) /\ (trap /\ op = "csr" => ~rd)
              \/ \E w \in SUBSET Csrs!Bits :
                    Csrs!WriteAllowed(c, priv, reg) /\ Csrs!Writes(op, c, rd, w)
<1>1. PICK c \in Csrs!Csrs, v \in CsrWords :
        \/ \E none \in BOOLEAN : Csrs!csrrs(c, v, none) \/ Csrs!csrrc(c, v, none)
        \/ Csrs!csrrsi(c, v) \/ Csrs!csrrci(c, v)
        \/ \E rd \in BOOLEAN : Csrs!csrrw(c, v, rd) \/ Csrs!csrrwi(c, v, rd)
  BY DEF Csrs!CsrInsn
<1>2. v \in SUBSET Csrs!Bits
  BY CsrConstants
<1>3. Csrs!Read(c, reg) \in SUBSET Csrs!Bits
  <2>1. CASE c \in Csrs!Stateful
    <3>1. c # "sie"
      BY <2>1 DEF Csrs!Stateful, Csrs!MachineRegs, Csrs!SupervisorRegs
    <3>2. Csrs!Read(c, reg) = reg[c]
      BY <2>1, <3>1 DEF Csrs!Read
    <3> QED BY <2>1, <3>2 DEF CsrInv
  <2>2. CASE c = "sie"
    BY <2>2 DEF Csrs!Read, Csrs!SieMask, Csrs!Bits
  <2>3. CASE c \notin Csrs!Stateful /\ c # "sie"
    BY <2>3 DEF Csrs!Read
  <2> QED BY <2>1, <2>2, <2>3
<1> DEFINE P == \E op \in {"csr", "csrrwi"}, rd \in BOOLEAN :
              \/ \E trap \in BOOLEAN :
                    Csrs!Leaves(op, c, trap, rd) /\ (trap /\ op = "csr" => ~rd)
              \/ \E w \in SUBSET Csrs!Bits :
                    Csrs!WriteAllowed(c, priv, reg) /\ Csrs!Writes(op, c, rd, w)
<1>4. ASSUME NEW w \in SUBSET Csrs!Bits, NEW none, Csrs!ReadModify(c, w, none) PROVE P
  <2>1. \/ Csrs!Leaves("csr", c, TRUE, FALSE) \/ Csrs!Leaves("csr", c, FALSE, TRUE)
        \/ Csrs!WriteAllowed(c, priv, reg) /\ Csrs!Writes("csr", c, TRUE, w)
    BY <1>4 DEF Csrs!ReadModify
  <2> QED BY <2>1, Zenon
<1>5. ASSUME NEW none, Csrs!csrrs(c, v, none) \/ Csrs!csrrc(c, v, none) PROVE P
  <2>1. Csrs!Read(c, reg) \cup v \in SUBSET Csrs!Bits /\ Csrs!Read(c, reg) \ v \in SUBSET Csrs!Bits
    BY <1>2, <1>3
  <2> HIDE DEF P
  <2> QED BY <1>4, <1>5, <2>1 DEF Csrs!csrrs, Csrs!csrrc
<1>6. ASSUME Csrs!csrrsi(c, v) \/ Csrs!csrrci(c, v) PROVE P
  <2>1. Csrs!Read(c, reg) \cup v \in SUBSET Csrs!Bits /\ Csrs!Read(c, reg) \ v \in SUBSET Csrs!Bits
    BY <1>2, <1>3
  <2>2. \E w \in SUBSET Csrs!Bits :
          \/ Csrs!Leaves("csr", c, TRUE, FALSE) \/ Csrs!Leaves("csr", c, FALSE, TRUE)
          \/ Csrs!WriteAllowed(c, priv, reg) /\ Csrs!Writes("csr", c, TRUE, w)
    BY <1>6, <2>1 DEF Csrs!csrrsi, Csrs!csrrci, Csrs!ReadModify
  <2> QED BY <2>2, Zenon
<1>7. ASSUME NEW rd \in BOOLEAN, Csrs!csrrw(c, v, rd) PROVE P
  <2>1. \/ Csrs!Leaves("csr", c, TRUE, FALSE)
        \/ Csrs!WriteAllowed(c, priv, reg) /\ Csrs!Writes("csr", c, rd, v)
    BY <1>7 DEF Csrs!csrrw
  <2> QED BY <1>2, <2>1, Zenon
<1>8. ASSUME NEW rd \in BOOLEAN, Csrs!csrrwi(c, v, rd) PROVE P
  <2>1. \/ Csrs!Leaves("csrrwi", c, TRUE, rd /\ Csrs!Allowed(c, priv, reg))
        \/ Csrs!WriteAllowed(c, priv, reg) /\ Csrs!Writes("csrrwi", c, rd, v)
    BY <1>8 DEF Csrs!csrrwi
  <2>2. (rd /\ Csrs!Allowed(c, priv, reg)) \in BOOLEAN
    OBVIOUS
  <2>3. "csrrwi" # "csr"
    OBVIOUS
  <2> QED BY <1>2, <2>1, <2>2, <2>3, Zenon
<1>9. P
  <2> HIDE DEF P
  <2> QED BY <1>1, <1>5, <1>6, <1>7, <1>8
<1> QED BY <1>9
\* What a write leaves: a register with bits it has, and only the one it names.
LEMMA CsrWritten ==
    ASSUME CsrInv, NEW c \in Csrs!Csrs, NEW w \in SUBSET Csrs!Bits,
           NEW r, r = Csrs!Written(c, w, reg)
    PROVE  /\ r \in [Csrs!Stateful -> SUBSET Csrs!Bits]
           /\ \A d \in Csrs!Stateful : r[d] \subseteq Csrs!Mask(d)
           /\ Csrs!SatpMode(r["satp"]) \in {{}, {3}}
           /\ \A d \in Csrs!Stateful : d # c => r[d] = reg[d] \/ (d = "mie" /\ c = "sie")
<1>1. /\ reg \in [Csrs!Stateful -> SUBSET Csrs!Bits]
      /\ \A d \in Csrs!Stateful : reg[d] \subseteq Csrs!Mask(d)
      /\ Csrs!SatpMode(reg["satp"]) \in {{}, {3}}
  BY DEF CsrInv
<1>2. "satp" \in Csrs!Stateful /\ "mie" \in Csrs!Stateful /\ "sie" \notin Csrs!Stateful
  BY DEF Csrs!Stateful, Csrs!MachineRegs, Csrs!SupervisorRegs
<1>3. CASE r = reg
  BY <1>1, <1>3
<1>4. CASE c = "satp" /\ r # reg
  <2>1. r = [reg EXCEPT !["satp"] = w] /\ Csrs!SatpMode(w) \in {{}, {3}}
    BY <1>4 DEF Csrs!Written, Csrs!SatpChanges
  <2>2. Csrs!Mask("satp") = Csrs!Bits
    BY DEF Csrs!Mask
  <2>3. r \in [Csrs!Stateful -> SUBSET Csrs!Bits] /\ r["satp"] = w
    BY <1>1, <1>2, <2>1
  <2>4. ASSUME NEW d \in Csrs!Stateful
        PROVE  r[d] \subseteq Csrs!Mask(d) /\ (d # c => r[d] = reg[d])
    BY <1>1, <1>2, <1>4, <2>1, <2>2, <2>3
  <2> QED BY <2>1, <2>3, <2>4
<1>5. CASE c = "sie"
  <2>1. r = [reg EXCEPT !["mie"] = w \cap Csrs!SieMask \cap Csrs!Mask("mie")]
    <3>1. c # "satp"
      BY <1>5
    <3> QED BY <1>2, <1>5, <3>1 DEF Csrs!Written
  <2>2. PICK m : m = w \cap Csrs!SieMask \cap Csrs!Mask("mie")
    OBVIOUS
  <2>3. m \subseteq Csrs!Mask("mie") /\ m \in SUBSET Csrs!Bits
    BY <2>2
  <2>4. r = [reg EXCEPT !["mie"] = m]
    BY <2>1, <2>2
  <2>5. r \in [Csrs!Stateful -> SUBSET Csrs!Bits] /\ r["satp"] = reg["satp"]
    BY <1>1, <1>2, <2>3, <2>4
  <2>6. ASSUME NEW d \in Csrs!Stateful
        PROVE  r[d] \subseteq Csrs!Mask(d) /\ (r[d] = reg[d] \/ d = "mie")
    BY <1>1, <2>3, <2>4
  <2> QED BY <1>1, <1>5, <2>5, <2>6
<1>6. CASE c \in Csrs!Stateful \ {"satp"}
  <2>1. r = [reg EXCEPT ![c] = w \cap Csrs!Mask(c)]
    BY <1>2, <1>6 DEF Csrs!Written
  <2>2. PICK m : m = w \cap Csrs!Mask(c)
    OBVIOUS
  <2>3. m \subseteq Csrs!Mask(c) /\ m \in SUBSET Csrs!Bits
    BY <2>2
  <2>4. r = [reg EXCEPT ![c] = m]
    BY <2>1, <2>2
  <2>5. r \in [Csrs!Stateful -> SUBSET Csrs!Bits] /\ r["satp"] = reg["satp"]
    BY <1>1, <1>2, <1>6, <2>3, <2>4
  <2>6. ASSUME NEW d \in Csrs!Stateful
        PROVE  r[d] \subseteq Csrs!Mask(d) /\ (d # c => r[d] = reg[d])
    BY <1>1, <1>6, <2>3, <2>4
  <2> QED BY <1>1, <2>5, <2>6
<1>7. CASE c \notin Csrs!Stateful /\ c # "sie"
  BY <1>1, <1>2, <1>3, <1>7 DEF Csrs!Written
<1> QED BY <1>3, <1>4, <1>5, <1>6, <1>7

\* A mode below M may write no register of M's.
LEMMA CsrBelowMachine ==
    ASSUME NEW c \in Csrs!Csrs, CsrInv, priv # 3, Csrs!WriteAllowed(c, priv, reg)
    PROVE  c \notin Csrs!MachineRegs
<1> SUFFICES ASSUME c \in Csrs!MachineRegs PROVE FALSE
  OBVIOUS
<1>1. c \notin Csrs!UserCounters /\ c # "stimecmp" /\ c # "satp" /\ c # "unimplemented"
  BY DEF Csrs!MachineRegs, Csrs!UserCounters
<1>2. priv >= Csrs!MinPriv(c)
  BY <1>1 DEF Csrs!WriteAllowed, Csrs!Allowed
<1>3. Csrs!MinPriv(c) = 3
  BY DEF Csrs!MinPriv, Csrs!Machine, Csrs!M
<1> QED BY <1>2, <1>3 DEF CsrInv

OwnStep ==
    (priv # Csrs!M /\ csrOut' # Csrs!Idle) =>
        \A c \in Csrs!MachineRegs : reg'[c] = reg[c] \/ (c = "mie" /\ csrOut'.sie)

LEMMA CsrStep ==
    ASSUME CsrInv, Csrs!Next
    PROVE  CsrInv' /\ OwnStep
<1>1. CASE Csrs!Environment
  <2>1. priv' \in {0, 1, 3} /\ csrOut' = Csrs!Idle /\ UNCHANGED <<reg, csrOut, csrWrites>>
    BY <1>1 DEF Csrs!Environment, CsrInv, Csrs!Privs, Csrs!U, Csrs!S, Csrs!M
  <2>2. CsrInv'
    BY <2>1 DEF CsrInv, Csrs!TrapsLeaveNoTrace
  <2> QED BY <2>1, <2>2 DEF OwnStep
<1>2. CASE Csrs!Retire
  <2>1. csrOut' = Csrs!Idle /\ UNCHANGED <<priv, reg, csrWrites>>
    BY <1>2 DEF Csrs!Retire
  <2>2. ~csrOut'.trap
    BY <2>1 DEF Csrs!Idle
  <2>3. CsrInv'
    BY <2>1, <2>2 DEF CsrInv, Csrs!TrapsLeaveNoTrace
  <2> QED BY <2>1, <2>3 DEF OwnStep
<1>3. CASE Csrs!CsrInsn
  <2>1. PICK c \in Csrs!Csrs, op \in {"csr", "csrrwi"}, rd \in BOOLEAN :
              \/ \E trap \in BOOLEAN :
                    Csrs!Leaves(op, c, trap, rd) /\ (trap /\ op = "csr" => ~rd)
              \/ \E w \in SUBSET Csrs!Bits :
                    Csrs!WriteAllowed(c, priv, reg) /\ Csrs!Writes(op, c, rd, w)
    BY <1>3, CsrInsnCases
  <2>2. ASSUME NEW trap \in BOOLEAN, Csrs!Leaves(op, c, trap, rd), trap /\ op = "csr" => ~rd
        PROVE  CsrInv' /\ OwnStep
    <3>1. UNCHANGED <<priv, tvm, reg, csrWrites>>
      BY <2>2 DEF Csrs!Leaves
    <3>2. csrOut' = [op |-> op, sie |-> c = "sie", trap |-> trap, rd |-> rd, wrote |-> FALSE]
      BY <2>2, Zenon DEF Csrs!Leaves
    <3>3. csrOut'.op = op /\ csrOut'.trap = trap /\ csrOut'.rd = rd /\ csrOut'.wrote = FALSE
      BY <3>2, Zenon
    <3>4. Csrs!TrapsLeaveNoTrace'
      BY <2>2, <3>3, op \in {"csr", "csrrwi"} DEF Csrs!TrapsLeaveNoTrace
    <3> QED BY <3>1, <3>4 DEF CsrInv, OwnStep
  <2>3. ASSUME NEW w \in SUBSET Csrs!Bits, Csrs!WriteAllowed(c, priv, reg),
               Csrs!Writes(op, c, rd, w)
        PROVE  CsrInv' /\ OwnStep
    <3>1. /\ reg' = Csrs!Written(c, w, reg) /\ UNCHANGED <<priv, tvm>>
          /\ csrWrites' = (IF reg' # reg THEN csrWrites + 1 ELSE csrWrites)
          /\ csrWrites' <= MaxWrites
      BY <2>3 DEF Csrs!Writes
    <3>2. csrOut' = [op |-> op, sie |-> c = "sie", trap |-> FALSE, rd |-> rd, wrote |-> TRUE]
      BY <2>3, Zenon DEF Csrs!Writes
    <3>3. csrOut'.trap = FALSE /\ (c = "sie" => csrOut'.sie)
      BY <3>2, Zenon
    <3>4. PICK r : r = reg'
      OBVIOUS
    <3>5. /\ r \in [Csrs!Stateful -> SUBSET Csrs!Bits]
          /\ \A d \in Csrs!Stateful : r[d] \subseteq Csrs!Mask(d)
          /\ Csrs!SatpMode(r["satp"]) \in {{}, {3}}
          /\ \A d \in Csrs!Stateful : d # c => r[d] = reg[d] \/ (d = "mie" /\ c = "sie")
      BY <3>1, <3>4, CsrWritten
    <3>6. csrWrites' \in 0 .. MaxWrites
      BY <3>1, CsrConstants DEF CsrInv
    <3>7. CsrInv'
      BY <3>1, <3>3, <3>4, <3>5, <3>6 DEF CsrInv, Csrs!TrapsLeaveNoTrace
    <3>8. ASSUME priv # 3, NEW d \in Csrs!MachineRegs
          PROVE  reg'[d] = reg[d] \/ (d = "mie" /\ csrOut'.sie)
      <4>1. c # d
        BY <2>3, <3>8, CsrBelowMachine
      <4>2. d \in Csrs!Stateful
        BY DEF Csrs!Stateful
      <4> QED BY <3>3, <3>4, <3>5, <4>1, <4>2
    <3>9. OwnStep
      BY <3>8, Zenon DEF OwnStep, Csrs!M
    <3> QED BY <3>7, <3>9
  <2> QED BY <2>1, <2>2, <2>3
<1> QED BY <1>1, <1>2, <1>3 DEF Csrs!Next
LEMMA CsrMeans ==
    ASSUME CsrInv
    PROVE  /\ Csrs!TypeOK /\ Csrs!PrivilegeIsLayered
           /\ Csrs!WritingBackIsIdle /\ Csrs!TrapsLeaveNoTrace
<1>1. Csrs!TypeOK
  BY DEF CsrInv, Csrs!TypeOK, Csrs!Privs, Csrs!U, Csrs!S, Csrs!M
<1>2. Csrs!PrivilegeIsLayered
  <2> SUFFICES ASSUME NEW c \in Csrs!Csrs, NEW p \in {0, 1, 3}, NEW q \in {0, 1, 3}, p <= q,
                      Csrs!Allowed(c, p, reg)
               PROVE  Csrs!Allowed(c, q, reg)
    BY DEF Csrs!PrivilegeIsLayered, Csrs!WriteAllowed, Csrs!Privs, Csrs!U, Csrs!S, Csrs!M
  <2>1. CASE c \in Csrs!UserCounters
    <3>0. c \notin {"stimecmp", "satp", "unimplemented"}
      BY <2>1 DEF Csrs!UserCounters
    <3>1. Csrs!CounterAllowed(c, p, reg)
      BY <2>1, <3>0 DEF Csrs!Allowed
    <3>2. Csrs!CounterAllowed(c, q, reg)
      BY <3>1 DEF Csrs!CounterAllowed, Csrs!U, Csrs!S, Csrs!M
    <3> QED BY <2>1, <3>0, <3>2 DEF Csrs!Allowed
  <2>2. CASE c = "stimecmp"
    <3>1. c \notin Csrs!UserCounters
      BY <2>2 DEF Csrs!UserCounters
    <3> QED BY <2>2, <3>1 DEF Csrs!Allowed, Csrs!StimecmpAllowed, Csrs!U, Csrs!S, Csrs!M
  <2>3. CASE c = "satp"
    <3>1. c \notin Csrs!UserCounters /\ c # "stimecmp"
      BY <2>3 DEF Csrs!UserCounters
    <3> QED BY <2>3, <3>1 DEF Csrs!Allowed, Csrs!SatpAllowed, Csrs!U, Csrs!S, Csrs!M
  <2>4. CASE c \notin Csrs!UserCounters \cup {"stimecmp", "satp"}
    <3>1. c # "unimplemented" /\ p >= Csrs!MinPriv(c)
      BY <2>4 DEF Csrs!Allowed
    <3>2. Csrs!MinPriv(c) \in Nat
      BY DEF Csrs!MinPriv, Csrs!U, Csrs!S, Csrs!M
    <3>3. q >= Csrs!MinPriv(c)
      BY <3>1, <3>2
    <3> QED BY <2>4, <3>1, <3>3 DEF Csrs!Allowed
  <2> QED BY <2>1, <2>2, <2>3, <2>4
<1>3. Csrs!WritingBackIsIdle
  <2> SUFFICES ASSUME NEW c \in Csrs!Csrs \ {"sie"}
               PROVE  Csrs!Written(c, Csrs!Read(c, reg), reg) = reg
    BY DEF Csrs!WritingBackIsIdle
  <2>1. "satp" \in Csrs!Stateful
    BY DEF Csrs!Stateful, Csrs!SupervisorRegs
  <2>2. CASE c = "satp"
    <3>1. Csrs!Read(c, reg) = reg["satp"]
      BY <2>1, <2>2 DEF Csrs!Read
    <3> QED BY <2>2, <3>1 DEF Csrs!Written, Csrs!SatpChanges
  <2>3. CASE c \in Csrs!Stateful \ {"satp"}
    <3>1. Csrs!Read(c, reg) = reg[c]
      BY <2>3 DEF Csrs!Read
    <3>2. reg[c] \cap Csrs!Mask(c) = reg[c]
      BY <2>3 DEF CsrInv
    <3>3. Csrs!Written(c, reg[c], reg) = [reg EXCEPT ![c] = reg[c] \cap Csrs!Mask(c)]
      BY <2>3 DEF Csrs!Written
    <3>4. [reg EXCEPT ![c] = reg[c]] = reg
      BY <2>3 DEF CsrInv
    <3> QED BY <3>1, <3>2, <3>3, <3>4
  <2>4. CASE c \notin Csrs!Stateful
    BY <2>1, <2>4 DEF Csrs!Written
  <2> QED BY <2>2, <2>3, <2>4
<1> QED BY <1>1, <1>2, <1>3 DEF CsrInv

LEMMA CountMeans == CountInv => Count!TypeOK /\ Count!CountsExactly
<1> SUFFICES ASSUME CountInv PROVE Count!TypeOK /\ Count!CountsExactly
  OBVIOUS
<1> DEFINE W == 2^CounterWidth
<1>1. /\ W \in Nat /\ mcycle \in Nat /\ mcycle < W /\ minstret \in Nat /\ minstret < W
      /\ inhibit \subseteq {"CY", "IR"} /\ increase_suppressed \in BOOLEAN
  BY CpuThreadAssumptions DEF CountInv, Count!CountersAssumption
<1>2. mcycle \in 0 .. W - 1 /\ minstret \in 0 .. W - 1
  <2> HIDE DEF W
  <2> QED BY <1>1
<1> QED BY <1>1, <1>2 DEF CountInv, Count!TypeOK, Count!CY, Count!IR

\* Whatever CSR instructions run in whatever modes, with every operand: software
\* below M changes no register of M's but mie through sie, permissions grow with
\* the privilege whatever mcounteren, scounteren, menvcfg and TVM say, a register
\* written with what it reads keeps everything, sie apart, and an instruction that
\* raises an exception leaves no trace, csrrwi apart.  minstret and mcycle count
\* exactly, for counters of every width.
THEOREM CsrsHold == Spec => CsrsKeepTheirOwner
<1>1. Init => CsrInv /\ CountInv
  <2> SUFFICES ASSUME Init PROVE CsrInv /\ CountInv
    OBVIOUS
  <2>1. Csrs!Init /\ Count!Init
    BY DEF Init
  <2>2. CsrInv
    <3>1. /\ priv = 3 /\ csrWrites = 0 /\ reg = [c \in Csrs!Stateful |-> {}]
          /\ ~csrOut.trap
      BY <2>1 DEF Csrs!Init, Csrs!M, Csrs!Idle
    <3>2. reg["satp"] = {}
      BY <3>1 DEF Csrs!Stateful, Csrs!SupervisorRegs
    <3>3. csrWrites \in 0 .. MaxWrites /\ reg \in [Csrs!Stateful -> SUBSET Csrs!Bits]
      BY <3>1, CsrConstants
    <3>4. \A c \in Csrs!Stateful : reg[c] \subseteq Csrs!Mask(c)
      BY <3>1
    <3>5. Csrs!SatpMode(reg["satp"]) = {}
      BY <3>2 DEF Csrs!SatpMode
    <3>6. Csrs!TrapsLeaveNoTrace
      BY <3>1 DEF Csrs!TrapsLeaveNoTrace
    <3> QED BY <3>1, <3>3, <3>4, <3>5, <3>6 DEF CsrInv
  <2>3. CountInv
    <3> DEFINE W == 2^CounterWidth
    <3>1. W \in Nat \ {0}
      BY CpuThreadAssumptions DEF Count!CountersAssumption
    <3>2. (0 + 0) % W = 0 /\ 0 < W
      <4> HIDE DEF W
      <4> QED BY <3>1
    <3>3. /\ mcycle = 0 /\ minstret = 0 /\ inhibit = {} /\ increase_suppressed = FALSE
          /\ since = [instret |-> 0, retired |-> 0, cycle |-> 0, begun |-> 0]
      BY <2>1 DEF Count!Init
    <3> QED BY <3>2, <3>3 DEF CountInv, Count!CountsExactly, Count!Wrap
  <2> QED BY <2>2, <2>3
<1>2. CsrInv /\ [Next]_vars => CsrInv' /\ [OwnStep]_(Csrs!vars)
  <2> SUFFICES ASSUME CsrInv, [Next]_vars PROVE CsrInv' /\ [OwnStep]_(Csrs!vars)
    OBVIOUS
  <2>1. Csrs!Next \/ UNCHANGED csrVars
    BY DEF Next, vars
  <2>2. CASE UNCHANGED csrVars
    BY <2>2 DEF CsrInv, Csrs!vars, csrVars, Csrs!TrapsLeaveNoTrace
  <2>3. CASE Csrs!Next
    BY <2>3, CsrStep
  <2> QED BY <2>1, <2>2, <2>3
<1>3. CountInv /\ [Next]_vars => CountInv'
  <2> SUFFICES ASSUME CountInv, [Next]_vars PROVE CountInv'
    OBVIOUS
  <2>1. Count!Next \/ UNCHANGED countVars
    BY DEF Next, vars
  <2>2. CASE UNCHANGED countVars
    BY <2>2 DEF CountInv, countVars, Count!CountsExactly
  <2>3. CASE Count!Next
    BY <2>3, CountStep
  <2> QED BY <2>1, <2>2, <2>3
<1>4. CsrInv => (part = "csr" => /\ Csrs!TypeOK /\ Csrs!PrivilegeIsLayered
                                 /\ Csrs!WritingBackIsIdle /\ Csrs!TrapsLeaveNoTrace)
  BY CsrMeans
<1>5. CountInv => (part = "count" => Count!TypeOK /\ Count!CountsExactly)
  BY CountMeans
<1>6. Spec => [](part = "csr" => /\ Csrs!TypeOK /\ Csrs!PrivilegeIsLayered
                                 /\ Csrs!WritingBackIsIdle /\ Csrs!TrapsLeaveNoTrace)
  BY <1>1, <1>2, <1>4, PTL DEF Spec
<1>7. Spec => [](part = "count" => Count!TypeOK /\ Count!CountsExactly)
  BY <1>1, <1>3, <1>5, PTL DEF Spec
<1>8. Spec => Csrs!MachineIsItsOwn
  <2>1. Spec => [][OwnStep]_(Csrs!vars)
    BY <1>1, <1>2, PTL DEF Spec
  <2> QED BY <2>1 DEF Csrs!MachineIsItsOwn, OwnStep
<1> QED BY <1>6, <1>7, <1>8 DEF CsrsKeepTheirOwner
-----------------------------------------------------------------------------
(* The floating-point unit.                                                *)

FpWord == Fpu!Values(Fpu!Double)

LEMMA FpPowers ==
    /\ Fpu!Single # Fpu!Double
    /\ \E B \in Nat, C \in Nat :
          /\ C = B * B /\ 2^Fpu!Width(Fpu!Single) = B /\ 2^Fpu!Width(Fpu!Double) = C
          /\ Fpu!Values(Fpu!Single) = 0 .. B - 1 /\ FpWord = 0 .. C - 1
    /\ \A f \in {Fpu!Single, Fpu!Double} : \E S \in Nat \ {0} :
          /\ S = Fpu!SIGN(f) /\ 2^Fpu!Width(f) = 2 * S /\ Fpu!Values(f) = 0 .. (2 * S) - 1
          /\ Fpu!DEFAULT_NAN(f) \in Fpu!Values(f)
    /\ FpWords \subseteq FpWord /\ Results \subseteq Fpu!Values(Fpu!Single)
    /\ RaisedSets \subseteq SUBSET Fpu!Flags /\ FcsrWords \subseteq Nat
    /\ RmFields \subseteq 0 .. 7
<1>1. Fpu!FormatAssumption /\ Fpu!PowerFacts /\ Fpu!FpAssumption
  BY CpuThreadAssumptions
<1>2. Fpu!Single # Fpu!Double
  <2> SUFFICES ASSUME Fpu!Single = Fpu!Double PROVE FALSE
    OBVIOUS
  <2>1. SingleExp = DoubleExp /\ SingleFrac = DoubleFrac
    BY DEF Fpu!Single, Fpu!Double
  <2> QED BY <1>1, <2>1 DEF Fpu!FormatAssumption, Fpu!Width, Fpu!Single, Fpu!Double
<1>3. PICK B \in Nat : B = 2^Fpu!Width(Fpu!Single)
  BY <1>1 DEF Fpu!PowerFacts
<1>4. PICK C \in Nat : C = B * B
  BY <1>3
<1>5. 2^Fpu!Width(Fpu!Double) = C
  BY <1>1, <1>3, <1>4 DEF Fpu!PowerFacts
<1>6. Fpu!Values(Fpu!Single) = 0 .. B - 1 /\ FpWord = 0 .. C - 1
  BY <1>3, <1>5 DEF Fpu!Values, FpWord
<1>7. ASSUME NEW f \in {Fpu!Single, Fpu!Double}
      PROVE  \E S \in Nat \ {0} :
          /\ S = Fpu!SIGN(f) /\ 2^Fpu!Width(f) = 2 * S /\ Fpu!Values(f) = 0 .. (2 * S) - 1
          /\ Fpu!DEFAULT_NAN(f) \in Fpu!Values(f)
  <2>1. /\ Fpu!SIGN(f) \in Nat \ {0} /\ 2^Fpu!Width(f) = 2 * Fpu!SIGN(f)
        /\ Fpu!DEFAULT_NAN(f) \in Fpu!Values(f)
    BY <1>1, Zenon DEF Fpu!PowerFacts
  <2>2. PICK S \in Nat \ {0} : S = Fpu!SIGN(f)
    BY <2>1
  <2>3. Fpu!Values(f) = 0 .. (2 * S) - 1
    BY <2>1, <2>2 DEF Fpu!Values
  <2> QED BY <2>1, <2>2, <2>3
<1>8. /\ FpWords \subseteq FpWord /\ Results \subseteq Fpu!Values(Fpu!Single)
      /\ RaisedSets \subseteq SUBSET Fpu!Flags /\ FcsrWords \subseteq Nat
      /\ RmFields \subseteq 0 .. 7
  BY <1>1 DEF Fpu!FpAssumption, FpWord
<1>9. \E B1 \in Nat, C1 \in Nat :
          /\ C1 = B1 * B1 /\ 2^Fpu!Width(Fpu!Single) = B1 /\ 2^Fpu!Width(Fpu!Double) = C1
          /\ Fpu!Values(Fpu!Single) = 0 .. B1 - 1 /\ FpWord = 0 .. C1 - 1
  BY <1>3, <1>4, <1>5, <1>6, Zenon
<1>10. \A f \in {Fpu!Single, Fpu!Double} : \E S \in Nat \ {0} :
          /\ S = Fpu!SIGN(f) /\ 2^Fpu!Width(f) = 2 * S /\ Fpu!Values(f) = 0 .. (2 * S) - 1
          /\ Fpu!DEFAULT_NAN(f) \in Fpu!Values(f)
  BY ONLY <1>7, Zenon
<1> QED BY ONLY <1>2, <1>8, <1>9, <1>10, Zenon

\* A value of a format makes a register, and the other way round.
LEMMA FpBoxes ==
    ASSUME NEW f \in {Fpu!Single, Fpu!Double}
    PROVE  /\ \A v \in Fpu!Values(f) : Fpu!WriteAs(f, v) \in FpWord
           /\ \A r \in FpWord : Fpu!ReadAs(f, r) \in Fpu!Values(f)
           /\ \A w \in FpWord : Fpu!LowFor(f, w) \in Fpu!Values(f)
           /\ \A v \in Results : v \in Fpu!Values(f)
<1>1. PICK B \in Nat, C \in Nat :
          /\ C = B * B /\ 2^Fpu!Width(Fpu!Single) = B /\ 2^Fpu!Width(Fpu!Double) = C
          /\ Fpu!Values(Fpu!Single) = 0 .. B - 1 /\ FpWord = 0 .. C - 1
  BY FpPowers
<1>2. B > 0
  <2>1. Fpu!DEFAULT_NAN(Fpu!Single) \in Fpu!Values(Fpu!Single)
    BY FpPowers
  <2> QED BY <1>1, <2>1
<1>3. B <= C
  BY <1>1, <1>2
<1>4. CASE f = Fpu!Single
  <2>1. ASSUME NEW v \in Fpu!Values(f) PROVE Fpu!WriteAs(f, v) \in FpWord
    <3>1. Fpu!WriteAs(f, v) = v + (B - 1) * B
      BY <1>1, <1>4 DEF Fpu!WriteAs, Fpu!box, Fpu!HighOnes
    <3>2. (B - 1) * B = C - B
      BY <1>1
    <3>3. v \in 0 .. B - 1
      BY <1>1, <1>4
    <3>4. v + (C - B) \in 0 .. C - 1
      BY <1>3, <3>3
    <3> QED BY <1>1, <3>1, <3>2, <3>4
  <2>2. ASSUME NEW w \in FpWord PROVE Fpu!unbox(w) \in Fpu!Values(f)
    <3>1. w \in Nat /\ Fpu!unbox(w) = w % B
      BY <1>1 DEF Fpu!unbox
    <3>2. w % B \in 0 .. B - 1
      BY <1>2, <3>1
    <3> QED BY <1>1, <1>4, <3>1, <3>2
  <2>3. Fpu!DEFAULT_NAN(Fpu!Single) \in Fpu!Values(f)
    BY <1>4, FpPowers
  <2>4. \A w \in FpWord : Fpu!ReadAs(f, w) \in Fpu!Values(f) /\ Fpu!LowFor(f, w) \in Fpu!Values(f)
    BY <1>4, <2>2, <2>3 DEF Fpu!ReadAs, Fpu!read_32, Fpu!LowFor
  <2>5. \A v \in Results : v \in Fpu!Values(f)
    BY <1>4, FpPowers
  <2> QED BY <2>1, <2>4, <2>5
<1>5. CASE f = Fpu!Double
  <2>1. f # Fpu!Single /\ Fpu!Values(f) = FpWord
    BY <1>5, FpPowers DEF FpWord
  <2>2. \A v \in Results : v \in Fpu!Values(f)
    <3>1. Results \subseteq 0 .. B - 1
      BY <1>1, FpPowers
    <3>2. 0 .. B - 1 \subseteq 0 .. C - 1
      BY <1>3
    <3> QED BY <1>1, <2>1, <3>1, <3>2
  <2> QED BY <2>1, <2>2 DEF Fpu!WriteAs, Fpu!ReadAs, Fpu!LowFor
<1> QED BY <1>4, <1>5

\* The instructions that compute on the bits stay in their format.
LEMMA FpClosed ==
    ASSUME NEW f \in {Fpu!Single, Fpu!Double},
           NEW u \in Fpu!Values(f), NEW v \in Fpu!Values(f)
    PROVE  /\ Fpu!fsgnj(f, u, v) \in Fpu!Values(f) /\ Fpu!fsgnjn(f, u, v) \in Fpu!Values(f)
           /\ Fpu!fsgnjx(f, u, v) \in Fpu!Values(f)
           /\ Fpu!fmin(f, u, v) \in Fpu!Values(f) /\ Fpu!fmax(f, u, v) \in Fpu!Values(f)
<1>1. PICK S \in Nat \ {0} :
          /\ S = Fpu!SIGN(f) /\ 2^Fpu!Width(f) = 2 * S /\ Fpu!Values(f) = 0 .. (2 * S) - 1
          /\ Fpu!DEFAULT_NAN(f) \in Fpu!Values(f)
  BY FpPowers
<1>2. u \in 0 .. (2 * S) - 1 /\ v \in 0 .. (2 * S) - 1
  BY <1>1
<1>3. ASSUME NEW x \in 0 .. (2 * S) - 1
      PROVE  Fpu!Magnitude(f, x) \in 0 .. S - 1 /\ Fpu!SignBit(f, x) \in {0, S}
  <2>1. Fpu!Magnitude(f, x) = x % S
    BY <1>1 DEF Fpu!Magnitude
  <2>2. x \in Nat /\ x < 2 * S
    OBVIOUS
  <2>3. x = S * (x \div S) + (x % S) /\ x \div S \in Nat /\ x % S \in 0 .. S - 1
    BY <2>2, SplitOf
  <2>4. PICK d \in Nat : d = x \div S
    BY <2>3
  <2>5. PICK m \in 0 .. S - 1 : m = x % S
    BY <2>3
  <2>6. x = S * d + m
    BY <2>3, <2>4, <2>5
  <2>7. d < 2
    <3> SUFFICES ASSUME d >= 2 PROVE FALSE
      OBVIOUS
    <3>1. S * d >= S * 2
      OBVIOUS
    <3> QED BY <2>2, <2>6, <3>1
  <2>8. x - m \in {0, S}
    <3>1. CASE d = 0
      BY <2>6, <3>1
    <3>2. CASE d = 1
      BY <2>6, <3>2
    <3> QED BY <2>7, <3>1, <3>2
  <2> QED BY <2>1, <2>5, <2>8 DEF Fpu!SignBit
<1>4. ASSUME NEW m \in 0 .. S - 1, NEW s \in {0, S} PROVE m + s \in 0 .. (2 * S) - 1
  OBVIOUS
<1>5. ASSUME NEW x \in Nat PROVE x % (2 * S) \in 0 .. (2 * S) - 1
  <2>1. 2 * S \in Nat \ {0}
    OBVIOUS
  <2> QED BY <2>1, SplitOf
<1>6. Fpu!fsgnj(f, u, v) \in Fpu!Values(f)
  BY <1>1, <1>2, <1>3, <1>4 DEF Fpu!fsgnj
<1>7. Fpu!fsgnjn(f, u, v) \in Fpu!Values(f)
  <2>1. Fpu!neg(f, v) \in 0 .. (2 * S) - 1
    <3>1. v + S \in Nat
      BY <1>2
    <3> QED BY <1>1, <1>5, <3>1 DEF Fpu!neg
  <2> QED BY <1>1, <1>2, <1>3, <1>4, <2>1 DEF Fpu!fsgnjn
<1>8. Fpu!fsgnjx(f, u, v) \in Fpu!Values(f)
  <2>1. u + Fpu!SignBit(f, v) \in Nat
    <3>1. Fpu!SignBit(f, v) \in {0, S}
      BY <1>2, <1>3
    <3>2. PICK s \in {0, S} : s = Fpu!SignBit(f, v)
      BY <3>1
    <3>3. u + s \in Nat
      BY <1>2
    <3> QED BY <3>2, <3>3
  <2> QED BY <1>1, <1>5, <2>1 DEF Fpu!fsgnjx
<1>9. Fpu!fmin(f, u, v) \in {u, v, Fpu!DEFAULT_NAN(f)}
  BY DEF Fpu!fmin
<1>10. Fpu!fmax(f, u, v) \in {u, v, Fpu!DEFAULT_NAN(f)}
  BY DEF Fpu!fmax
<1> QED BY <1>1, <1>6, <1>7, <1>8, <1>9, <1>10
FpMembers(s) ==
    /\ DOMAIN s = {"fs", "fflags", "frm", "F", "sf"}
    /\ s.fs \in 0 .. 3 /\ s.fflags \in SUBSET Fpu!Flags /\ s.frm \in 0 .. 7
    /\ s.F \in [FRegs -> FpWord] /\ s.sf \in SUBSET Fpu!Flags

FpInv ==
    /\ FpMembers(hart) /\ hart.sf = {}
    /\ unsaved \subseteq Fpu!Parts /\ byCompressed \subseteq FRegs
    /\ Fpu!CleanMeansSaved

AccrueStep ==
    (fpOut' # Fpu!Idle /\ fpOut'.op \notin Fpu!Csrs) =>
        hart'.fflags = hart.fflags \cup fpOut'.raised
ViewStep ==
    fpOut'.op = "fcsr" =>
        /\ Fpu!CsrRead(hart', "fcsr") = fpOut'.v % 256
        /\ Fpu!CsrRead(hart', "fflags") = fpOut'.v % 32
        /\ Fpu!CsrRead(hart', "frm") = (fpOut'.v \div 32) % 8

\* What the helpers of execute.cpp make of the state.
LEMMA FpHelpers ==
    ASSUME NEW s, FpMembers(s)
    PROVE  /\ \A r : r = Fpu!fp_set_dirty(s) =>
                 /\ FpMembers(r) /\ r.fs = 3 /\ r.fflags = s.fflags /\ r.frm = s.frm
                 /\ r.F = s.F /\ r.sf = s.sf
           /\ \A r : r = Fpu!fp_update_exception_flags(s) =>
                 /\ FpMembers(r) /\ r.fflags = s.fflags \cup s.sf /\ r.sf = {}
                 /\ r.F = s.F /\ r.frm = s.frm
                 /\ r.fs = IF s.sf = {} THEN s.fs ELSE 3
           /\ \A r : r = Fpu!fp_inst_end(s) =>
                 /\ FpMembers(r) /\ r.fs = 3 /\ r.fflags = s.fflags \cup s.sf /\ r.sf = {}
           /\ \A f \in {Fpu!Single, Fpu!Double} : \A rd \in FRegs : \A v \in Fpu!Values(f) :
                 \A r : r = Fpu!Write(s, f, rd, v) =>
                    /\ FpMembers(r) /\ r.fs = s.fs /\ r.fflags = s.fflags /\ r.frm = s.frm
                    /\ r.sf = s.sf
<1>1. ASSUME NEW t, FpMembers(t), NEW r, r = Fpu!fp_set_dirty(t)
      PROVE  /\ FpMembers(r) /\ r.fs = 3 /\ r.fflags = t.fflags /\ r.frm = t.frm
             /\ r.F = t.F /\ r.sf = t.sf
  BY <1>1 DEF Fpu!fp_set_dirty, FpMembers, Fpu!Dirty
<1>2. ASSUME NEW t, FpMembers(t), NEW r, r = Fpu!fp_update_exception_flags(t)
      PROVE  /\ FpMembers(r) /\ r.fflags = t.fflags \cup t.sf /\ r.sf = {}
             /\ r.F = t.F /\ r.frm = t.frm
             /\ r.fs = IF t.sf = {} THEN t.fs ELSE 3
  <2>1. CASE t.sf = {}
    <3>1. r = t
      BY <1>2, <2>1 DEF Fpu!fp_update_exception_flags
    <3> QED BY <1>2, <2>1, <3>1
  <2>2. CASE t.sf # {}
    <3>1. PICK d : d = Fpu!fp_set_dirty(t)
      OBVIOUS
    <3>2. r = [d EXCEPT !.fflags = @ \cup t.sf, !.sf = {}]
      BY <1>2, <2>2, <3>1 DEF Fpu!fp_update_exception_flags
    <3>3. /\ FpMembers(d) /\ d.fs = 3 /\ d.fflags = t.fflags /\ d.frm = t.frm
          /\ d.F = t.F /\ d.sf = t.sf
      BY <1>1, <1>2, <3>1
    <3>4. t.fflags \cup t.sf \in SUBSET Fpu!Flags
      BY <1>2 DEF FpMembers
    <3> QED BY <2>2, <3>2, <3>3, <3>4 DEF FpMembers
  <2> QED BY <2>1, <2>2
<1>3. ASSUME NEW r, r = Fpu!fp_inst_end(s)
      PROVE  FpMembers(r) /\ r.fs = 3 /\ r.fflags = s.fflags \cup s.sf /\ r.sf = {}
  <2>1. PICK d : d = Fpu!fp_set_dirty(s)
    OBVIOUS
  <2>2. r = Fpu!fp_update_exception_flags(d)
    BY <1>3, <2>1 DEF Fpu!fp_inst_end
  <2>3. FpMembers(d) /\ d.fs = 3 /\ d.fflags = s.fflags /\ d.sf = s.sf
    BY <1>1, <2>1
  <2>4. /\ FpMembers(r) /\ r.fflags = d.fflags \cup d.sf /\ r.sf = {}
        /\ r.fs = IF d.sf = {} THEN d.fs ELSE 3
    BY <1>2, <2>2, <2>3
  <2> QED BY <2>3, <2>4
<1>4. ASSUME NEW f \in {Fpu!Single, Fpu!Double}, NEW rd \in FRegs, NEW v \in Fpu!Values(f),
             NEW r, r = Fpu!Write(s, f, rd, v)
      PROVE  /\ FpMembers(r) /\ r.fs = s.fs /\ r.fflags = s.fflags /\ r.frm = s.frm
             /\ r.sf = s.sf
  <2>1. PICK w \in FpWord : w = Fpu!WriteAs(f, v)
    BY FpBoxes
  <2>2. r = [s EXCEPT !.F[rd] = w]
    BY <1>4, <2>1 DEF Fpu!Write
  <2> QED BY <2>2 DEF FpMembers
<1> QED BY <1>1, <1>2, <1>3, <1>4

LEMMA FpRaises ==
    ASSUME NEW s, FpMembers(s), s.sf = {}, NEW flags \in SUBSET Fpu!Flags,
           NEW r, r = Fpu!Raise(s, flags)
    PROVE  /\ FpMembers(r) /\ r.fs = s.fs /\ r.fflags = s.fflags /\ r.frm = s.frm
           /\ r.F = s.F /\ r.sf = flags
<1>1. s.sf \cup flags = flags
  OBVIOUS
<1> QED BY <1>1 DEF Fpu!Raise, FpMembers

\* An instruction that ends keeps the invariant if it leaves SoftFloat's flags
\* empty and the state dirty, or changes nothing.
LEMMA FpEnds ==
    ASSUME FpInv, NEW op, NEW s, NEW raised \in SUBSET Fpu!Flags, NEW v,
           FpMembers(s), s.sf = {},
           s.fs = 3 \/ (s.fs = hart.fs /\ Fpu!Changed(hart, s) = {}),
           Fpu!Ends(op, s, raised, v), byCompressed' = byCompressed
    PROVE  FpInv'
<1>1. hart' = s /\ unsaved' = unsaved \cup Fpu!Changed(hart, s)
  BY DEF Fpu!Ends
<1>2. Fpu!Changed(hart, s) \subseteq Fpu!Parts
  BY DEF Fpu!Changed, Fpu!Parts
<1>3. Fpu!CleanMeansSaved'
  BY <1>1 DEF FpInv, Fpu!CleanMeansSaved, Fpu!Dirty
<1> QED BY <1>1, <1>2, <1>3 DEF FpInv

LEMMA FpCompletes ==
    ASSUME FpInv, NEW s, NEW raised \in SUBSET Fpu!Flags, FpMembers(s), s.sf = {},
           s.fs = 3 \/ (s.fs = hart.fs /\ Fpu!Changed(hart, s) = {}),
           s.fflags = hart.fflags \cup raised, Fpu!Completes(s, raised)
    PROVE  FpInv' /\ AccrueStep /\ ViewStep
<1>1. Fpu!Ends("fp", s, raised, 0) /\ byCompressed' = byCompressed
  BY DEF Fpu!Completes
<1>2. FpInv'
  BY <1>1, FpEnds
<1>3. hart' = s /\ fpOut' = [op |-> "fp", raised |-> raised, v |-> 0]
  BY <1>1 DEF Fpu!Ends
<1>4. AccrueStep /\ ViewStep
  BY <1>3 DEF AccrueStep, ViewStep
<1> QED BY <1>2, <1>4

LEMMA FpTraps ==
    ASSUME FpInv, Fpu!Completes(hart, {})
    PROVE  FpInv' /\ AccrueStep /\ ViewStep
<1>1. PICK s : s = hart
  OBVIOUS
<1>2. FpMembers(s) /\ s.sf = {}
  BY <1>1 DEF FpInv
<1>3. Fpu!Changed(hart, s) = {} /\ s.fs = hart.fs
  BY <1>1 DEF Fpu!Changed
<1>4. s.fflags = hart.fflags \cup {}
  BY <1>1
<1>5. Fpu!Completes(s, {})
  BY <1>1
<1> QED BY <1>2, <1>3, <1>4, <1>5, FpCompletes

LEMMA FpOffTraps ==
    ASSUME FpInv, Fpu!FpOff \/ (Fpu!Prepared /\ Fpu!Traps)
    PROVE  FpInv' /\ AccrueStep /\ ViewStep
BY FpTraps DEF Fpu!FpOff, Fpu!Traps

\* A register written, with and without flags.
LEMMA FpWrites ==
    ASSUME FpInv, NEW f \in {Fpu!Single, Fpu!Double}, NEW rd \in FRegs,
           NEW v \in Fpu!Values(f),
           Fpu!Completes(Fpu!fp_set_dirty(Fpu!Write(hart, f, rd, v)), {})
    PROVE  FpInv' /\ AccrueStep /\ ViewStep
<1>1. PICK h : h = hart
  OBVIOUS
<1>2. FpMembers(h) /\ h.sf = {}
  BY <1>1 DEF FpInv
<1>3. PICK w : w = Fpu!Write(h, f, rd, v)
  OBVIOUS
<1>4. FpMembers(w) /\ w.fflags = h.fflags /\ w.sf = {}
  BY <1>2, <1>3, FpHelpers
<1>5. PICK s : s = Fpu!fp_set_dirty(w)
  OBVIOUS
<1>6. FpMembers(s) /\ s.fs = 3 /\ s.fflags = h.fflags \cup {} /\ s.sf = {}
  BY <1>4, <1>5, FpHelpers
<1>7. Fpu!Completes(s, {})
  BY <1>1, <1>3, <1>5
<1> QED BY <1>1, <1>6, <1>7, FpCompletes

LEMMA FpComputes ==
    ASSUME FpInv, NEW f \in {Fpu!Single, Fpu!Double}, NEW rd \in FRegs,
           NEW v \in Fpu!Values(f), NEW flags \in SUBSET Fpu!Flags,
           Fpu!Completes(Fpu!fp_inst_end(Fpu!Raise(Fpu!Write(hart, f, rd, v), flags)), flags)
    PROVE  FpInv' /\ AccrueStep /\ ViewStep
<1>1. PICK h : h = hart
  OBVIOUS
<1>2. FpMembers(h) /\ h.sf = {}
  BY <1>1 DEF FpInv
<1>3. PICK w : w = Fpu!Write(h, f, rd, v)
  OBVIOUS
<1>4. FpMembers(w) /\ w.fflags = h.fflags /\ w.sf = {}
  BY <1>2, <1>3, FpHelpers
<1>5. PICK u : u = Fpu!Raise(w, flags)
  OBVIOUS
<1>6. FpMembers(u) /\ u.fflags = h.fflags /\ u.sf = flags
  BY <1>4, <1>5, FpRaises
<1>7. PICK s : s = Fpu!fp_inst_end(u)
  OBVIOUS
<1>8. FpMembers(s) /\ s.fs = 3 /\ s.fflags = h.fflags \cup flags /\ s.sf = {}
  BY <1>6, <1>7, FpHelpers
<1>9. Fpu!Completes(s, flags)
  BY <1>1, <1>3, <1>5, <1>7
<1> QED BY <1>1, <1>8, <1>9, FpCompletes

\* Only flags.
LEMMA FpFlags ==
    ASSUME FpInv, NEW flags \in SUBSET Fpu!Flags,
           Fpu!Completes(Fpu!fp_update_exception_flags(Fpu!Raise(hart, flags)), flags)
    PROVE  FpInv' /\ AccrueStep /\ ViewStep
<1>1. PICK h : h = hart
  OBVIOUS
<1>2. FpMembers(h) /\ h.sf = {}
  BY <1>1 DEF FpInv
<1>3. PICK u : u = Fpu!Raise(h, flags)
  OBVIOUS
<1>4. /\ FpMembers(u) /\ u.fflags = h.fflags /\ u.sf = flags /\ u.fs = h.fs
      /\ u.F = h.F /\ u.frm = h.frm
  BY <1>2, <1>3, FpRaises
<1>5. PICK s : s = Fpu!fp_update_exception_flags(u)
  OBVIOUS
<1>6. /\ FpMembers(s) /\ s.fflags = h.fflags \cup flags /\ s.sf = {}
      /\ s.F = h.F /\ s.frm = h.frm /\ s.fs = IF flags = {} THEN h.fs ELSE 3
  BY <1>4, <1>5, FpHelpers
<1>7. s.fs = 3 \/ (s.fs = h.fs /\ Fpu!Changed(h, s) = {})
  BY <1>6 DEF Fpu!Changed
<1>8. Fpu!Completes(s, flags)
  BY <1>1, <1>3, <1>5
<1> QED BY <1>1, <1>6, <1>7, <1>8, FpCompletes

\* fmin and fmax, which set NV twice.
LEMMA FpMinMax ==
    ASSUME FpInv, NEW f \in {Fpu!Single, Fpu!Double}, NEW rd \in FRegs,
           NEW v \in Fpu!Values(f), NEW nv \in SUBSET Fpu!Flags,
           Fpu!Completes(Fpu!fp_inst_end(Fpu!Write(
               Fpu!Raise([hart EXCEPT !.fflags = @ \cup nv], nv), f, rd, v)), nv)
    PROVE  FpInv' /\ AccrueStep /\ ViewStep
<1>1. PICK h : h = hart
  OBVIOUS
<1>2. FpMembers(h) /\ h.sf = {}
  BY <1>1 DEF FpInv
<1>3. PICK g : g = [h EXCEPT !.fflags = @ \cup nv]
  OBVIOUS
<1>4. FpMembers(g) /\ g.fflags = h.fflags \cup nv /\ g.sf = {}
  <2>1. h.fflags \cup nv \in SUBSET Fpu!Flags
    BY <1>2 DEF FpMembers
  <2> QED BY <1>2, <1>3, <2>1 DEF FpMembers
<1>5. PICK u : u = Fpu!Raise(g, nv)
  OBVIOUS
<1>6. FpMembers(u) /\ u.fflags = h.fflags \cup nv /\ u.sf = nv
  BY <1>4, <1>5, FpRaises
<1>7. PICK w : w = Fpu!Write(u, f, rd, v)
  OBVIOUS
<1>8. FpMembers(w) /\ w.fflags = h.fflags \cup nv /\ w.sf = nv
  BY <1>6, <1>7, FpHelpers
<1>9. PICK s : s = Fpu!fp_inst_end(w)
  OBVIOUS
<1>10. FpMembers(s) /\ s.fs = 3 /\ s.fflags = h.fflags \cup nv /\ s.sf = {}
  BY <1>8, <1>9, FpHelpers
<1>11. Fpu!Completes(s, nv)
  BY <1>1, <1>3, <1>5, <1>7, <1>9
<1> QED BY <1>1, <1>10, <1>11, FpCompletes
\* c_fld and c_fldsp, which leave FS as it is.
LEMMA FpCompressed ==
    ASSUME FpInv, NEW rd \in FRegs, NEW w \in FpWord,
           Fpu!Ends("fp", Fpu!Write(hart, Fpu!Double, rd, w), {}, 0),
           byCompressed' = byCompressed
               \cup Fpu!Changed(hart, Fpu!Write(hart, Fpu!Double, rd, w))
    PROVE  FpInv' /\ AccrueStep /\ ViewStep
<1>1. PICK h : h = hart
  OBVIOUS
<1>2. FpMembers(h) /\ h.sf = {}
  BY <1>1 DEF FpInv
<1>3. PICK s : s = Fpu!Write(h, Fpu!Double, rd, w)
  OBVIOUS
<1>4. w \in Fpu!Values(Fpu!Double)
  BY DEF FpWord
<1>5. FpMembers(s) /\ s.fs = h.fs /\ s.fflags = h.fflags /\ s.frm = h.frm /\ s.sf = {}
  BY <1>2, <1>3, <1>4, FpHelpers
<1>6. PICK c : c = Fpu!Changed(h, s)
  OBVIOUS
<1>7. c \subseteq FRegs
  BY <1>5, <1>6 DEF Fpu!Changed
<1>8. /\ hart' = s /\ unsaved' = unsaved \cup c /\ byCompressed' = byCompressed \cup c
      /\ fpOut' = [op |-> "fp", raised |-> {}, v |-> 0]
  BY <1>1, <1>3, <1>6 DEF Fpu!Ends
<1>9. Fpu!CleanMeansSaved'
  BY <1>1, <1>5, <1>8 DEF FpInv, Fpu!CleanMeansSaved
<1>10. FpInv'
  BY <1>5, <1>7, <1>8, <1>9 DEF FpInv, Fpu!Parts
<1>11. AccrueStep /\ ViewStep
  BY <1>1, <1>5, <1>8 DEF AccrueStep, ViewStep
<1> QED BY <1>10, <1>11

\* The bits of fflags.
LEMMA FpFlagBits ==
    ASSUME NEW x \in 0 .. 31
    PROVE  Fpu!FlagBits(Fpu!FlagSet(x)) = x
<1>1. /\ Fpu!FlagShift["NX"] = 0 /\ Fpu!FlagShift["UF"] = 1 /\ Fpu!FlagShift["OF"] = 2
      /\ Fpu!FlagShift["DZ"] = 3 /\ Fpu!FlagShift["NV"] = 4
  BY DEF Fpu!FlagShift
<1>2. 2^0 = 1 /\ 2^1 = 2 /\ 2^2 = 4 /\ 2^3 = 8 /\ 2^4 = 16
  OBVIOUS
<1>3. /\ 2^Fpu!FlagShift["NX"] = 1 /\ 2^Fpu!FlagShift["UF"] = 2 /\ 2^Fpu!FlagShift["OF"] = 4
      /\ 2^Fpu!FlagShift["DZ"] = 8 /\ 2^Fpu!FlagShift["NV"] = 16
  BY <1>1, <1>2
<1> DEFINE S == Fpu!FlagSet(x)
<1>4. /\ "NX" \in S <=> (x \div 1) % 2 = 1
      /\ "UF" \in S <=> (x \div 2) % 2 = 1
      /\ "OF" \in S <=> (x \div 4) % 2 = 1
      /\ "DZ" \in S <=> (x \div 8) % 2 = 1
      /\ "NV" \in S <=> (x \div 16) % 2 = 1
  BY <1>3 DEF Fpu!FlagSet, Fpu!Flags
<1>5. Fpu!FlagBits(S) = (IF "NX" \in S THEN 1 ELSE 0) + (IF "UF" \in S THEN 2 ELSE 0)
                        + (IF "OF" \in S THEN 4 ELSE 0) + (IF "DZ" \in S THEN 8 ELSE 0)
                        + (IF "NV" \in S THEN 16 ELSE 0)
  BY <1>3 DEF Fpu!FlagBits
<1> HIDE DEF S
<1>6. (IF "NX" \in S THEN 1 ELSE 0) + (IF "UF" \in S THEN 2 ELSE 0)
        + (IF "OF" \in S THEN 4 ELSE 0) + (IF "DZ" \in S THEN 8 ELSE 0)
        + (IF "NV" \in S THEN 16 ELSE 0) = x
  BY <1>4
<1> QED BY <1>5, <1>6 DEF S

\* Writes of fflags, frm and fcsr.
LEMMA FpCsrWrites ==
    ASSUME FpInv, NEW c \in {"fflags", "frm", "fcsr"}, NEW v \in Nat,
           Fpu!Ends(c, Fpu!fp_set_dirty(Fpu!CsrWritten(hart, c, v)), {}, v),
           byCompressed' = byCompressed
    PROVE  FpInv' /\ AccrueStep /\ ViewStep
<1>1. PICK h : h = hart
  OBVIOUS
<1>2. FpMembers(h) /\ h.sf = {}
  BY <1>1 DEF FpInv
<1>3. ASSUME NEW t, FpMembers(t), NEW x \in Nat, NEW r, r = Fpu!WriteFflags(t, x)
      PROVE  FpMembers(r) /\ r.fflags = Fpu!FlagSet(x) /\ r.frm = t.frm /\ r.sf = t.sf
  <2>1. Fpu!FlagSet(x) \in SUBSET Fpu!Flags
    BY DEF Fpu!FlagSet
  <2> QED BY <1>3, <2>1 DEF Fpu!WriteFflags, FpMembers
<1>4. ASSUME NEW t, FpMembers(t), NEW x \in Nat, NEW r, r = Fpu!WriteFrm(t, x)
      PROVE  FpMembers(r) /\ r.frm = x % 8 /\ r.fflags = t.fflags /\ r.sf = t.sf
  <2>1. x % 8 \in 0 .. 7
    OBVIOUS
  <2> QED BY <1>4, <2>1 DEF Fpu!WriteFrm, FpMembers
<1>5. PICK w : w = Fpu!CsrWritten(h, c, v)
  OBVIOUS
<1>6. /\ FpMembers(w) /\ w.sf = {}
      /\ c = "fcsr" => w.fflags = Fpu!FlagSet(v % 32) /\ w.frm = (v \div 32) % 8
  <2>1. CASE c = "fflags"
    <3>1. w = Fpu!WriteFflags(h, v)
      BY <1>5, <2>1 DEF Fpu!CsrWritten
    <3> QED BY <1>2, <1>3, <2>1, <3>1
  <2>2. CASE c = "frm"
    <3>1. w = Fpu!WriteFrm(h, v)
      BY <1>5, <2>2 DEF Fpu!CsrWritten
    <3> QED BY <1>2, <1>4, <2>2, <3>1
  <2>3. CASE c = "fcsr"
    <3>1. PICK y : y = Fpu!WriteFflags(h, v % 32)
      OBVIOUS
    <3>2. PICK a \in Nat : a = (v \div 32) % 8
      OBVIOUS
    <3>3. PICK b \in Nat : b = v % 32
      OBVIOUS
    <3>4. w = Fpu!WriteFrm(y, a)
      BY <1>5, <2>3, <3>1, <3>2 DEF Fpu!CsrWritten, Fpu!WriteFcsr
    <3>5. FpMembers(y) /\ y.fflags = Fpu!FlagSet(b) /\ y.sf = {}
      BY <1>2, <1>3, <3>1, <3>3
    <3>6. FpMembers(w) /\ w.frm = a % 8 /\ w.fflags = y.fflags /\ w.sf = {}
      <4>1. FpMembers(w) /\ w.frm = a % 8 /\ w.fflags = y.fflags /\ w.sf = y.sf
        BY ONLY <1>4, <3>4, <3>5, a \in Nat, Zenon
      <4> QED BY <3>5, <4>1, Zenon
    <3>7. a % 8 = a
      BY <3>2
    <3> QED BY <3>2, <3>3, <3>5, <3>6, <3>7
  <2> QED BY <2>1, <2>2, <2>3
<1>7. PICK s : s = Fpu!fp_set_dirty(w)
  OBVIOUS
<1>8. FpMembers(s) /\ s.fs = 3 /\ s.fflags = w.fflags /\ s.frm = w.frm /\ s.sf = {}
  BY <1>6, <1>7, FpHelpers
<1>9. Fpu!Ends(c, s, {}, v)
  BY <1>1, <1>5, <1>7
<1>10. FpInv'
  BY <1>8, <1>9, FpEnds
<1>11. hart' = s /\ fpOut' = [op |-> c, raised |-> {}, v |-> v]
  BY <1>9 DEF Fpu!Ends
<1>12. AccrueStep
  BY <1>11 DEF AccrueStep, Fpu!Csrs
<1>13. ViewStep
  <2> SUFFICES ASSUME c = "fcsr"
               PROVE  /\ Fpu!CsrRead(s, "fcsr") = v % 256
                      /\ Fpu!CsrRead(s, "fflags") = v % 32
                      /\ Fpu!CsrRead(s, "frm") = (v \div 32) % 8
    BY <1>11 DEF ViewStep
  <2>1. v % 32 \in 0 .. 31
    OBVIOUS
  <2>2. Fpu!FlagBits(s.fflags) = v % 32 /\ s.frm = (v \div 32) % 8
    BY <1>6, <1>8, <2>1, FpFlagBits
  <2>3. /\ Fpu!CsrRead(s, "fcsr") = Fpu!FlagBits(s.fflags) + (s.frm * 32)
        /\ Fpu!CsrRead(s, "fflags") = Fpu!FlagBits(s.fflags) /\ Fpu!CsrRead(s, "frm") = s.frm
    BY DEF Fpu!CsrRead
  <2>4. (v % 32) + (((v \div 32) % 8) * 32) = v % 256
    OBVIOUS
  <2> QED BY <2>2, <2>3, <2>4
<1> QED BY <1>10, <1>12, <1>13
\* The instructions by their kind.
FpGood == FpInv' /\ AccrueStep /\ ViewStep

LEMMA FpKinds ==
    ASSUME FpInv, NEW f \in {Fpu!Single, Fpu!Double}
    PROVE  /\ Fpu!Load(f) => FpGood
           /\ Fpu!OnlyReads => FpGood
           /\ Fpu!Rounded(f) => FpGood
           /\ Fpu!ToInt => FpGood
           /\ Fpu!SignInjection(f) => FpGood
           /\ Fpu!MinMax(f) => FpGood
           /\ Fpu!FromX(f) => FpGood
           /\ Fpu!Compare(f) => FpGood
<1>1. ASSUME Fpu!FpOff \/ (Fpu!Prepared /\ Fpu!Traps) \/ Fpu!Completes(hart, {}) PROVE FpGood
  BY <1>1, FpOffTraps, FpTraps DEF FpGood
<1>2. ASSUME NEW r \in FRegs PROVE Fpu!Operand(f, r) \in Fpu!Values(f)
  <2>1. hart.F[r] \in FpWord
    BY DEF FpInv, FpMembers
  <2> QED BY <2>1, FpBoxes DEF Fpu!Operand
<1>3. RaisedSets \subseteq SUBSET Fpu!Flags /\ FpWords \subseteq FpWord
  BY FpPowers
<1>4. ASSUME NEW rd \in FRegs, NEW v \in Fpu!Values(f),
             Fpu!Completes(Fpu!fp_set_dirty(Fpu!Write(hart, f, rd, v)), {})
      PROVE  FpGood
  BY <1>4, FpWrites DEF FpGood
<1>5. ASSUME Fpu!Load(f) PROVE FpGood
  <2>1. CASE Fpu!FpOff \/ (Fpu!Prepared /\ Fpu!Traps)
    BY <1>1, <2>1
  <2>2. ASSUME NEW rd \in FRegs, NEW w \in FpWords,
               Fpu!Completes(Fpu!fp_set_dirty(Fpu!Write(hart, f, rd, Fpu!LowFor(f, w))), {})
        PROVE  FpGood
    <3>1. Fpu!LowFor(f, w) \in Fpu!Values(f)
      BY <1>3, FpBoxes
    <3> QED BY <1>4, <2>2, <3>1
  <2> QED BY <1>5, <2>1, <2>2 DEF Fpu!Load
<1>6. ASSUME Fpu!OnlyReads PROVE FpGood
  BY <1>1, <1>6 DEF Fpu!OnlyReads
<1>7. ASSUME Fpu!Rounded(f) PROVE FpGood
  <2>1. CASE Fpu!FpOff \/ (Fpu!Prepared /\ Fpu!Traps)
    BY <1>1, <2>1
  <2>2. ASSUME NEW rd \in FRegs, NEW v \in Results, NEW flags \in RaisedSets,
               Fpu!Completes(Fpu!fp_inst_end(Fpu!Raise(Fpu!Write(hart, f, rd, v), flags)), flags)
        PROVE  FpGood
    <3>1. v \in Fpu!Values(f) /\ flags \in SUBSET Fpu!Flags
      BY <1>3, FpBoxes
    <3> QED BY <2>2, <3>1, FpComputes DEF FpGood
  <2> QED BY <1>7, <2>1, <2>2 DEF Fpu!Rounded
<1>8. ASSUME NEW flags \in SUBSET Fpu!Flags,
             Fpu!Completes(Fpu!fp_update_exception_flags(Fpu!Raise(hart, flags)), flags)
      PROVE  FpGood
  BY <1>8, FpFlags DEF FpGood
<1>9. ASSUME Fpu!ToInt PROVE FpGood
  <2>1. CASE Fpu!FpOff \/ (Fpu!Prepared /\ Fpu!Traps)
    BY <1>1, <2>1
  <2>2. ASSUME NEW flags \in RaisedSets,
               Fpu!Completes(Fpu!fp_update_exception_flags(Fpu!Raise(hart, flags)), flags)
        PROVE  FpGood
    BY <1>3, <1>8, <2>2
  <2> QED BY <1>9, <2>1, <2>2 DEF Fpu!ToInt
<1>10. ASSUME Fpu!SignInjection(f) PROVE FpGood
  <2>1. CASE Fpu!FpOff
    BY <1>1, <2>1
  <2>2. CASE ~Fpu!FpOff
    <3>1. PICK rd \in FRegs, rs1 \in FRegs, rs2 \in FRegs :
            \E r \in {Fpu!fsgnj(f, Fpu!Operand(f, rs1), Fpu!Operand(f, rs2)),
                      Fpu!fsgnjn(f, Fpu!Operand(f, rs1), Fpu!Operand(f, rs2)),
                      Fpu!fsgnjx(f, Fpu!Operand(f, rs1), Fpu!Operand(f, rs2))} :
               Fpu!Completes(Fpu!fp_set_dirty(Fpu!Write(hart, f, rd, r)), {})
      BY <1>10, <2>2 DEF Fpu!SignInjection
    <3>2. PICK u \in Fpu!Values(f) : u = Fpu!Operand(f, rs1)
      BY <1>2
    <3>3. PICK v \in Fpu!Values(f) : v = Fpu!Operand(f, rs2)
      BY <1>2
    <3>4. PICK r \in {Fpu!fsgnj(f, u, v), Fpu!fsgnjn(f, u, v), Fpu!fsgnjx(f, u, v)} :
               Fpu!Completes(Fpu!fp_set_dirty(Fpu!Write(hart, f, rd, r)), {})
      BY <3>1, <3>2, <3>3
    <3>5. r \in Fpu!Values(f)
      BY FpClosed
    <3> QED BY <1>4, <3>4, <3>5
  <2> QED BY <2>1, <2>2
<1>11. ASSUME Fpu!MinMax(f) PROVE FpGood
  <2>1. CASE Fpu!FpOff
    BY <1>1, <2>1
  <2>2. CASE ~Fpu!FpOff
    <3> DEFINE nv(x, y) == IF Fpu!isSignalingNaN(f, x) \/ Fpu!isSignalingNaN(f, y)
                           THEN {"NV"} ELSE {}
    <3>1. PICK rd \in FRegs, rs1 \in FRegs, rs2 \in FRegs :
            \E r \in {Fpu!fmin(f, Fpu!Operand(f, rs1), Fpu!Operand(f, rs2)),
                      Fpu!fmax(f, Fpu!Operand(f, rs1), Fpu!Operand(f, rs2))} :
               Fpu!Completes(Fpu!fp_inst_end(Fpu!Write(
                 Fpu!Raise([hart EXCEPT !.fflags = @ \cup
                              nv(Fpu!Operand(f, rs1), Fpu!Operand(f, rs2))],
                           nv(Fpu!Operand(f, rs1), Fpu!Operand(f, rs2))), f, rd, r)),
                 nv(Fpu!Operand(f, rs1), Fpu!Operand(f, rs2)))
      BY <1>11, <2>2, Zenon DEF Fpu!MinMax
    <3>2. PICK u \in Fpu!Values(f) : u = Fpu!Operand(f, rs1)
      BY <1>2
    <3>3. PICK v \in Fpu!Values(f) : v = Fpu!Operand(f, rs2)
      BY <1>2
    <3>4. PICK n \in SUBSET Fpu!Flags : n = nv(u, v)
      BY DEF Fpu!Flags
    <3> HIDE DEF nv
    <3>5. PICK r \in {Fpu!fmin(f, u, v), Fpu!fmax(f, u, v)} :
               Fpu!Completes(Fpu!fp_inst_end(Fpu!Write(
                 Fpu!Raise([hart EXCEPT !.fflags = @ \cup n], n), f, rd, r)), n)
      BY <3>1, <3>2, <3>3, <3>4, Zenon
    <3>6. r \in Fpu!Values(f)
      BY FpClosed
    <3> QED BY <3>5, <3>6, FpMinMax DEF FpGood
  <2> QED BY <2>1, <2>2
<1>12. ASSUME Fpu!FromX(f) PROVE FpGood
  <2>1. CASE Fpu!FpOff
    BY <1>1, <2>1
  <2>2. ASSUME NEW rd \in FRegs, NEW w \in FpWords,
               Fpu!Completes(Fpu!fp_set_dirty(Fpu!Write(hart, f, rd, Fpu!LowFor(f, w))), {})
        PROVE  FpGood
    <3>1. Fpu!LowFor(f, w) \in Fpu!Values(f)
      BY <1>3, FpBoxes
    <3> QED BY <1>4, <2>2, <3>1
  <2> QED BY <1>12, <2>1, <2>2 DEF Fpu!FromX
<1>13. ASSUME Fpu!Compare(f) PROVE FpGood
  <2>1. CASE Fpu!FpOff
    BY <1>1, <2>1
  <2>2. CASE ~Fpu!FpOff
    <3>1. PICK flags \in {{}, {"NV"}} :
            Fpu!Completes(Fpu!fp_update_exception_flags(Fpu!Raise(hart, flags)), flags)
      BY <1>13, <2>2 DEF Fpu!Compare
    <3>2. flags \in SUBSET Fpu!Flags
      BY DEF Fpu!Flags
    <3> QED BY <1>8, <3>1, <3>2
  <2> QED BY <2>1, <2>2
<1> QED BY <1>5, <1>6, <1>7, <1>9, <1>10, <1>11, <1>12, <1>13

LEMMA FpStep ==
    ASSUME FpInv, Fpu!Next
    PROVE  FpGood
<1>1. Fpu!Single \in {Fpu!Single, Fpu!Double} /\ Fpu!Double \in {Fpu!Single, Fpu!Double}
  OBVIOUS
<1>2. CASE Fpu!InsnF
  BY ONLY <1>1, <1>2, FpInv, FpKinds
     DEF Fpu!InsnF, Fpu!flw, Fpu!fsw, Fpu!ArithS, Fpu!SignS, Fpu!MinMaxS, Fpu!ToIntS,
         Fpu!FromIntS, Fpu!fmv_x_w, Fpu!fmv_w_x, Fpu!fclass_s, Fpu!CompareS, Fpu!MulAddS
<1>3. CASE Fpu!InsnD
  BY ONLY <1>1, <1>3, FpInv, FpKinds
     DEF Fpu!InsnD, Fpu!fld, Fpu!fsd, Fpu!ArithD, Fpu!SignD, Fpu!MinMaxD, Fpu!ToIntD,
         Fpu!FromIntD, Fpu!fcvt_s_d, Fpu!fcvt_d_s, Fpu!fmv_x_d, Fpu!fmv_d_x,
         Fpu!fclass_d, Fpu!CompareD, Fpu!MulAddD
<1>4. CASE Fpu!c_fsd \/ Fpu!c_fsdsp
  BY ONLY <1>1, <1>4, FpInv, FpKinds DEF Fpu!c_fsd, Fpu!c_fsdsp
<1>5. CASE Fpu!c_fld \/ Fpu!c_fldsp
  <2>1. CASE Fpu!FpOff \/ (Fpu!Prepared /\ Fpu!Traps)
    BY <2>1, FpOffTraps DEF FpGood
  <2>2. ASSUME NEW rd \in FRegs, NEW w \in FpWords,
               Fpu!Ends("fp", Fpu!Write(hart, Fpu!Double, rd, w), {}, 0),
               byCompressed' = byCompressed
                   \cup Fpu!Changed(hart, Fpu!Write(hart, Fpu!Double, rd, w))
        PROVE  FpGood
    <3>1. w \in FpWord
      BY FpPowers
    <3> QED BY <2>2, <3>1, FpCompressed DEF FpGood
  <2> QED BY <1>5, <2>1, <2>2 DEF Fpu!c_fld, Fpu!c_fldsp, Fpu!CompressedLoad
<1>6. CASE Fpu!FFLAGS \/ Fpu!FRM \/ Fpu!FCSR
  <2>1. PICK c \in {"fflags", "frm", "fcsr"} : Fpu!CsrAccess(c)
    BY <1>6 DEF Fpu!FFLAGS, Fpu!FRM, Fpu!FCSR
  <2>2. CASE Fpu!FpOff \/ Fpu!Completes(hart, {})
    BY <2>2, FpOffTraps, FpTraps DEF FpGood
  <2>3. ASSUME NEW v \in FcsrWords,
               Fpu!Ends(c, Fpu!fp_set_dirty(Fpu!CsrWritten(hart, c, v)), {}, v),
               byCompressed' = byCompressed
        PROVE  FpGood
    <3>1. v \in Nat
      BY FpPowers
    <3> QED BY <2>3, <3>1, FpCsrWrites DEF FpGood
  <2> QED BY <2>1, <2>2, <2>3 DEF Fpu!CsrAccess
<1>7. ASSUME fpOut' = Fpu!Idle PROVE AccrueStep /\ ViewStep
  BY <1>7 DEF AccrueStep, ViewStep, Fpu!Idle
<1>8. CASE Fpu!Save
  <2>1. /\ hart' = [hart EXCEPT !.fs = 2] /\ unsaved' = {} /\ byCompressed' = {}
        /\ fpOut' = Fpu!Idle
    BY <1>8 DEF Fpu!Save, Fpu!Clean
  <2>2. FpMembers(hart') /\ hart'.sf = {} /\ hart'.fs = 2
    BY <2>1 DEF FpInv, FpMembers
  <2>3. FpInv'
    BY <2>1, <2>2 DEF FpInv, Fpu!CleanMeansSaved
  <2> QED BY <1>7, <2>1, <2>3 DEF FpGood
<1>9. CASE Fpu!Switch
  <2>1. PICK x \in {0, 2} : hart' = [hart EXCEPT !.fs = x]
    BY <1>9 DEF Fpu!Switch, Fpu!Clean, Fpu!Off
  <2>2. /\ hart.fs # 3 /\ fpOut' = Fpu!Idle
        /\ unsaved' = unsaved /\ byCompressed' = byCompressed
    BY <1>9 DEF Fpu!Switch, Fpu!Clean, Fpu!Off
  <2>3. FpMembers(hart') /\ hart'.sf = {}
    BY <2>1 DEF FpInv, FpMembers
  <2>4. unsaved \subseteq byCompressed
    BY <2>2 DEF FpInv, Fpu!CleanMeansSaved, Fpu!Dirty
  <2>5. FpInv'
    BY <2>2, <2>3, <2>4 DEF FpInv, Fpu!CleanMeansSaved
  <2> QED BY <1>7, <2>2, <2>5 DEF FpGood
<1>10. CASE Fpu!Retire
  <2>1. fpOut' = Fpu!Idle /\ UNCHANGED <<hart, unsaved, byCompressed>>
    BY <1>10 DEF Fpu!Retire
  <2>2. FpInv'
    BY <2>1 DEF FpInv, Fpu!CleanMeansSaved
  <2> QED BY <1>7, <2>1, <2>2 DEF FpGood
<1> QED BY <1>2, <1>3, <1>4, <1>5, <1>6, <1>8, <1>9, <1>10 DEF Fpu!Next

\* For every pair of formats, every set of registers and whatever SoftFloat
\* returns and raises: unless FS is dirty, all of the floating-point state is what
\* the system last saved, but for the registers c_fld and c_fldsp loaded;
\* softfloat_exceptionFlags is empty whenever fp_inst_prep looks at it; flags only
\* accrue, and exactly those an instruction raised; and fflags, frm and fcsr show
\* the same bits.
THEOREM FpHolds == Spec => CleanMeansSaved
<1>1. Init => FpInv
  <2> SUFFICES ASSUME Init PROVE FpInv
    OBVIOUS
  <2>1. Fpu!Init
    BY DEF Init
  <2>2. /\ hart = [fs |-> 0, fflags |-> {}, frm |-> 0, F |-> [r \in FRegs |-> 0], sf |-> {}]
        /\ unsaved = {} /\ byCompressed = {}
    BY <2>1 DEF Fpu!Init, Fpu!Off
  <2>3. 0 \in FpWord
    <3>1. Fpu!DEFAULT_NAN(Fpu!Double) \in FpWord
      BY FpPowers DEF FpWord
    <3>2. \E C \in Nat : FpWord = 0 .. C - 1
      BY FpPowers
    <3> QED BY <3>1, <3>2
  <2>4. FpMembers(hart) /\ hart.sf = {}
    BY <2>2, <2>3 DEF FpMembers
  <2> QED BY <2>2, <2>4 DEF FpInv, Fpu!CleanMeansSaved
<1>2. FpInv /\ [Next]_vars => FpInv' /\ [AccrueStep]_(Fpu!vars) /\ [ViewStep]_(Fpu!vars)
  <2> SUFFICES ASSUME FpInv, [Next]_vars
               PROVE  FpInv' /\ [AccrueStep]_(Fpu!vars) /\ [ViewStep]_(Fpu!vars)
    OBVIOUS
  <2>1. Fpu!Next \/ UNCHANGED fpVars
    BY DEF Next, vars
  <2>2. CASE UNCHANGED fpVars
    BY <2>2 DEF FpInv, Fpu!vars, fpVars, Fpu!CleanMeansSaved
  <2>3. CASE Fpu!Next
    BY <2>3, FpStep DEF FpGood
  <2> QED BY <2>1, <2>2, <2>3
<1>3. FpInv => (part = "fp" => Fpu!TypeOK /\ Fpu!CleanMeansSaved /\ Fpu!FlagsAreDrained)
  BY DEF FpInv, FpMembers, FpWord, Fpu!TypeOK, Fpu!FlagsAreDrained
<1>4. Spec => [](part = "fp" => Fpu!TypeOK /\ Fpu!CleanMeansSaved /\ Fpu!FlagsAreDrained)
  BY <1>1, <1>2, <1>3, PTL DEF Spec
<1>5. Spec => Fpu!FlagsAccrue
  <2>1. Spec => [][AccrueStep]_(Fpu!vars)
    BY <1>1, <1>2, PTL DEF Spec
  <2> QED BY <2>1 DEF Fpu!FlagsAccrue, AccrueStep
<1>6. Spec => Fpu!ViewsAgree
  <2>1. Spec => [][ViewStep]_(Fpu!vars)
    BY <1>1, <1>2, PTL DEF Spec
  <2> QED BY <2>1 DEF Fpu!ViewsAgree, ViewStep
<1> QED BY <1>4, <1>5, <1>6 DEF CleanMeansSaved
-----------------------------------------------------------------------------
(* The loader.                                                             *)

Top == 2^AddrWidth
LoadType ==
    /\ file \in {"good", "bad", "none"} /\ phdr \in [Load!Segs -> Load!Phdr]
    /\ dram \in [0 .. Size - 1 -> Load!Byte] /\ next \in 1 .. NumSegs + 1
    /\ phase \in {"new", "loading", "running", "failed", "refused"}
    /\ raw \in SUBSET (0 .. Size - 1)

\* A segment lies in the DRAM.
Loadable(i) ==
    phdr[i].paddr >= Base /\ phdr[i].paddr + Load!Extent(i) <= Base + Size

LoadProgress ==
    /\ phase \in {"new", "refused"} => next = 1
    /\ phase \in {"loading", "running"} =>
          file = "good" /\ \A i \in 1 .. next - 1 : phdr[i].load => Loadable(i)
    /\ phase = "running" => next = NumSegs + 1
    /\ phase = "failed" => file # "good" \/ \E i \in Load!Segs : phdr[i].load /\ ~Loadable(i)

LoadInv == LoadType /\ LoadProgress /\ Load!ImageAsMeant

LEMMA LoadConstants ==
    /\ Base \in Nat /\ Size \in Nat /\ Top \in Nat /\ Base + Size <= Top
    /\ SegmentSizes \subseteq 0 .. Top - 1 /\ NumSegs \in Nat
BY CpuThreadAssumptions DEF Load!LoaderAssumption, Top

LEMMA SegmentFacts ==
    ASSUME LoadType, NEW i \in Load!Segs
    PROVE  /\ phdr[i].paddr \in Nat /\ phdr[i].paddr < Top
           /\ phdr[i].filesz \in Nat /\ phdr[i].filesz <= Size /\ phdr[i].memsz \in Nat
           /\ Load!Extent(i) \in Nat /\ phdr[i].filesz <= Load!Extent(i)
           /\ phdr[i].memsz <= Load!Extent(i)
           /\ Load!Extent(i) \in {phdr[i].memsz, phdr[i].filesz}
           /\ Load!Fits(i) <=> Loadable(i)
<1>1. phdr[i] \in Load!Phdr
  BY DEF LoadType
<1>2. phdr[i].paddr \in Load!Addr /\ phdr[i].filesz \in SegmentSizes
      /\ phdr[i].filesz <= Size /\ phdr[i].memsz \in SegmentSizes
  BY <1>1 DEF Load!Phdr
<1>3. PICK p \in Nat : p = phdr[i].paddr /\ p < Top
  BY <1>2, LoadConstants DEF Load!Addr, Top
<1>s. \A x \in SegmentSizes : x \in Nat
  <2>1. \A x \in SegmentSizes : x \in 0 .. Top - 1
    BY LoadConstants, Zenon
  <2>2. \A x \in 0 .. Top - 1 : x \in Nat
    BY LoadConstants
  <2> QED BY ONLY <2>1, <2>2, Zenon
<1>t. phdr[i].filesz \in Nat /\ phdr[i].memsz \in Nat
  BY ONLY <1>2, <1>s, Zenon
<1>4. PICK f \in Nat : f = phdr[i].filesz
  BY <1>t, Zenon
<1>5. PICK m \in Nat : m = phdr[i].memsz
  BY <1>t, Zenon
<1>6. PICK e : e = Load!Extent(i)
  OBVIOUS
<1>7. e \in {m, f} /\ \A y \in {m, f} : e >= y
  <2>1. e = CHOOSE x \in {m, f} : \A y \in {m, f} : x >= y
    BY <1>4, <1>5, <1>6 DEF Load!Extent, Load!Max
  <2>2. \E x \in {m, f} : \A y \in {m, f} : x >= y
    OBVIOUS
  <2> QED BY <2>1, <2>2
<1>8. e \in Nat /\ f <= e /\ m <= e
  BY <1>7
<1>9. \A k \in Nat : Load!IsValidAddr(p, k) <=> (p >= Base /\ p + k <= Base + Size)
  <2> SUFFICES ASSUME NEW k \in Nat
               PROVE  Load!IsValidAddr(p, k) <=> (p >= Base /\ p + k <= Base + Size)
    OBVIOUS
  <2>1. Base \in Nat /\ Size \in Nat
    BY LoadConstants
  <2>2. Load!IsValidAddr(p, k) <=> p >= Base /\ k <= Size /\ p - Base <= Size - k
    BY ONLY DEF Load!IsValidAddr
  <2>3. PICK x \in Nat : x = Base
    BY <2>1
  <2>4. PICK y \in Nat : y = Size
    BY <2>1
  <2>5. (p >= x /\ k <= y /\ p - x <= y - k) <=> (p >= x /\ p + k <= x + y)
    BY ONLY p \in Nat, k \in Nat, x \in Nat, y \in Nat
  <2> QED BY <2>2, <2>3, <2>4, <2>5
<1>10. /\ Load!IsValidAddr(p, m) <=> (p >= Base /\ p + m <= Base + Size)
       /\ Load!IsValidAddr(p, f) <=> (p >= Base /\ p + f <= Base + Size)
  BY <1>9
<1>11. Load!Fits(i) <=> Loadable(i)
  <2>1. Load!Fits(i) <=> Load!IsValidAddr(p, m) /\ (f > 0 => Load!IsValidAddr(p, f))
    BY <1>3, <1>4, <1>5 DEF Load!Fits
  <2>2. Loadable(i) <=> p >= Base /\ p + e <= Base + Size
    BY <1>3, <1>6 DEF Loadable
  <2>3. p + e <= Base + Size <=> p + m <= Base + Size /\ p + f <= Base + Size
    BY <1>7, <1>8, LoadConstants
  <2>4. f = 0 /\ p + m <= Base + Size => p + f <= Base + Size
    BY LoadConstants
  <2> QED BY <1>10, <2>1, <2>2, <2>3, <2>4
<1> QED BY <1>2, <1>3, <1>4, <1>5, <1>6, <1>7, <1>8, <1>11

\* Which of the first n segments lie over an address.
Over(b, n) ==
    {i \in 1 .. n : phdr[i].load /\ b \in phdr[i].paddr .. phdr[i].paddr + Load!Extent(i) - 1}

\* What address b should hold after n + 1 segments, given what after n.
LEMMA MeantNext ==
    ASSUME LoadType, NEW n \in Nat, n < NumSegs, NEW b \in Nat
    PROVE  LET s == phdr[n + 1]
           IN  Load!Meant(b, n + 1) =
                 IF s.load /\ b \in s.paddr .. s.paddr + Load!Extent(n + 1) - 1
                 THEN IF b - s.paddr < s.filesz THEN <<"file", n + 1, b - s.paddr>>
                      ELSE Load!Zero
                 ELSE Load!Meant(b, n)
<1> DEFINE m == n + 1
           In == phdr[m].load /\ b \in phdr[m].paddr .. phdr[m].paddr + Load!Extent(m) - 1
           Val(s) == IF b - phdr[s].paddr < phdr[s].filesz
                     THEN <<"file", s, b - phdr[s].paddr>> ELSE Load!Zero
           Rest == IF b - Base \in raw THEN <<"raw", 0, 0>> ELSE Load!Zero
<1>1. m \in Nat /\ 1 .. m = (1 .. n) \cup {m}
  OBVIOUS
<1>2. /\ Load!Meant(b, m) = IF Over(b, m) # {} THEN Val(Load!Max(Over(b, m))) ELSE Rest
      /\ Load!Meant(b, n) = IF Over(b, n) # {} THEN Val(Load!Max(Over(b, n))) ELSE Rest
  BY DEF Load!Meant, Over
<1>3. Over(b, m) = Over(b, n) \cup (IF In THEN {m} ELSE {})
  <2> HIDE DEF m
  <2> QED BY <1>1 DEF Over
<1>4. CASE In
  <2>1. m \in Over(b, m) /\ \A y \in Over(b, m) : y \in Nat /\ m >= y
    BY <1>1, <1>3, <1>4 DEF Over
  <2>2. Load!Max(Over(b, m)) = m
    <3> DEFINE T == Over(b, m)
               x == CHOOSE z \in T : \A y \in T : z >= y
    <3>1. Load!Max(T) = x
      BY DEF Load!Max
    <3> HIDE DEF T, m
    <3>2. x \in T /\ \A y \in T : x >= y
      BY <2>1 DEF T
    <3> HIDE DEF x
    <3>3. x >= m /\ m >= x /\ x \in Nat /\ m \in Nat
      BY <2>1, <3>2 DEF T
    <3>4. x = m
      BY <3>3
    <3> QED BY <3>1, <3>4 DEF T
  <2>3. Load!Meant(b, m) = Val(m)
    <3> HIDE DEF Val, m
    <3> QED BY <1>2, <2>1, <2>2
  <2> QED BY <1>4, <2>3
<1>5. CASE ~In
  <2>1. Over(b, m) = Over(b, n)
    BY <1>3, <1>5
  <2>2. Load!Meant(b, m) = Load!Meant(b, n)
    <3> HIDE DEF Val, Rest, m
    <3> QED BY <1>2, <2>1
  <2> QED BY <1>5, <2>2
<1> QED BY <1>4, <1>5
\* Load!Placed at one offset, against what the headers mean for its address.
LEMMA PlacedIsMeant ==
    ASSUME LoadType, next \in Load!Segs, phdr[next].load, Loadable(next),
           Load!ImageAsMeant, NEW a \in 0 .. Size - 1
    PROVE  /\ Load!Placed(next)[a] = Load!Meant(Base + a, next)
           /\ Load!Placed(next)[a] \in Load!Byte
<1>1. PICK n \in Nat : next = n + 1 /\ n < NumSegs /\ n = next - 1
  BY LoadConstants DEF Load!Segs
<1>2. PICK p \in Nat : p = phdr[next].paddr
  BY SegmentFacts
<1>3. PICK f \in Nat : f = phdr[next].filesz /\ f <= Size
  BY SegmentFacts
<1>4. PICK m \in Nat : m = phdr[next].memsz
  BY SegmentFacts
<1>5. PICK e \in Nat : e = Load!Extent(next) /\ f <= e /\ m <= e /\ e \in {m, f}
  BY SegmentFacts, <1>3, <1>4
<1>6. PICK B \in Nat : B = Base
  BY LoadConstants
<1>7. PICK S \in Nat : S = Size
  BY LoadConstants
<1>8. PICK T \in Nat : T = Top /\ B + S <= T
  BY LoadConstants, <1>6, <1>7
<1>9. p >= B /\ p + e <= B + S
  BY <1>2, <1>5, <1>6, <1>7 DEF Loadable
<1>10. a \in Nat /\ a < S
  BY <1>7
<1>11. PICK b \in Nat : b = Base + a /\ b = B + a
  BY <1>6, <1>10
<1>12. dram[a] = Load!Meant(b, n) /\ dram[a] \in Load!Byte
  BY <1>1, <1>11 DEF Load!ImageAsMeant, LoadType
<1>13. Load!Meant(b, next) = IF b \in p .. p + e - 1
                             THEN IF b - p < f THEN <<"file", next, b - p>> ELSE Load!Zero
                             ELSE dram[a]
  BY ONLY MeantNext, LoadType, n \in Nat, b \in Nat, phdr[next].load,
          <1>1, <1>2, <1>3, <1>5, <1>12
<1>14. \A q \in Nat, k \in Nat : a \in Load!Offsets(q, k) <=> (b >= q /\ b < q + k)
  <2> SUFFICES ASSUME NEW q \in Nat, NEW k \in Nat
               PROVE  a \in Load!Offsets(q, k) <=> (b >= q /\ b < q + k)
    OBVIOUS
  <2>1. a \in Load!Offsets(q, k) <=> (a >= q - B /\ a < q - B + k)
    BY <1>6 DEF Load!Offsets
  <2> QED BY ONLY <2>1, <1>10, <1>11, q \in Nat, k \in Nat, B \in Nat
<1>15. m > f => (p + f) % 2^AddrWidth = p + f
  <2> SUFFICES ASSUME m > f PROVE (p + f) % T = p + f
    BY <1>8 DEF Top
  <2>1. p + f < T /\ p + f \in Nat
    BY ONLY m > f, <1>5, <1>8, <1>9, p \in Nat, f \in Nat, m \in Nat, e \in Nat, B \in Nat,
            S \in Nat, T \in Nat
  <2> QED BY ONLY <2>1, T \in Nat
<1>16. Load!Placed(next)[a] =
         IF a \in Load!Offsets(p, f) THEN <<"file", next, a - (p - B)>>
         ELSE IF m > f /\ a \in Load!Offsets((p + f) % 2^AddrWidth, m - f)
         THEN Load!Zero ELSE dram[a]
  BY <1>2, <1>3, <1>4, <1>6 DEF Load!Placed
<1>17. a - (p - B) = b - p
  BY ONLY <1>10, <1>11, p \in Nat, B \in Nat
<1>18. CASE a \in Load!Offsets(p, f)
  <2>1. b >= p /\ b < p + f
    BY <1>14, <1>18
  <2>2. b \in p .. p + e - 1 /\ b - p < f /\ b - p \in 0 .. S - 1
    BY ONLY <2>1, <1>3, <1>5, <1>7, b \in Nat, p \in Nat, e \in Nat, f \in Nat, S \in Nat
  <2>3. Load!Placed(next)[a] = <<"file", next, b - p>>
    BY ONLY <1>16, <1>17, <1>18
  <2>4. Load!Meant(b, next) = <<"file", next, b - p>>
    BY ONLY <1>13, <2>2
  <2>5. <<"file", next, b - p>> \in Load!Byte
    <3>1. b - p \in 0 .. Size - 1
      BY ONLY <2>2, <1>7
    <3>2. next \in Load!Segs
      OBVIOUS
    <3> QED BY ONLY <3>1, <3>2 DEF Load!Byte
  <2> QED BY ONLY <2>3, <2>4, <2>5, <1>11
<1>19. CASE a \notin Load!Offsets(p, f) /\ m > f /\ a \in Load!Offsets(p + f, m - f)
  <2>1. p + f \in Nat /\ m - f \in Nat
    BY <1>19
  <2>2. b >= p + f /\ b < p + f + (m - f)
    BY ONLY <2>1, <1>14, <1>19
  <2>3. b \in p .. p + e - 1 /\ ~(b - p < f)
    BY ONLY <2>2, <1>5, b \in Nat, p \in Nat, f \in Nat, m \in Nat, e \in Nat
  <2>4. Load!Placed(next)[a] = Load!Zero
    BY ONLY <1>15, <1>16, <1>19
  <2>5. Load!Meant(b, next) = Load!Zero
    BY ONLY <1>13, <2>3
  <2>6. Load!Zero \in Load!Byte
    BY ONLY DEF Load!Byte, Load!Zero
  <2> QED BY ONLY <2>4, <2>5, <2>6, <1>11
<1>20. CASE a \notin Load!Offsets(p, f) /\ ~(m > f /\ a \in Load!Offsets(p + f, m - f))
  <2>1. b \notin p .. p + e - 1
    <3> SUFFICES ASSUME b \in p .. p + e - 1 PROVE FALSE
      OBVIOUS
    <3>1. b >= p + f
      BY ONLY <1>14, <1>20, b \in p .. p + e - 1, b \in Nat, p \in Nat, f \in Nat, e \in Nat
    <3>2. m > f /\ e = m
      BY ONLY <3>1, <1>5, b \in p .. p + e - 1, b \in Nat, p \in Nat, f \in Nat, m \in Nat,
              e \in Nat
    <3>3. p + f \in Nat /\ m - f \in Nat
      BY <3>2
    <3>4. b < p + f + (m - f)
      BY ONLY <3>2, b \in p .. p + e - 1, b \in Nat, p \in Nat, f \in Nat, m \in Nat
    <3>5. a \in Load!Offsets(p + f, m - f)
      BY ONLY <1>14, <3>1, <3>3, <3>4
    <3> QED BY ONLY <1>20, <3>2, <3>5
  <2>2. Load!Placed(next)[a] = dram[a]
    BY ONLY <1>15, <1>16, <1>20
  <2>3. Load!Meant(b, next) = dram[a]
    BY ONLY <1>13, <2>1
  <2> QED BY ONLY <2>2, <2>3, <1>11, <1>12
<1> QED BY <1>18, <1>19, <1>20
LEMMA LoadStep == ASSUME LoadInv, Load!Next PROVE LoadInv'
<1> USE DEF LoadInv
<1>c. Base \in Nat /\ Size \in Nat /\ NumSegs \in Nat
  BY LoadConstants
<1>z. Load!Zero \in Load!Byte /\ <<"raw", 0, 0>> \in Load!Byte
  BY ONLY DEF Load!Byte, Load!Zero
<1>1. ASSUME NEW addr, NEW n, Load!LoadRaw(addr, n) PROVE LoadInv'
  <2>1. phase = "new" /\ next = 1 /\ raw = {} /\ next' = next /\ phdr' = phdr /\ file' = file
    BY <1>1 DEF Load!LoadRaw, LoadProgress
  <2>2. CASE phase' = "refused" /\ UNCHANGED <<dram, raw>>
    <3>1. LoadType'
      BY <2>1, <2>2 DEF LoadType
    <3>2. LoadProgress'
      BY <2>1, <2>2 DEF LoadProgress
    <3>3. Load!ImageAsMeant'
      BY <2>1, <2>2 DEF Load!ImageAsMeant, Load!Meant, Load!Extent
    <3> QED BY <3>1, <3>2, <3>3
  <2>3. ASSUME NEW R \in SUBSET (0 .. Size - 1), UNCHANGED phase, raw' = R,
               dram' = [a \in 0 .. Size - 1 |->
                          IF a \in R THEN <<"raw", 0, 0>> ELSE dram[a]]
        PROVE  LoadInv'
    <3>0. \A a \in 0 .. Size - 1 : dram'[a] = IF a \in R THEN <<"raw", 0, 0>> ELSE dram[a]
      BY <2>3
    <3>1. LoadType'
      <4>1. \A a \in 0 .. Size - 1 : dram[a] \in Load!Byte
        BY DEF LoadType
      <4>2. dram' \in [0 .. Size - 1 -> Load!Byte]
        BY ONLY <4>1, <2>3, <1>z
      <4> QED BY <2>1, <2>3, <4>2 DEF LoadType
    <3>2. LoadProgress'
      BY <2>1, <2>3 DEF LoadProgress
    <3>3. \A b : /\ Load!Meant(b, 0) = IF b - Base \in raw THEN <<"raw", 0, 0>> ELSE Load!Zero
                 /\ Load!Meant(b, 0)' = IF b - Base \in R THEN <<"raw", 0, 0>> ELSE Load!Zero
      BY <2>1, <2>3 DEF Load!Meant
    <3>4. Load!ImageAsMeant'
      <4> SUFFICES ASSUME NEW a \in 0 .. Size - 1
                   PROVE  dram'[a] = Load!Meant(Base + a, 0)'
        BY <2>1 DEF Load!ImageAsMeant
      <4>1. (Base + a) - Base = a
        BY <1>c
      <4>2. dram[a] = Load!Meant(Base + a, 0)
        BY <2>1 DEF Load!ImageAsMeant
      <4>3. dram[a] = Load!Zero
        BY <4>1, <4>2, <3>3, <2>1
      <4> QED BY <3>0, <3>3, <4>1, <4>3
    <3> QED BY <3>1, <3>2, <3>4
  <2>4. CASE /\ dram' = [a \in 0 .. Size - 1 |->
                           IF a \in Load!Offsets(addr, n) THEN <<"raw", 0, 0>> ELSE dram[a]]
             /\ raw' = Load!Offsets(addr, n) /\ UNCHANGED phase
    <3>1. Load!Offsets(addr, n) \in SUBSET (0 .. Size - 1)
      BY DEF Load!Offsets
    <3> QED BY <3>1, <2>3, <2>4
  <2> QED BY <1>1, <2>2, <2>4 DEF Load!LoadRaw
<1>2. CASE Load!OpenElf
  <2>1. /\ phase = "new" /\ next = 1 /\ UNCHANGED <<file, phdr, dram, next, raw>>
        /\ phase' = IF file = "good" THEN "loading" ELSE "failed"
    BY <1>2 DEF Load!OpenElf, Load!Throw, Load!ReadFile, Load!ValidHeader, LoadProgress
  <2>2. LoadType'
    BY <2>1 DEF LoadType
  <2>3. LoadProgress'
    BY <2>1 DEF LoadProgress
  <2>4. Load!ImageAsMeant'
    BY <2>1 DEF Load!ImageAsMeant, Load!Meant, Load!Extent
  <2> QED BY <2>2, <2>3, <2>4
<1>3. CASE Load!LoadSegment
  <2>1. /\ phase = "loading" /\ next \in Load!Segs /\ UNCHANGED <<file, phdr, raw>>
        /\ file = "good"
    BY <1>3 DEF Load!LoadSegment, LoadProgress
  <2>2. \A i \in Load!Segs : Load!Fits(i) <=> Loadable(i)
    BY SegmentFacts
  <2>3. \A i : Loadable(i)' <=> Loadable(i)
    BY <2>1 DEF Loadable, Load!Extent
  <2>4. \A b, n : Load!Meant(b, n)' = Load!Meant(b, n)
    BY <2>1 DEF Load!Meant, Load!Extent
  <2>5. CASE phdr[next].load /\ ~Load!Fits(next) /\ Load!Throw /\ UNCHANGED <<dram, next>>
    <3>1. LoadType'
      BY <2>1, <2>5 DEF LoadType, Load!Throw
    <3>2. LoadProgress'
      BY <2>1, <2>2, <2>3, <2>5 DEF LoadProgress, Load!Throw
    <3>3. Load!ImageAsMeant'
      BY <2>4, <2>5 DEF Load!ImageAsMeant
    <3> QED BY <3>1, <3>2, <3>3
  <2>6. CASE /\ phdr[next].load => Load!Fits(next)
             /\ dram' = IF phdr[next].load THEN Load!Placed(next) ELSE dram
             /\ next' = next + 1 /\ UNCHANGED phase
    <3>1. phdr[next].load => Loadable(next)
      BY <2>1, <2>2, <2>6
    <3>2. next \in Nat /\ next >= 1 /\ next <= NumSegs /\ next' - 1 = next
      BY <2>1, <2>6, <1>c DEF Load!Segs
    <3>3. \A a \in 0 .. Size - 1 :
            dram'[a] = Load!Meant(Base + a, next) /\ dram'[a] \in Load!Byte
      <4> TAKE a \in 0 .. Size - 1
      <4>1. CASE phdr[next].load
        BY <4>1, <2>1, <2>6, <3>1, PlacedIsMeant
      <4>2. CASE ~phdr[next].load
        <5>1. PICK n \in Nat : next = n + 1 /\ n < NumSegs /\ n = next - 1
          BY <3>2, <1>c
        <5>2. PICK b \in Nat : b = Base + a
          BY <1>c
        <5>3. Load!Meant(b, next) = Load!Meant(b, n)
          BY ONLY <4>2, <5>1, MeantNext, LoadType, n \in Nat, b \in Nat
        <5>4. dram[a] = Load!Meant(b, n) /\ dram[a] \in Load!Byte
          BY <5>1, <5>2 DEF Load!ImageAsMeant, LoadType
        <5>5. dram' = dram
          BY ONLY <2>6, <4>2
        <5> QED BY ONLY <5>2, <5>3, <5>4, <5>5
      <4> QED BY ONLY <4>1, <4>2
    <3>4. dram' \in [0 .. Size - 1 -> Load!Byte]
      <4>1. DOMAIN dram' = 0 .. Size - 1 /\ dram' = [a \in DOMAIN dram' |-> dram'[a]]
        <5>1. dram = [a \in 0 .. Size - 1 |-> dram[a]]
          BY DEF LoadType
        <5> QED BY <5>1, <2>6 DEF Load!Placed
      <4> QED BY ONLY <3>3, <4>1
    <3>5. LoadType'
      <4>1. next' \in 1 .. NumSegs + 1
        BY ONLY <2>6, <3>2, <1>c
      <4>2. phase' = phase /\ file' = file /\ phdr' = phdr /\ raw' = raw
        BY ONLY <2>1, <2>6
      <4> QED BY <4>1, <4>2, <3>4 DEF LoadType
    <3>6. LoadProgress'
      <4>1. \A i \in 1 .. next' - 1 : phdr'[i].load => Loadable(i)'
        <5> TAKE i \in 1 .. next' - 1
        <5>1. i = next \/ i \in 1 .. next - 1
          BY <3>2
        <5>2. i \in 1 .. next - 1 => (phdr[i].load => Loadable(i))
          BY <2>1 DEF LoadProgress
        <5> QED BY <5>1, <5>2, <3>1, <2>1, <2>3
      <4>2. phase' = "loading" /\ file' = "good"
        BY <2>1, <2>6
      <4> QED BY <4>1, <4>2 DEF LoadProgress
    <3>7. Load!ImageAsMeant'
      BY <3>2, <3>3, <2>4 DEF Load!ImageAsMeant
    <3> QED BY <3>5, <3>6, <3>7
  <2> QED BY <1>3, <2>5, <2>6 DEF Load!LoadSegment
<1>4. CASE Load!Start
  <2>1. /\ phase = "loading" /\ next = NumSegs + 1 /\ phase' = "running"
        /\ UNCHANGED <<file, phdr, dram, next, raw>>
    BY <1>4 DEF Load!Start
  <2>2. LoadType'
    BY <2>1 DEF LoadType
  <2>3. LoadProgress'
    BY <2>1 DEF LoadProgress, Loadable, Load!Extent
  <2>4. Load!ImageAsMeant'
    BY <2>1 DEF Load!ImageAsMeant, Load!Meant, Load!Extent
  <2> QED BY <2>2, <2>3, <2>4
<1> QED BY <1>1, <1>2, <1>3, <1>4 DEF Load!Next

\* The loader puts a program into memory as its headers say, and the machine runs
\* exactly if the file is an ELF file for it whose segments all lie in the DRAM:
\* for every address width, every memory and every number and size of segments,
\* overlapping ones and ones whose end would wrap around included.
THEOREM LoaderHolds == Spec => []ImageAsMeant
<1> DEFINE Inv == part = "loader" => LoadInv
<1>1. Init => Inv
  <2> SUFFICES ASSUME Init, part = "loader" PROVE LoadInv
    OBVIOUS
  <2>1. Load!Init
    BY DEF Init
  <2>2. Base \in Nat /\ Size \in Nat /\ NumSegs \in Nat
    BY LoadConstants
  <2>3. Load!Zero \in Load!Byte
    BY ONLY DEF Load!Byte, Load!Zero
  <2>4. LoadType
    BY <2>1, <2>2, <2>3 DEF LoadType, Load!Init
  <2>5. LoadProgress
    BY <2>1 DEF LoadProgress, Load!Init
  <2>6. Load!ImageAsMeant
    BY <2>1 DEF Load!ImageAsMeant, Load!Meant, Load!Init
  <2> QED BY <2>4, <2>5, <2>6 DEF LoadInv
<1>2. Inv /\ [Next]_vars => Inv'
  <2> SUFFICES ASSUME Inv, [Next]_vars, part' = "loader" PROVE LoadInv'
    OBVIOUS
  <2>1. part = "loader" /\ LoadInv /\ (Load!Next \/ UNCHANGED loaderVars)
    BY DEF Next, vars
  <2>2. CASE Load!Next
    BY <2>1, <2>2, LoadStep
  <2>3. CASE UNCHANGED loaderVars
    BY <2>1, <2>3 DEF loaderVars, LoadInv, LoadType, LoadProgress, Loadable, Load!Extent,
                      Load!ImageAsMeant, Load!Meant
  <2> QED BY <2>1, <2>2, <2>3
<1>3. Inv => ImageAsMeant
  <2> SUFFICES ASSUME LoadInv
               PROVE  Load!TypeOK /\ Load!RunsIffLoadable /\ Load!ImageAsMeant
    BY DEF ImageAsMeant
  <2>1. Load!TypeOK
    BY DEF LoadInv, LoadType, Load!TypeOK
  <2>2. Load!RunsIffLoadable
    <3>1. phase = "running" => /\ file = "good"
                               /\ \A i \in Load!Segs : phdr[i].load => Loadable(i)
      BY LoadConstants DEF LoadInv, LoadProgress, Load!Segs
    <3>2. phase = "failed" => ~(/\ file = "good"
                                /\ \A i \in Load!Segs : phdr[i].load => Loadable(i))
      BY DEF LoadInv, LoadProgress
    <3> QED BY <3>1, <3>2, Zenon DEF Load!RunsIffLoadable, Loadable
  <2> QED BY <2>1, <2>2 DEF LoadInv
<1> QED BY <1>1, <1>2, <1>3, PTL DEF Spec

-----------------------------------------------------------------------------
(* The block device.                                                       *)

LEMMA BlkConstants ==
    /\ IndexMod \in Nat \ {0} /\ MaxNum \in Nat \ {0} /\ MaxNum < IndexMod
    /\ DiskBlocks \in Nat \ {0} /\ BlockWrap \in Nat \ {0} /\ DiskBlocks <= BlockWrap
    /\ WordMod \in Nat \ {0} /\ BlockWrap < WordMod /\ Capacities \subseteq 0 .. WordMod - 1
    /\ QueueSizes \subseteq 1 .. MaxNum /\ \A n \in QueueSizes : IndexMod % n = 0
    /\ Requests \subseteq Blk!RequestSet
BY CpuThreadAssumptions DEF Blk!VirtioAssumption

LEMMA SizeFacts ==
    ASSUME NEW n \in QueueSizes
    PROVE  n \in Nat \ {0} /\ n <= MaxNum /\ n < IndexMod /\ IndexMod % n = 0
<1>1. n \in 1 .. MaxNum
  BY BlkConstants, Zenon
<1>2. IndexMod % n = 0
  BY BlkConstants, Zenon
<1> QED BY <1>1, <1>2, BlkConstants

\* The indices of the rings by cases, so that the rest is linear.
LEMMA WrapsOnce ==
    ASSUME NEW h \in Nat \ {0}, NEW x \in Nat, x < 2 * h
    PROVE  x % h = IF x < h THEN x ELSE x - h
<1>1. CASE x < h
  <2>1. Splits(x, h, 0, x)
    BY DEF Splits
  <2>2. 0 \in Nat /\ x \in 0 .. h - 1
    BY <1>1
  <2>3. x % h = x
    BY <2>1, <2>2, SplitUnique
  <2> QED BY <1>1, <2>3
<1>2. CASE ~(x < h)
  <2>1. PICK y \in 0 .. h - 1 : y = x - h
    BY <1>2
  <2>2. Splits(x, h, 1, y)
    BY <2>1 DEF Splits
  <2>3. x % h = y
    BY <2>2, SplitUnique
  <2> QED BY <1>2, <2>1, <2>3
<1> QED BY <1>1, <1>2

LEMMA AheadIs ==
    ASSUME NEW i \in Blk!Index, NEW j \in Blk!Index
    PROVE  Blk!Ahead(i, j) = IF i >= j THEN i - j ELSE i - j + IndexMod
<1>1. IndexMod \in Nat \ {0} /\ i \in 0 .. IndexMod - 1 /\ j \in 0 .. IndexMod - 1
  BY BlkConstants DEF Blk!Index
<1>2. PICK x \in Nat : x = i - j + IndexMod /\ x < 2 * IndexMod
  BY <1>1
<1>3. x % IndexMod = IF x < IndexMod THEN x ELSE x - IndexMod
  BY <1>1, <1>2, WrapsOnce
<1>4. Blk!Ahead(i, j) = x % IndexMod
  BY <1>2 DEF Blk!Ahead
<1> QED BY <1>1, <1>2, <1>3, <1>4

LEMMA NextIs ==
    ASSUME NEW i \in Blk!Index
    PROVE  (i + 1) % IndexMod = IF i + 1 = IndexMod THEN 0 ELSE i + 1
<1>1. IndexMod \in Nat \ {0} /\ i \in 0 .. IndexMod - 1
  BY BlkConstants DEF Blk!Index
<1>2. PICK x \in Nat : x = i + 1 /\ x < 2 * IndexMod
  BY <1>1
<1>3. x % IndexMod = IF x < IndexMod THEN x ELSE x - IndexMod
  BY <1>1, <1>2, WrapsOnce
<1> QED BY <1>1, <1>2, <1>3

\* The slot, in a ring of n slots, of the k-th index from x on.
At(n, x, k) == ((x + k - 1) % IndexMod) % n

\* The size of a ring divides the number of indices, so the slots go round
\* evenly where the index wraps.
LEMMA SlotIsModulo ==
    ASSUME NEW n \in QueueSizes, NEW y \in Nat
    PROVE  (y % IndexMod) % n = y % n /\ y % n \in 0 .. n - 1
<1>1. n \in Nat \ {0} /\ IndexMod \in Nat \ {0} /\ IndexMod % n = 0
  BY SizeFacts, BlkConstants
<1>2. PICK c \in Nat : IndexMod = n * c
  <2>1. IndexMod = n * (IndexMod \div n) + (IndexMod % n) /\ IndexMod \div n \in Nat
    BY <1>1, SplitOf
  <2>2. PICK c \in Nat : c = IndexMod \div n
    BY <2>1
  <2>3. n * c \in Nat
    BY <1>1
  <2>4. IndexMod = n * c
    BY <1>1, <2>1, <2>2, <2>3
  <2> QED BY <2>4
<1>3. PICK q \in Nat : q = y \div IndexMod
  BY <1>1, SplitOf
<1>4. PICK r \in 0 .. IndexMod - 1 : r = y % IndexMod
  BY <1>1, SplitOf
<1>5. y = IndexMod * q + r
  BY <1>1, <1>3, <1>4, SplitOf
<1>6. r \in Nat
  BY <1>1
<1>7. PICK p \in Nat : p = r \div n
  BY <1>1, <1>6, SplitOf
<1>8. PICK s \in 0 .. n - 1 : s = r % n
  BY <1>1, <1>6, SplitOf
<1>9. r = n * p + s
  BY <1>1, <1>6, <1>7, <1>8, SplitOf
<1>10. PICK t \in Nat : t = c * q + p
  OBVIOUS
<1>11. Splits(y, n, t, s)
  <2>0. n \in Nat
    BY <1>1
  <2>1. IndexMod * q = n * (c * q)
    <3>1. (n * c) * q = n * (c * q)
      BY <2>0
    <3> QED BY <1>2, <3>1
  <2>2. n * t = n * (c * q) + n * p
    BY <2>0, <1>10
  <2>3. PICK u \in Nat : u = n * (c * q)
    BY <2>0
  <2>4. PICK v \in Nat : v = n * p
    BY <2>0
  <2>5. y = u + (v + s)
    BY <1>5, <1>9, <2>1, <2>3, <2>4
  <2>6. n * t = u + v
    BY <2>2, <2>3, <2>4
  <2>7. y = n * t + s
    BY <2>5, <2>6
  <2> QED BY <2>7 DEF Splits
<1>12. y % n = s
  BY <1>1, <1>11, SplitUnique
<1> QED BY <1>4, <1>8, <1>12

LEMMA SlotFacts ==
    ASSUME NEW n \in QueueSizes, NEW x \in Blk!Index
    PROVE  /\ \A k \in Nat \ {0} : At(n, x, k) \in Blk!Slot /\ At(n, x, k) = (x + k - 1) % n
           /\ At(n, x, 1) = x % n
<1>1. x \in Nat /\ n \in Nat \ {0} /\ n <= MaxNum /\ MaxNum \in Nat
  BY SizeFacts, BlkConstants DEF Blk!Index
<1>2. ASSUME NEW k \in Nat \ {0}
      PROVE  At(n, x, k) \in Blk!Slot /\ At(n, x, k) = (x + k - 1) % n
  <2>1. PICK y \in Nat : y = x + k - 1
    BY <1>1
  <2>2. At(n, x, k) = y % n /\ y % n \in 0 .. n - 1
    BY <2>1, SlotIsModulo DEF At
  <2> QED BY <1>1, <2>1, <2>2 DEF Blk!Slot
<1>3. x + 1 - 1 = x /\ 1 \in Nat \ {0}
  BY <1>1
<1> QED BY <1>2, <1>3

\* Fewer steps than the ring has slots do not meet.
LEMMA SlotsDiffer ==
    ASSUME NEW n \in QueueSizes, NEW x \in Blk!Index,
           NEW i \in Nat \ {0}, NEW j \in Nat \ {0}, i < j, j - i < n
    PROVE  At(n, x, i) # At(n, x, j)
<1> SUFFICES ASSUME At(n, x, i) = At(n, x, j) PROVE FALSE
  OBVIOUS
<1>1. x \in Nat /\ n \in Nat \ {0}
  BY SizeFacts, BlkConstants DEF Blk!Index
<1>2. PICK y \in Nat : y = x + i - 1
  BY <1>1
<1>3. PICK d \in Nat : d = j - i /\ d > 0 /\ d < n
  BY <1>1
<1>4. PICK z \in Nat : z = x + j - 1 /\ z = y + d
  BY <1>1, <1>2, <1>3
<1>5. PICK s \in 0 .. n - 1 : s = y % n
  BY <1>1, SplitOf
<1>6. z % n = s
  BY <1>2, <1>4, <1>5, SlotFacts
<1>7. PICK q \in Nat : y = n * q + s
  BY <1>1, <1>5, SplitOf
<1>8. PICK e \in Nat : e = s + d /\ e < 2 * n /\ z = n * q + e
  <2>1. PICK u \in Nat : u = n * q
    BY <1>1
  <2> QED BY <1>1, <1>3, <1>4, <1>7, <2>1
<1>9. CASE e < n
  <2>1. Splits(z, n, q, e) /\ e \in 0 .. n - 1
    BY <1>8, <1>9, <1>1 DEF Splits
  <2>2. z % n = e
    BY <1>1, <2>1, SplitUnique
  <2> QED BY <1>3, <1>6, <1>8, <2>2
<1>10. CASE e >= n
  <2>1. PICK f \in 0 .. n - 1 : f = e - n
    BY <1>1, <1>8, <1>10
  <2>2. PICK p \in Nat : p = q + 1
    OBVIOUS
  <2>3. Splits(z, n, p, f)
    <3>1. n * p = n * q + n
      BY <1>1, <2>2
    <3>2. PICK u \in Nat : u = n * q
      BY <1>1
    <3>3. z = u + n + f
      BY <1>1, <1>8, <2>1, <3>2
    <3> QED BY <3>1, <3>2, <3>3 DEF Splits
  <2>4. z % n = f
    BY <1>1, <2>3, SplitUnique
  <2> QED BY <1>1, <1>3, <1>6, <1>8, <2>1, <2>4
<1> QED BY <1>1, <1>8, <1>9, <1>10

\* Moving the start by one, and the slot where the next index goes.
LEMMA SlotMoves ==
    ASSUME NEW n \in QueueSizes, NEW x \in Blk!Index, NEW k \in Nat \ {0}
    PROVE  At(n, (x + 1) % IndexMod, k) = At(n, x, k + 1)
<1>1. x \in Nat /\ IndexMod \in Nat \ {0}
  BY BlkConstants DEF Blk!Index
<1>2. PICK y \in Nat : y = x + 1
  BY <1>1
<1>3. PICK j \in Nat : j = k - 1
  OBVIOUS
<1>4. PICK z \in Nat : z = y % IndexMod
  BY <1>1, SplitOf
<1>5. (j + z) % IndexMod = (j + y) % IndexMod
  BY <1>1, <1>4, ModAdd
<1>6. z + k - 1 = j + z /\ x + (k + 1) - 1 = j + y
  BY <1>1, <1>2, <1>3
<1>7. At(n, z, k) = ((j + z) % IndexMod) % n /\ At(n, x, k + 1) = ((j + y) % IndexMod) % n
  BY <1>6 DEF At
<1> QED BY <1>2, <1>4, <1>5, <1>7

LEMMA SlotEnds ==
    ASSUME NEW n \in QueueSizes, NEW i \in Blk!Index, NEW j \in Blk!Index
    PROVE  At(n, j, Blk!Ahead(i, j) + 1) = i % n
<1>1. i \in Nat /\ i < IndexMod /\ j \in Nat /\ j < IndexMod /\ IndexMod \in Nat \ {0}
  BY BlkConstants DEF Blk!Index
<1>2. PICK a \in Nat : a = Blk!Ahead(i, j) /\ a = IF i >= j THEN i - j ELSE i - j + IndexMod
  BY <1>1, AheadIs
<1>3. PICK y \in Nat : y = j + (a + 1) - 1 /\ y < 2 * IndexMod
                       /\ i = IF y < IndexMod THEN y ELSE y - IndexMod
  BY <1>1, <1>2
<1>4. y % IndexMod = i
  BY <1>1, <1>3, WrapsOnce
<1> QED BY <1>2, <1>3, <1>4 DEF At

LEMMA AheadFacts ==
    ASSUME NEW i \in Blk!Index, NEW j \in Blk!Index
    PROVE  /\ Blk!Ahead(i, j) \in Nat /\ Blk!Ahead(i, j) < IndexMod
           /\ Blk!Ahead(i, j) = 0 <=> i = j
           /\ i > j => Blk!Ahead(i, j) = i - j
           /\ (i + 1) % IndexMod \in Blk!Index
           /\ Blk!Ahead(i, j) + 1 < IndexMod =>
                 Blk!Ahead((i + 1) % IndexMod, j) = Blk!Ahead(i, j) + 1
           /\ i # j => Blk!Ahead(i, (j + 1) % IndexMod) = Blk!Ahead(i, j) - 1
<1>1. i \in Nat /\ i < IndexMod /\ j \in Nat /\ j < IndexMod /\ IndexMod \in Nat \ {0}
  BY BlkConstants DEF Blk!Index
<1>2. PICK x : x = (i + 1) % IndexMod
  OBVIOUS
<1>3. x = IF i + 1 = IndexMod THEN 0 ELSE i + 1
  BY <1>2, NextIs
<1>4. PICK y : y = (j + 1) % IndexMod
  OBVIOUS
<1>5. y = IF j + 1 = IndexMod THEN 0 ELSE j + 1
  BY <1>4, NextIs
<1>6. x \in Blk!Index /\ y \in Blk!Index /\ x \in Nat /\ y \in Nat
  BY <1>1, <1>3, <1>5 DEF Blk!Index
<1>7. /\ Blk!Ahead(i, j) = IF i >= j THEN i - j ELSE i - j + IndexMod
      /\ Blk!Ahead(x, j) = IF x >= j THEN x - j ELSE x - j + IndexMod
      /\ Blk!Ahead(i, y) = IF i >= y THEN i - y ELSE i - y + IndexMod
  BY <1>6, AheadIs
<1>8. /\ Blk!Ahead(i, j) \in Nat /\ Blk!Ahead(i, j) < IndexMod
      /\ Blk!Ahead(i, j) = 0 <=> i = j
      /\ i > j => Blk!Ahead(i, j) = i - j
  BY ONLY <1>1, <1>7
<1>9. Blk!Ahead(i, j) + 1 < IndexMod => Blk!Ahead(x, j) = Blk!Ahead(i, j) + 1
  BY ONLY <1>1, <1>3, <1>6, <1>7
<1>10. i # j => Blk!Ahead(i, y) = Blk!Ahead(i, j) - 1
  BY ONLY <1>1, <1>5, <1>6, <1>7
<1> QED BY <1>2, <1>4, <1>6, <1>8, <1>9, <1>10

LEMMA AheadAdds ==
    ASSUME NEW i \in Blk!Index, NEW j \in Blk!Index, NEW k \in Blk!Index,
           Blk!Ahead(i, j) + Blk!Ahead(j, k) < IndexMod
    PROVE  Blk!Ahead(i, k) = Blk!Ahead(i, j) + Blk!Ahead(j, k)
<1>1. /\ i \in Nat /\ i < IndexMod /\ j \in Nat /\ j < IndexMod /\ k \in Nat /\ k < IndexMod
      /\ IndexMod \in Nat \ {0}
  BY BlkConstants DEF Blk!Index
<1>2. /\ Blk!Ahead(i, j) = IF i >= j THEN i - j ELSE i - j + IndexMod
      /\ Blk!Ahead(j, k) = IF j >= k THEN j - k ELSE j - k + IndexMod
      /\ Blk!Ahead(i, k) = IF i >= k THEN i - k ELSE i - k + IndexMod
  BY AheadIs
<1> QED BY ONLY <1>1, <1>2, Blk!Ahead(i, j) + Blk!Ahead(j, k) < IndexMod

BlkIndices ==
    /\ avail \in Blk!Index /\ used \in Blk!Index /\ lastAvail \in Blk!Index
    /\ target \in Blk!Index /\ newUsed \in Blk!Index /\ num \in {0} \cup QueueSizes
BlkFlags ==
    /\ ready \in BOOLEAN /\ line \in BOOLEAN /\ stream \in BOOLEAN /\ batch \in BOOLEAN
    /\ fault \in BOOLEAN /\ over \in BOOLEAN /\ orphan \in BOOLEAN
BlkSets ==
    /\ availAt \in Blk!Place /\ usedAt \in Blk!Place
    /\ status \subseteq {"DRIVER_OK", "NEEDS_RESET"} /\ isr \subseteq {"USED", "CONFIG"}
    /\ capacity \in 0 .. WordMod - 1
BlkContents ==
    /\ ring \in [Blk!Slot -> Requests \cup {Blk!Blank}] /\ usedRing \in [Blk!Slot -> Blk!AnswerSet]
    /\ disk \in [0 .. DiskBlocks - 1 -> Blk!Contents]

\* The requests posted and the answers not handed over fit into the rings
\* together, unless the driver has overwritten a slot, which is its mistake.
BlkRings ==
    /\ ready /\ availAt # "none" =>
        over \/ Blk!Ahead(avail, lastAvail) + Blk!Ahead(lastAvail, used) <= num
    /\ over => ready /\ availAt # "none" /\ fault

\* What holds inside queue_notify_handler.
BlkBatch ==
    batch => /\ ready /\ availAt # "none" /\ "NEEDS_RESET" \notin status
             /\ target = avail /\ newUsed = lastAvail

BlkInv ==
    /\ BlkIndices /\ BlkFlags /\ BlkSets /\ BlkContents
    /\ ready => num \in QueueSizes
    /\ BlkRings /\ BlkBatch
    /\ Blk!NeedsResetForAFault /\ Blk!PartialBatchNeedsReset /\ Blk!LineHasCause

LEMMA BlkFails ==
    ASSUME BlkInv, Blk!SetFail
    PROVE  /\ line' \in BOOLEAN /\ "NEEDS_RESET" \in status'
           /\ status' \subseteq {"DRIVER_OK", "NEEDS_RESET"} /\ isr' \subseteq {"USED", "CONFIG"}
           /\ line' <=> (isr' # {} \/ orphan)
<1>1. status' \subseteq {"DRIVER_OK", "NEEDS_RESET"} /\ "NEEDS_RESET" \in status'
  BY DEF BlkInv, BlkSets, Blk!SetFail
<1>2. isr' \subseteq {"USED", "CONFIG"}
  BY DEF BlkInv, BlkSets, Blk!SetFail
<1>3. line' \in BOOLEAN
  BY Zenon DEF Blk!SetFail
<1>4. line' <=> (isr' # {} \/ orphan)
  <2>1. (line <=> (isr # {} \/ orphan)) /\ (line' <=> (line \/ "DRIVER_OK" \in status))
    BY Zenon DEF BlkInv, Blk!LineHasCause, Blk!SetFail
  <2>2. CASE "DRIVER_OK" \in status
    <3>1. isr' # {}
      BY <2>2 DEF Blk!SetFail
    <3> QED BY <2>1, <2>2, <3>1
  <2>3. CASE "DRIVER_OK" \notin status
    <3>1. isr' = isr
      BY <2>3 DEF Blk!SetFail
    <3> QED BY <2>1, <2>3, <3>1
  <2> QED BY <2>2, <2>3
<1> QED BY <1>1, <1>2, <1>3, <1>4

\* A step that ends or begins nothing: the indices are as before.
LEMMA BlkKept ==
    ASSUME BlkInv, BlkFlags', BlkSets', BlkContents',
           UNCHANGED <<avail, used, num, ready, lastAvail, availAt, usedAt, over>>,
           batch' => batch, (fault => fault'),
           batch' => (status' = status /\ UNCHANGED <<target, newUsed>>),
           target' \in Blk!Index /\ newUsed' \in Blk!Index,
           "NEEDS_RESET" \in status => "NEEDS_RESET" \in status',
           "NEEDS_RESET" \in status' => fault',
           line' <=> (isr' # {} \/ orphan'),
           batch /\ ~batch' => "NEEDS_RESET" \in status'
    PROVE  BlkInv'
<1>1. BlkIndices' /\ (ready' => num' \in QueueSizes)
  BY DEF BlkInv, BlkIndices
<1>2. BlkRings'
  BY DEF BlkInv, BlkRings
<1>3. BlkBatch'
  BY DEF BlkInv, BlkBatch
<1>4. Blk!NeedsResetForAFault' /\ Blk!LineHasCause'
  BY Zenon DEF Blk!NeedsResetForAFault, Blk!LineHasCause
<1>5. Blk!PartialBatchNeedsReset'
  BY DEF BlkInv, Blk!PartialBatchNeedsReset
<1> QED BY <1>1, <1>2, <1>3, <1>4, <1>5 DEF BlkInv

LEMMA BlkOff ==
    ASSUME ~ready', ~batch', ~over', BlkIndices', BlkFlags', BlkSets', BlkContents',
           "NEEDS_RESET" \in status' => fault', line' <=> (isr' # {} \/ orphan')
    PROVE  BlkInv'
<1>1. BlkRings' /\ BlkBatch' /\ Blk!PartialBatchNeedsReset'
  BY DEF BlkRings, BlkBatch, Blk!PartialBatchNeedsReset
<1>2. Blk!NeedsResetForAFault' /\ Blk!LineHasCause'
  BY Zenon DEF Blk!NeedsResetForAFault, Blk!LineHasCause
<1> QED BY <1>1, <1>2 DEF BlkInv

LEMMA BlkNothing ==
    /\ [s \in Blk!Slot |-> Blk!Blank] \in [Blk!Slot -> Requests \cup {Blk!Blank}]
    /\ [s \in Blk!Slot |-> Blk!Empty] \in [Blk!Slot -> Blk!AnswerSet]
    /\ 0 \in Blk!Index
<1>1. Blk!Empty \in Blk!AnswerSet
  BY DEF Blk!AnswerSet, Blk!Empty, Blk!Answer
<1>2. 0 \in Blk!Index
  BY BlkConstants DEF Blk!Index
<1> QED BY <1>1, <1>2

LEMMA BlkInit == Blk!Init => BlkInv
<1> SUFFICES ASSUME Blk!Init PROVE BlkInv
  OBVIOUS
<1> USE DEF Blk!Init
<1>1. BlkIndices
  BY BlkNothing DEF BlkIndices
<1>2. BlkFlags /\ ~ready /\ ~batch /\ ~over
  BY DEF BlkFlags
<1>3. BlkSets
  BY BlkConstants DEF BlkSets, Blk!Place
<1>4. BlkContents
  <2>1. Image \in Blk!Contents
    BY DEF Blk!Contents
  <2> QED BY <2>1, BlkNothing DEF BlkContents
<1>5. BlkRings /\ BlkBatch /\ Blk!PartialBatchNeedsReset /\ Blk!NeedsResetForAFault
  BY DEF BlkRings, BlkBatch, Blk!PartialBatchNeedsReset, Blk!NeedsResetForAFault
<1>6. Blk!LineHasCause
  BY DEF Blk!LineHasCause
<1> QED BY <1>1, <1>2, <1>3, <1>4, <1>5, <1>6 DEF BlkInv

\* The steps that leave the rings alone.
LEMMA BlkQuiet ==
    ASSUME BlkInv, Blk!BadStore \/ Blk!WriteStatus \/ Blk!NotifyFails \/ Blk!RefuseOne
                   \/ \E S \in SUBSET {"USED", "CONFIG"} : Blk!InterruptACK(S)
                   \/ \E c \in Capacities : Blk!WriteCapacity(c)
    PROVE  BlkInv'
<1> USE DEF Blk!memory, Blk!queue, Blk!irq, Blk!host, Blk!local
<1>1. BlkIndices /\ BlkFlags /\ BlkSets /\ BlkContents
  BY DEF BlkInv
<1>2. ("NEEDS_RESET" \in status => fault) /\ (line <=> (isr # {} \/ orphan))
  BY Zenon DEF BlkInv, Blk!NeedsResetForAFault, Blk!LineHasCause
<1>d. target \in Blk!Index /\ newUsed \in Blk!Index
  BY <1>1 DEF BlkIndices
<1>f. disk' = disk /\ (UNCHANGED <<ring, usedRing>> \/ Blk!ForgetSlots) => BlkContents'
  BY <1>1, BlkNothing DEF BlkContents, Blk!ForgetSlots
<1>3. CASE Blk!BadStore
  <2>1. /\ UNCHANGED <<avail, used, num, ready, lastAvail, availAt, usedAt, over>>
        /\ UNCHANGED <<capacity, stream, disk, batch, target, newUsed, orphan>>
        /\ fault' = TRUE /\ ~batch /\ Blk!SetFail /\ Blk!ForgetSlots
    BY <1>3 DEF Blk!BadStore
  <2>2. BlkFlags' /\ BlkSets'
    BY <1>1, <2>1, BlkFails DEF BlkFlags, BlkSets
  <2> QED BY <1>d, <1>f, <2>1, <2>2, BlkFails, BlkKept
<1>4. CASE Blk!WriteStatus
  <2>1. /\ UNCHANGED <<avail, used, num, ready, lastAvail, availAt, usedAt, over>>
        /\ UNCHANGED <<capacity, stream, disk, batch, target, newUsed, orphan>>
        /\ UNCHANGED <<fault, line, isr, ring, usedRing>> /\ ~batch /\ status' = status \cup {"DRIVER_OK"}
    BY <1>4 DEF Blk!WriteStatus
  <2>2. BlkFlags' /\ BlkSets'
    BY <1>1, <2>1 DEF BlkFlags, BlkSets
  <2>3. ("NEEDS_RESET" \in status' <=> "NEEDS_RESET" \in status)
    BY <2>1
  <2>4. line' <=> (isr' # {} \/ orphan')
    BY <1>2, <2>1
  <2> QED BY <1>2, <1>d, <1>f, <2>1, <2>2, <2>3, <2>4, BlkKept
<1>5. CASE Blk!NotifyFails
  <2>1. /\ UNCHANGED <<avail, used, num, ready, lastAvail, availAt, usedAt, over>>
        /\ UNCHANGED <<capacity, stream, disk, batch, target, newUsed, orphan>>
        /\ ~batch /\ Blk!SetFail /\ Blk!Unusable /\ Blk!ForgetSlots
        /\ fault' = (fault \/ ~("DRIVER_OK" \in status /\ ready) \/ "none" \in {availAt, usedAt})
    BY <1>5 DEF Blk!NotifyFails
  <2>2. fault' \in BOOLEAN
        /\ (fault' <=> (fault \/ ~("DRIVER_OK" \in status /\ ready) \/ "none" \in {availAt, usedAt}))
    BY <2>1, Zenon
  <2>3. BlkFlags' /\ BlkSets'
    BY <1>1, <2>1, <2>2, BlkFails DEF BlkFlags, BlkSets
  <2>4. fault'
    <3> SUFFICES ASSUME ready, availAt # "none", Blk!TooMany PROVE fault
      BY <2>1, <2>2 DEF Blk!Unusable
    <3>1. num \in Nat /\ num < IndexMod /\ avail \in Nat /\ lastAvail \in Nat
      BY <1>1, SizeFacts, BlkConstants DEF BlkIndices, Blk!Index
    <3>2. avail - lastAvail > num
      BY DEF Blk!TooMany
    <3>3. Blk!Ahead(avail, lastAvail) > num
      BY <1>1, <3>1, <3>2, AheadFacts DEF BlkIndices
    <3>4. Blk!Ahead(lastAvail, used) \in Nat /\ Blk!Ahead(avail, lastAvail) \in Nat
      BY <1>1, AheadFacts DEF BlkIndices
    <3>5. over
      BY <3>1, <3>3, <3>4 DEF BlkInv, BlkRings
    <3> QED BY <3>5 DEF BlkInv, BlkRings
  <2> QED BY <1>d, <1>f, <2>1, <2>3, <2>4, BlkFails, BlkKept
<1>6. CASE Blk!RefuseOne
  <2>1. /\ UNCHANGED <<avail, used, num, ready, lastAvail, availAt, usedAt, over>>
        /\ UNCHANGED <<capacity, stream, disk, orphan>>
        /\ batch' = FALSE /\ target' = 0 /\ newUsed' = 0 /\ Blk!SetFail /\ fault' = TRUE
        /\ Blk!ForgetSlots
    BY <1>6 DEF Blk!RefuseOne, Blk!LeaveLoop
  <2>2. BlkFlags' /\ BlkSets'
    BY <1>1, <2>1, BlkFails DEF BlkFlags, BlkSets
  <2>3. target' \in Blk!Index /\ newUsed' \in Blk!Index
    BY <2>1, BlkNothing
  <2> QED BY <1>d, <1>f, <2>1, <2>2, <2>3, BlkFails, BlkKept
<1>7. ASSUME NEW S \in SUBSET {"USED", "CONFIG"}, Blk!InterruptACK(S) PROVE BlkInv'
  <2>1. /\ UNCHANGED <<avail, used, num, ready, lastAvail, availAt, usedAt, over>>
        /\ UNCHANGED <<capacity, stream, disk, batch, target, newUsed, status, fault>>
        /\ UNCHANGED <<ring, usedRing>> /\ ~batch /\ isr' = isr \ S
    BY <1>7 DEF Blk!InterruptACK
  <2>2. /\ line' \in BOOLEAN /\ (line' <=> (line /\ isr' # {}))
        /\ orphan' \in BOOLEAN /\ (orphan' <=> (orphan /\ isr' # {}))
    BY <1>7, Zenon DEF Blk!InterruptACK
  <2>3. BlkFlags' /\ BlkSets'
    BY <1>1, <2>1, <2>2 DEF BlkFlags, BlkSets
  <2>4. line' <=> (isr' # {} \/ orphan')
    BY <1>2, <2>1, <2>2
  <2> QED BY <1>2, <1>d, <1>f, <2>1, <2>3, <2>4, BlkKept
<1>8. ASSUME NEW c \in Capacities, Blk!WriteCapacity(c) PROVE BlkInv'
  <2>1. /\ UNCHANGED <<avail, used, num, ready, lastAvail, availAt, usedAt, over>>
        /\ UNCHANGED <<ring, usedRing, status, isr, line, stream, disk, batch, target, newUsed, fault, orphan>>
        /\ ~batch /\ capacity' = c
    BY <1>8 DEF Blk!WriteCapacity
  <2>2. c \in 0 .. WordMod - 1
    BY BlkConstants
  <2>3. BlkFlags' /\ BlkSets'
    BY <1>1, <2>1, <2>2 DEF BlkFlags, BlkSets
  <2>4. line' <=> (isr' # {} \/ orphan')
    BY <1>2, <2>1
  <2> QED BY <1>2, <1>d, <1>f, <2>1, <2>3, <2>4, BlkKept
<1> QED BY <1>3, <1>4, <1>5, <1>6, <1>7, <1>8

\* The steps that set the queue up or switch it off.
LEMMA BlkSetUp ==
    ASSUME BlkInv, \/ Blk!WriteQueueNotReady \/ Blk!Reset
                   \/ \E n \in QueueSizes : Blk!WriteQueueNum(n)
                   \/ \E a \in Blk!Place : Blk!WriteQueueAddr(a, "all") \/ Blk!WriteQueueAddr("all", a)
                   \/ \E i \in {0, IndexMod - 1} : Blk!InitRings(i)
    PROVE  BlkInv'
<1> USE DEF Blk!memory, Blk!queue, Blk!irq, Blk!host, Blk!local
<1>1. BlkIndices /\ BlkFlags /\ BlkSets /\ BlkContents
  BY DEF BlkInv
<1>2. ("NEEDS_RESET" \in status => fault) /\ (line <=> (isr # {} \/ orphan))
  BY Zenon DEF BlkInv, Blk!NeedsResetForAFault, Blk!LineHasCause
<1>o. ~ready => ~over
  BY DEF BlkInv, BlkRings
<1>3. CASE Blk!WriteQueueNotReady
  <2>1. /\ ring' = [s \in Blk!Slot |-> Blk!Blank] /\ usedRing' = [s \in Blk!Slot |-> Blk!Empty]
        /\ UNCHANGED <<avail, used, num, lastAvail, availAt, usedAt>>
        /\ UNCHANGED <<status, isr, line, capacity, stream, disk, batch, target, newUsed, fault, orphan>>
        /\ ready' = FALSE /\ over' = FALSE /\ ~batch
    BY <1>3 DEF Blk!WriteQueueNotReady, Blk!ForgetSlots
  <2>2. BlkIndices' /\ BlkFlags' /\ BlkSets'
    BY <1>1, <2>1 DEF BlkIndices, BlkFlags, BlkSets
  <2>3. BlkContents'
    BY <1>1, <2>1, BlkNothing DEF BlkContents
  <2> QED BY <1>2, <2>1, <2>2, <2>3, BlkOff
<1>4. CASE Blk!Reset
  <2>1. /\ ring' = [s \in Blk!Slot |-> Blk!Blank] /\ usedRing' = [s \in Blk!Slot |-> Blk!Empty]
        /\ status' = {} /\ isr' = {} /\ num' = 0 /\ lastAvail' = 0
        /\ availAt' = "none" /\ usedAt' = "none" /\ orphan' = line /\ fault' = FALSE
        /\ UNCHANGED <<line, avail, used, capacity, stream, disk, batch, target, newUsed>>
        /\ ready' = FALSE /\ over' = FALSE /\ ~batch
    BY <1>4 DEF Blk!Reset, Blk!ForgetSlots
  <2>2. BlkIndices' /\ BlkFlags'
    BY <1>1, <2>1, BlkNothing DEF BlkIndices, BlkFlags
  <2>3. BlkSets'
    BY <1>1, <2>1 DEF BlkSets, Blk!Place
  <2>4. BlkContents'
    BY <1>1, <2>1, BlkNothing DEF BlkContents
  <2> QED BY <2>1, <2>2, <2>3, <2>4, BlkOff
<1>5. ASSUME NEW n \in QueueSizes, Blk!WriteQueueNum(n) PROVE BlkInv'
  <2>1. /\ UNCHANGED <<avail, ring, used, usedRing, lastAvail, availAt, usedAt, ready>>
        /\ UNCHANGED <<status, isr, line, capacity, stream, disk, batch, target, newUsed, fault, over, orphan>>
        /\ ~ready /\ ~batch /\ num' = n
    BY <1>5 DEF Blk!WriteQueueNum
  <2>2. BlkIndices' /\ BlkFlags' /\ BlkSets' /\ BlkContents'
    BY <1>1, <2>1 DEF BlkIndices, BlkFlags, BlkSets, BlkContents
  <2> QED BY <1>2, <1>o, <2>1, <2>2, BlkOff
<1>6. ASSUME NEW a \in Blk!Place, NEW u \in Blk!Place, Blk!WriteQueueAddr(a, u) PROVE BlkInv'
  <2>1. /\ UNCHANGED <<avail, ring, used, usedRing, lastAvail, num, ready>>
        /\ UNCHANGED <<status, isr, line, capacity, stream, disk, batch, target, newUsed, fault, over, orphan>>
        /\ ~ready /\ ~batch /\ availAt' = a /\ usedAt' = u
    BY <1>6 DEF Blk!WriteQueueAddr
  <2>2. BlkIndices' /\ BlkFlags' /\ BlkSets' /\ BlkContents'
    BY <1>1, <2>1 DEF BlkIndices, BlkFlags, BlkSets, BlkContents
  <2> QED BY <1>2, <1>o, <2>1, <2>2, BlkOff
<1>7. ASSUME NEW i \in {0, IndexMod - 1}, Blk!InitRings(i) PROVE BlkInv'
  <2>1. /\ UNCHANGED <<ring, usedRing, lastAvail, num, availAt, usedAt, ready, capacity>>
        /\ UNCHANGED <<status, isr, line, stream, disk, batch, target, newUsed, fault, over, orphan>>
        /\ ~ready /\ ~batch /\ avail' = i /\ used' = i
    BY <1>7 DEF Blk!InitRings
  <2>2. i \in Blk!Index
    BY BlkConstants DEF Blk!Index
  <2>3. BlkIndices' /\ BlkFlags' /\ BlkSets' /\ BlkContents'
    BY <1>1, <2>1, <2>2 DEF BlkIndices, BlkFlags, BlkSets, BlkContents
  <2> QED BY <1>2, <1>o, <2>1, <2>3, BlkOff
<1>8. "all" \in Blk!Place
  BY DEF Blk!Place
<1> QED BY <1>3, <1>4, <1>5, <1>6, <1>7, <1>8

\* A request is carried out on a block that it may hit, and truly answered: a
\* capacity from 1 to BlockWrap keeps its byte offset from wrapping.
LEMMA BlkServed ==
    ASSUME BlkInv, NEW r \in Requests \cup {Blk!Blank}, NEW works \in BOOLEAN
    PROVE  /\ Blk!DiskAfter(r, works) \in [0 .. DiskBlocks - 1 -> Blk!Contents]
           /\ Blk!AnswerTo(r, works) \in Blk!AnswerSet
           /\ Blk!Promise!Served(r, Blk!DiskAfter(r, works), Blk!AnswerTo(r, works))
           /\ \/ Blk!DiskAfter(r, works) = disk
              \/ /\ r.type = "OUT" /\ r.data \in Blk!Contents
                 /\ \E b \in Blk!Promise!Hit(r) :
                        b \in DOMAIN disk /\ Blk!DiskAfter(r, works) = [disk EXCEPT ![b] = r.data]
<1>1. disk \in [0 .. DiskBlocks - 1 -> Blk!Contents] /\ capacity \in 0 .. WordMod - 1
  BY DEF BlkInv, BlkContents, BlkSets
<1>2. r.sector \in 0 .. WordMod - 1
  <2>1. CASE r \in Requests
    BY <2>1, BlkConstants DEF Blk!RequestSet
  <2>2. CASE r = Blk!Blank
    BY <2>2, BlkConstants DEF Blk!Blank
  <2> QED BY <2>1, <2>2
<1>3. ASSUME Blk!InRange(r.sector)
      PROVE  Blk!Block(r.sector) \in Blk!Promise!Hit(r) /\ Blk!Block(r.sector) \in 0 .. DiskBlocks - 1
  <2>1. PICK s \in Nat : s = r.sector
    BY <1>2, BlkConstants
  <2>2. PICK y \in 0 .. BlockWrap - 1 : y = s % BlockWrap /\ Blk!Block(r.sector) = y
    BY <2>1, SplitOf, BlkConstants DEF Blk!Block
  <2>3. y \in 0 .. DiskBlocks - 1
    BY <1>3, <2>1, <2>2, BlkConstants DEF Blk!InRange
  <2>4. s < BlockWrap => y = s
    BY <2>1, <2>2, WrapsOnce, BlkConstants
  <2>5. capacity \in 1 .. BlockWrap => s < BlockWrap
    <3> SUFFICES ASSUME capacity \in 1 .. BlockWrap PROVE s < BlockWrap
      OBVIOUS
    <3>1. PICK x \in Nat : x = capacity + WordMod - 1 /\ x < 2 * WordMod /\ x >= WordMod
      BY <1>1, BlkConstants
    <3>2. x % WordMod = x - WordMod
      <4>1. x % WordMod = IF x < WordMod THEN x ELSE x - WordMod
        BY <3>1, WrapsOnce, BlkConstants
      <4>2. ~(x < WordMod)
        BY <3>1, BlkConstants
      <4> QED BY <4>1, <4>2, Zenon
    <3>3. s <= (capacity + WordMod - 1) % WordMod
      BY <1>3, <2>1 DEF Blk!InRange
    <3>4. s <= x - WordMod
      BY <3>1, <3>2, <3>3
    <3> QED BY <1>1, <2>1, <3>1, <3>4, BlkConstants
  <2>6. CASE s \in 0 .. DiskBlocks - 1
    <3>1. y = s /\ s \in DOMAIN disk
      BY <1>1, <2>1, <2>4, <2>6, BlkConstants
    <3> QED BY <2>1, <2>2, <2>3, <3>1 DEF Blk!Promise!Hit
  <2>7. CASE s \notin 0 .. DiskBlocks - 1
    <3>1. ~(capacity \in 1 .. BlockWrap)
      BY <2>3, <2>4, <2>5, <2>7
    <3>2. r.sector \notin DOMAIN disk /\ y \in DOMAIN disk
      BY <1>1, <2>1, <2>3, <2>7
    <3> QED BY <2>2, <2>3, <3>1, <3>2 DEF Blk!Promise!Hit
  <2> QED BY <2>6, <2>7
<1>4. PICK b : b = Blk!Block(r.sector)
  OBVIOUS
<1>5. CASE ~Blk!Succeeds(r, works)
  <2>1. Blk!DiskAfter(r, works) = disk /\ Blk!AnswerTo(r, works) = Blk!Answer(r, "ERROR", "none")
    BY <1>5 DEF Blk!DiskAfter, Blk!AnswerTo
  <2>2. Blk!Answer(r, "ERROR", "none") \in Blk!AnswerSet
    BY DEF Blk!AnswerSet, Blk!Answer
  <2>3. Blk!Promise!Served(r, disk, Blk!Answer(r, "ERROR", "none"))
    BY DEF Blk!Promise!Served, Blk!Promise!Answer, Blk!Promise!NoData, Blk!Answer
  <2> QED BY <1>1, <2>1, <2>2, <2>3
<1>6. CASE Blk!Succeeds(r, works) /\ r.type = "IN"
  <2>1. b \in Blk!Promise!Hit(r) /\ b \in 0 .. DiskBlocks - 1
    BY <1>3, <1>4, <1>6 DEF Blk!Succeeds
  <2>2. Blk!DiskAfter(r, works) = disk /\ Blk!AnswerTo(r, works) = Blk!Answer(r, "OK", disk[b])
    BY <1>4, <1>6 DEF Blk!DiskAfter, Blk!AnswerTo
  <2>3. Blk!Answer(r, "OK", disk[b]) \in Blk!AnswerSet
    BY <1>1, <2>1 DEF Blk!AnswerSet, Blk!Answer
  <2>4. Blk!Promise!Served(r, disk, Blk!Answer(r, "OK", disk[b]))
    BY <1>6, <2>1 DEF Blk!Promise!Served, Blk!Promise!Answer, Blk!Answer
  <2> QED BY <1>1, <2>2, <2>3, <2>4
<1>7. CASE Blk!Succeeds(r, works) /\ r.type = "OUT"
  <2>1. b \in Blk!Promise!Hit(r) /\ b \in 0 .. DiskBlocks - 1
    BY <1>3, <1>4, <1>7 DEF Blk!Succeeds
  <2>2. /\ Blk!DiskAfter(r, works) = [disk EXCEPT ![b] = r.data]
        /\ Blk!AnswerTo(r, works) = Blk!Answer(r, "OK", "none")
    BY <1>4, <1>7 DEF Blk!DiskAfter, Blk!AnswerTo
  <2>3. r \in Requests
    BY <1>7 DEF Blk!Blank
  <2>4. r.data \in Blk!Contents
    BY <2>3 DEF Blk!Contents
  <2>5. [disk EXCEPT ![b] = r.data] \in [0 .. DiskBlocks - 1 -> Blk!Contents]
    BY <1>1, <2>4
  <2>6. Blk!Answer(r, "OK", "none") \in Blk!AnswerSet
    BY DEF Blk!AnswerSet, Blk!Answer
  <2>7. Blk!Promise!Served(r, [disk EXCEPT ![b] = r.data], Blk!Answer(r, "OK", "none"))
    BY <1>7, <2>1 DEF Blk!Promise!Served, Blk!Promise!Answer, Blk!Promise!NoData, Blk!Answer
  <2>8. b \in DOMAIN disk
    BY <1>1, <2>1
  <2> QED BY <1>7, <2>1, <2>2, <2>4, <2>5, <2>6, <2>7, <2>8
<1>8. CASE Blk!Succeeds(r, works) /\ r.type \notin {"IN", "OUT"}
  <2>1. r.type = "OTHER" /\ Blk!DiskAfter(r, works) = disk
        /\ Blk!AnswerTo(r, works) = Blk!Answer(r, "OK", "none")
    BY <1>8 DEF Blk!DiskAfter, Blk!AnswerTo, Blk!Succeeds
  <2>2. Blk!Answer(r, "OK", "none") \in Blk!AnswerSet
    BY DEF Blk!AnswerSet, Blk!Answer
  <2>3. Blk!Promise!Served(r, disk, Blk!Answer(r, "OK", "none"))
    BY <2>1 DEF Blk!Promise!Served, Blk!Promise!Answer, Blk!Promise!NoData, Blk!Answer
  <2> QED BY <1>1, <2>1, <2>2, <2>3
<1> QED BY <1>5, <1>6, <1>7, <1>8

\* The driver posts into a free slot ...
LEMMA RoomLeft ==
    ASSUME BlkInv, ready, availAt # "none", ~over, Blk!Ahead(avail, used) < num
    PROVE  /\ Blk!Ahead(avail, lastAvail) + Blk!Ahead(lastAvail, used) < num
           /\ Blk!Ahead((avail + 1) % IndexMod, lastAvail) = Blk!Ahead(avail, lastAvail) + 1
<1>1. BlkIndices /\ num \in Nat /\ num < IndexMod /\ IndexMod \in Nat \ {0}
  BY SizeFacts, BlkConstants DEF BlkInv
<1>2. Blk!Ahead(avail, lastAvail) \in Nat /\ Blk!Ahead(lastAvail, used) \in Nat
  BY <1>1, AheadFacts DEF BlkIndices
<1>4. Blk!Ahead(avail, lastAvail) + Blk!Ahead(lastAvail, used) < IndexMod
  BY <1>1, <1>2 DEF BlkInv, BlkRings
<1>5. Blk!Ahead(avail, used) = Blk!Ahead(avail, lastAvail) + Blk!Ahead(lastAvail, used)
  BY <1>1, <1>4, AheadAdds DEF BlkIndices
<1>6. Blk!Ahead(avail, lastAvail) + 1 < IndexMod
  BY <1>1, <1>2, <1>5
<1> QED BY <1>1, <1>5, <1>6, AheadFacts DEF BlkIndices

\* ... and the device takes a request that is there.
LEMMA OneWaits ==
    ASSUME BlkInv, ~over, batch, lastAvail # target
    PROVE  /\ Blk!Ahead(avail, lastAvail) + Blk!Ahead(lastAvail, used) <= num
           /\ Blk!Ahead(avail, lastAvail) # 0
           /\ Blk!Ahead(avail, (lastAvail + 1) % IndexMod) = Blk!Ahead(avail, lastAvail) - 1
           /\ Blk!Ahead((lastAvail + 1) % IndexMod, used) = Blk!Ahead(lastAvail, used) + 1
<1>1. /\ BlkIndices /\ ready /\ availAt # "none" /\ target = avail
      /\ num \in Nat /\ num < IndexMod /\ IndexMod \in Nat \ {0}
  BY SizeFacts, BlkConstants DEF BlkInv, BlkBatch
<1>2. Blk!Ahead(avail, lastAvail) \in Nat /\ Blk!Ahead(lastAvail, used) \in Nat
  BY <1>1, AheadFacts DEF BlkIndices
<1>3. Blk!Ahead(avail, lastAvail) + Blk!Ahead(lastAvail, used) <= num
  BY <1>1 DEF BlkInv, BlkRings
<1>4. /\ Blk!Ahead(avail, (lastAvail + 1) % IndexMod) = Blk!Ahead(avail, lastAvail) - 1
      /\ Blk!Ahead(avail, lastAvail) # 0
  BY <1>1, AheadFacts DEF BlkIndices
<1>5. Blk!Ahead(lastAvail, used) + 1 < IndexMod
  BY <1>1, <1>2, <1>3, <1>4
<1> QED BY <1>1, <1>3, <1>4, <1>5, AheadFacts DEF BlkIndices

\* The steps of the rings.
LEMMA BlkStep ==
    ASSUME BlkInv, Blk!Next
    PROVE  BlkInv'
<1> USE DEF Blk!memory, Blk!queue, Blk!irq, Blk!host, Blk!local
<1>1. BlkIndices /\ BlkFlags /\ BlkSets /\ BlkContents
  BY DEF BlkInv
<1>2. ("NEEDS_RESET" \in status => fault) /\ (line <=> (isr # {} \/ orphan))
  BY Zenon DEF BlkInv, Blk!NeedsResetForAFault, Blk!LineHasCause
<1>3. ready => num \in QueueSizes /\ num \in Nat /\ num < IndexMod
  BY SizeFacts, BlkConstants DEF BlkInv
<1>4. IndexMod \in Nat \ {0}
  BY BlkConstants
<1>5. /\ Blk!Ahead(avail, lastAvail) \in Nat /\ Blk!Ahead(avail, lastAvail) < IndexMod
      /\ Blk!Ahead(lastAvail, used) \in Nat /\ Blk!Ahead(lastAvail, used) < IndexMod
      /\ (avail + 1) % IndexMod \in Blk!Index /\ (lastAvail + 1) % IndexMod \in Blk!Index
      /\ (newUsed + 1) % IndexMod \in Blk!Index
  BY <1>1, AheadFacts DEF BlkIndices
<1>6. CASE Blk!WriteQueueReady
  <2>1. /\ UNCHANGED <<avail, ring, used, usedRing, num, availAt, usedAt, capacity>>
        /\ UNCHANGED <<status, isr, line, stream, disk, batch, target, newUsed, fault, over, orphan>>
        /\ ~ready /\ ~batch /\ ready' = TRUE /\ num # 0 /\ avail = used
        /\ lastAvail' = IF availAt = "none" THEN lastAvail ELSE avail
    BY <1>6 DEF Blk!WriteQueueReady
  <2>2. BlkIndices' /\ BlkFlags' /\ BlkSets' /\ BlkContents' /\ num' \in QueueSizes
    BY <1>1, <2>1 DEF BlkIndices, BlkFlags, BlkSets, BlkContents
  <2>3. availAt' # "none" => lastAvail' = avail' /\ lastAvail' = used'
    BY <2>1
  <2>4. BlkRings'
    <3> SUFFICES ASSUME availAt' # "none"
                 PROVE  Blk!Ahead(avail', lastAvail') + Blk!Ahead(lastAvail', used') <= num'
      BY <2>1 DEF BlkInv, BlkRings
    <3>1. Blk!Ahead(avail', lastAvail') = 0 /\ Blk!Ahead(lastAvail', used') = 0
      BY <2>2, <2>3, AheadFacts DEF BlkIndices
    <3>2. num' \in Nat
      BY <2>2, SizeFacts
    <3> QED BY <3>1, <3>2
  <2>5. BlkBatch' /\ Blk!PartialBatchNeedsReset'
    BY <2>1, <2>3 DEF BlkBatch, Blk!PartialBatchNeedsReset
  <2>6. Blk!NeedsResetForAFault' /\ Blk!LineHasCause'
    BY <1>2, <2>1, Zenon DEF Blk!NeedsResetForAFault, Blk!LineHasCause
  <2> QED BY <2>2, <2>4, <2>5, <2>6 DEF BlkInv
<1>7. ASSUME NEW r \in Requests, Blk!PostRequest(r) PROVE BlkInv'
  <2>1. /\ UNCHANGED <<used, usedRing, num, lastAvail, availAt, usedAt, capacity, ready>>
        /\ UNCHANGED <<status, isr, line, stream, disk, batch, target, newUsed, over, orphan>>
        /\ ~batch /\ ready /\ Blk!Ahead(avail, used) < num
        /\ ring' = [ring EXCEPT ![avail % num] = r] /\ avail' = (avail + 1) % IndexMod
    BY <1>7 DEF Blk!PostRequest
  <2>2. fault' \in BOOLEAN /\ (fault' <=> (fault \/ r.type = "BADCHAIN"))
    BY <1>7, Zenon DEF Blk!PostRequest
  <2>3. BlkIndices' /\ BlkFlags' /\ BlkSets'
    BY <1>1, <1>5, <2>1, <2>2 DEF BlkIndices, BlkFlags, BlkSets
  <2>4. BlkContents'
    BY <1>1, <2>1 DEF BlkContents
  <2>5. BlkRings'
    <3> SUFFICES ASSUME availAt # "none", ~over
                 PROVE  Blk!Ahead(avail', lastAvail) + Blk!Ahead(lastAvail, used) <= num
      BY <2>1, <2>2 DEF BlkInv, BlkRings
    <3> QED BY <1>3, <1>5, <2>1, RoomLeft
  <2>6. BlkBatch' /\ Blk!PartialBatchNeedsReset' /\ num' \in QueueSizes
    BY <1>3, <2>1 DEF BlkInv, BlkBatch, Blk!PartialBatchNeedsReset
  <2>7. Blk!NeedsResetForAFault' /\ Blk!LineHasCause'
    BY <1>2, <2>1, <2>2, Zenon DEF Blk!NeedsResetForAFault, Blk!LineHasCause
  <2> QED BY <2>3, <2>4, <2>5, <2>6, <2>7 DEF BlkInv
<1>8. ASSUME NEW r \in Requests, Blk!OverPost(r) PROVE BlkInv'
  <2>1. /\ UNCHANGED <<used, usedRing, num, lastAvail, availAt, usedAt, capacity, ready>>
        /\ UNCHANGED <<status, isr, line, stream, disk, batch, target, newUsed, orphan>>
        /\ ~batch /\ ready /\ availAt # "none" /\ fault' = TRUE /\ over' = TRUE
        /\ ring' = [ring EXCEPT ![avail % num] = r] /\ avail' = (avail + 1) % IndexMod
    BY <1>8 DEF Blk!OverPost
  <2>2. BlkIndices' /\ BlkFlags' /\ BlkSets'
    BY <1>1, <1>5, <2>1 DEF BlkIndices, BlkFlags, BlkSets
  <2>3. BlkContents'
    BY <1>1, <2>1 DEF BlkContents
  <2>4. BlkRings'
    BY <2>1 DEF BlkRings
  <2>5. BlkBatch' /\ Blk!PartialBatchNeedsReset' /\ num' \in QueueSizes
    BY <1>3, <2>1 DEF BlkInv, BlkBatch, Blk!PartialBatchNeedsReset
  <2>6. Blk!NeedsResetForAFault' /\ Blk!LineHasCause'
    BY <1>2, <2>1, Zenon DEF Blk!NeedsResetForAFault, Blk!LineHasCause
  <2> QED BY <2>2, <2>3, <2>4, <2>5, <2>6 DEF BlkInv
<1>9. CASE Blk!Notify
  <2>1. /\ UNCHANGED <<avail, ring, used, usedRing, num, lastAvail, availAt, usedAt, ready>>
        /\ UNCHANGED <<status, isr, line, capacity, stream, disk, fault, over, orphan>>
        /\ ~batch /\ "NEEDS_RESET" \notin status /\ ~Blk!Unusable
        /\ batch' = TRUE /\ target' = avail /\ newUsed' = used
    BY <1>9 DEF Blk!Notify
  <2>2. ready /\ availAt # "none"
    BY <2>1 DEF Blk!Unusable
  <2>3. lastAvail = used
    BY <2>1, <2>2 DEF BlkInv, Blk!PartialBatchNeedsReset
  <2>4. BlkIndices' /\ BlkFlags' /\ BlkSets' /\ BlkContents'
    BY <1>1, <2>1 DEF BlkIndices, BlkFlags, BlkSets, BlkContents
  <2>5. BlkRings'
    BY <2>1 DEF BlkInv, BlkRings
  <2>6. BlkBatch' /\ Blk!PartialBatchNeedsReset' /\ num' \in QueueSizes
    BY <1>3, <2>1, <2>2, <2>3 DEF BlkBatch, Blk!PartialBatchNeedsReset
  <2>7. Blk!NeedsResetForAFault' /\ Blk!LineHasCause'
    BY <1>2, <2>1, Zenon DEF Blk!NeedsResetForAFault, Blk!LineHasCause
  <2> QED BY <2>4, <2>5, <2>6, <2>7 DEF BlkInv
<1>10. ASSUME NEW works \in BOOLEAN, Blk!ServeOne(works) PROVE BlkInv'
  <2>1. PICK r : r = ring[lastAvail % num]
    OBVIOUS
  <2>2. /\ batch /\ lastAvail # target /\ disk' = Blk!DiskAfter(r, works)
        /\ UNCHANGED <<avail, used, num, ready, availAt, usedAt, capacity, over, orphan>>
    BY <1>10, <2>1 DEF Blk!ServeOne
  <2>3. stream' \in BOOLEAN
    BY <1>10, Zenon DEF Blk!ServeOne
  <2>4. ready /\ availAt # "none" /\ "NEEDS_RESET" \notin status /\ target = avail /\ newUsed = lastAvail
    BY <2>2 DEF BlkInv, BlkBatch
  <2>5. lastAvail % num \in Blk!Slot
    <3>1. At(num, lastAvail, 1) = lastAvail % num /\ At(num, lastAvail, 1) \in Blk!Slot
      BY <1>1, <1>3, <2>4, SlotFacts DEF BlkIndices
    <3> QED BY <3>1
  <2>6. r \in Requests \cup {Blk!Blank}
    BY <1>1, <2>1, <2>5 DEF BlkContents
  <2>7. /\ disk' \in [0 .. DiskBlocks - 1 -> Blk!Contents]
        /\ Blk!AnswerTo(r, works) \in Blk!AnswerSet
    BY <2>2, <2>6, BlkServed
  <2>8. CASE usedAt = "all"
    <3>1. /\ lastAvail' = (lastAvail + 1) % IndexMod /\ newUsed' = (newUsed + 1) % IndexMod
          /\ usedRing' = [usedRing EXCEPT ![newUsed % num] = Blk!AnswerTo(r, works)]
          /\ UNCHANGED <<ring, status, isr, line, batch, target, fault>>
      BY <1>10, <2>1, <2>8 DEF Blk!ServeOne
    <3>2. BlkIndices' /\ BlkFlags' /\ BlkSets'
      BY <1>1, <1>5, <2>2, <2>3, <3>1 DEF BlkIndices, BlkFlags, BlkSets
    <3>3. BlkContents'
      BY <1>1, <2>7, <3>1 DEF BlkContents
    <3>4. BlkRings'
      <4>1. ~over => Blk!Ahead(avail, lastAvail') + Blk!Ahead(lastAvail', used) <= num
        BY <1>3, <1>5, <2>2, <2>4, <3>1, OneWaits
      <4> QED BY <2>2, <3>1, <4>1 DEF BlkInv, BlkRings
    <3>5. BlkBatch' /\ Blk!PartialBatchNeedsReset' /\ num' \in QueueSizes
      BY <1>3, <2>2, <2>4, <3>1 DEF BlkBatch, Blk!PartialBatchNeedsReset
    <3>6. Blk!NeedsResetForAFault' /\ Blk!LineHasCause'
      BY <1>2, <2>2, <3>1, Zenon DEF Blk!NeedsResetForAFault, Blk!LineHasCause
    <3> QED BY <3>2, <3>3, <3>4, <3>5, <3>6 DEF BlkInv
  <2>9. CASE usedAt # "all"
    <3>1. /\ UNCHANGED lastAvail /\ fault' = TRUE /\ Blk!SetFail /\ Blk!ForgetSlots
          /\ batch' = FALSE /\ target' = 0 /\ newUsed' = 0
      BY <1>10, <2>9 DEF Blk!ServeOne, Blk!LeaveLoop
    <3>2. BlkFlags' /\ BlkSets'
      BY <1>1, <2>2, <2>3, <3>1, BlkFails DEF BlkFlags, BlkSets
    <3>3. target' \in Blk!Index /\ newUsed' \in Blk!Index
      BY <3>1, BlkNothing
    <3>4. BlkContents'
      BY <2>7, <3>1, BlkNothing DEF BlkContents, Blk!ForgetSlots
    <3> QED BY <2>2, <3>1, <3>2, <3>3, <3>4, BlkFails, BlkKept
  <2> QED BY <2>8, <2>9
<1>11. ASSUME NEW noint \in BOOLEAN, Blk!Publish(noint) PROVE BlkInv'
  <2>1. /\ UNCHANGED <<avail, num, lastAvail, availAt, usedAt, ready>>
        /\ UNCHANGED <<status, capacity, stream, disk, fault, orphan>>
        /\ batch /\ lastAvail = target /\ used' = newUsed /\ over' = FALSE /\ Blk!ForgetSlots
        /\ batch' = FALSE /\ target' = 0 /\ newUsed' = 0
        /\ isr' = IF noint THEN isr ELSE isr \cup {"USED"}
    BY <1>11 DEF Blk!Publish, Blk!LeaveLoop
  <2>2. line' \in BOOLEAN /\ (line' <=> (line \/ ~noint))
    BY <1>11, Zenon DEF Blk!Publish
  <2>3. ready /\ availAt # "none" /\ target = avail /\ newUsed = lastAvail
    BY <2>1 DEF BlkInv, BlkBatch
  <2>4. isr' \subseteq {"USED", "CONFIG"}
    BY <1>1, <2>1 DEF BlkSets
  <2>5. BlkIndices' /\ BlkFlags' /\ BlkSets'
    BY <1>1, <2>1, <2>2, <2>4, BlkNothing DEF BlkIndices, BlkFlags, BlkSets
  <2>6. BlkContents'
    BY <1>1, <2>1, BlkNothing DEF BlkContents, Blk!ForgetSlots
  <2>7. BlkRings'
    <3>1. Blk!Ahead(avail', lastAvail') = 0 /\ Blk!Ahead(lastAvail', used') = 0
      BY <2>1, <2>3, <2>5, AheadFacts DEF BlkIndices
    <3> QED BY <1>3, <2>1, <2>3, <3>1 DEF BlkRings
  <2>8. BlkBatch' /\ Blk!PartialBatchNeedsReset' /\ num' \in QueueSizes
    BY <1>3, <2>1, <2>3 DEF BlkBatch, Blk!PartialBatchNeedsReset
  <2>9. Blk!NeedsResetForAFault'
    BY <1>2, <2>1, Zenon DEF Blk!NeedsResetForAFault
  <2>10. line' <=> (isr' # {} \/ orphan')
    <3>1. CASE noint
      BY <1>2, <2>1, <2>2, <3>1
    <3>2. CASE ~noint
      BY <2>1, <2>2, <3>2
    <3> QED BY <3>1, <3>2
  <2>11. Blk!LineHasCause'
    BY <2>10, Zenon DEF Blk!LineHasCause
  <2> QED BY <2>5, <2>6, <2>7, <2>8, <2>9, <2>11 DEF BlkInv
<1> QED BY <1>6, <1>7, <1>8, <1>9, <1>10, <1>11, BlkQuiet, BlkSetUp DEF Blk!Next, Blk!Driver

\* Functions on intervals as sequences.
LEMMA SeqGrows ==
    ASSUME NEW S, NEW n \in Nat, NEW f \in [1 .. n -> S], NEW g \in [1 .. n + 1 -> S],
           \A k \in 1 .. n : g[k] = f[k]
    PROVE  /\ Len(g) = Len(f) + 1 /\ SubSeq(g, 1, Len(f)) = f /\ g[Len(g)] = g[n + 1]
<1>1. f \in Seq(S) /\ Len(f) = n /\ g \in Seq(S) /\ Len(g) = n + 1
  OBVIOUS
<1>2. /\ SubSeq(g, 1, n) \in Seq(S) /\ Len(SubSeq(g, 1, n)) = n
      /\ \A k \in 1 .. n : SubSeq(g, 1, n)[k] = g[k]
  BY <1>1
<1>3. SubSeq(g, 1, n) = f
  BY <1>1, <1>2
<1> QED BY <1>1, <1>3

LEMMA SeqShrinks ==
    ASSUME NEW S, NEW n \in Nat, NEW f \in [1 .. n + 1 -> S], NEW g \in [1 .. n -> S],
           \A k \in 1 .. n : g[k] = f[k + 1]
    PROVE  g = Tail(f) /\ f # <<>> /\ Head(f) = f[1]
<1>1. f \in Seq(S) /\ Len(f) = n + 1 /\ g \in Seq(S) /\ Len(g) = n
  OBVIOUS
<1>2. f # <<>> /\ Head(f) = f[1]
  BY <1>1
<1>3. Tail(f) \in Seq(S) /\ Len(Tail(f)) = n /\ \A k \in 1 .. n : Tail(f)[k] = f[k + 1]
  BY <1>1, <1>2
<1> QED BY <1>1, <1>2, <1>3

BlkOn == Blk!Mode = "on"

\* What the mapping makes of the rings.
BlkMapped ==
    /\ ~BlkOn => Blk!Todo = <<>> /\ Blk!Done = <<>>
    /\ BlkOn =>
         /\ Blk!Todo = [k \in 1 .. Blk!Ahead(avail, lastAvail) |-> ring[At(num, lastAvail, k)]]
         /\ Blk!Done = [k \in 1 .. Blk!Ahead(lastAvail, used) |-> usedRing[At(num, used, k)]]
         /\ Blk!Todo \in [1 .. Blk!Ahead(avail, lastAvail) -> Requests \cup {Blk!Blank}]
         /\ Blk!Done \in [1 .. Blk!Ahead(lastAvail, used) -> Blk!AnswerSet]

LEMMA BlkMaps == BlkInv => BlkMapped
<1> SUFFICES ASSUME BlkInv PROVE BlkMapped
  OBVIOUS
<1>1. ~BlkOn => Blk!Todo = <<>> /\ Blk!Done = <<>>
  BY DEF BlkOn, Blk!Todo, Blk!Done
<1>2. ASSUME BlkOn
      PROVE  /\ Blk!Todo = [k \in 1 .. Blk!Ahead(avail, lastAvail) |-> ring[At(num, lastAvail, k)]]
             /\ Blk!Done = [k \in 1 .. Blk!Ahead(lastAvail, used) |-> usedRing[At(num, used, k)]]
  BY <1>2 DEF BlkOn, Blk!Todo, Blk!Done, At
<1>3. ASSUME BlkOn
      PROVE  /\ \A k \in Nat \ {0} : ring[At(num, lastAvail, k)] \in Requests \cup {Blk!Blank}
             /\ \A k \in Nat \ {0} : usedRing[At(num, used, k)] \in Blk!AnswerSet
  <2>1. num \in QueueSizes /\ lastAvail \in Blk!Index /\ used \in Blk!Index
    BY <1>3 DEF BlkInv, BlkIndices, BlkOn, Blk!Mode
  <2>2. \A k \in Nat \ {0} : At(num, lastAvail, k) \in Blk!Slot /\ At(num, used, k) \in Blk!Slot
    BY <2>1, SlotFacts
  <2> QED BY <2>2 DEF BlkInv, BlkContents
<1>4. Blk!Ahead(avail, lastAvail) \in Nat /\ Blk!Ahead(lastAvail, used) \in Nat
  BY AheadFacts DEF BlkInv, BlkIndices
<1> QED BY <1>1, <1>2, <1>3, <1>4 DEF BlkMapped

\* What the queue is doing, by cases.
LEMMA BlkModes ==
    ASSUME BlkInv
    PROVE  /\ Blk!Mode = "off" <=> ~ready \/ availAt = "none"
           /\ Blk!Mode = "broken" <=> ready /\ availAt # "none" /\ "NEEDS_RESET" \in status
           /\ BlkOn <=> ready /\ availAt # "none" /\ "NEEDS_RESET" \notin status /\ ~over
           /\ Blk!Mode = "astray" <=> over /\ "NEEDS_RESET" \notin status /\ batch
           /\ Blk!Mode = "overrun" <=>
                 over /\ "NEEDS_RESET" \notin status /\ ~batch /\ avail > lastAvail + num
           /\ Blk!Mode = "missed" <=>
                 over /\ "NEEDS_RESET" \notin status /\ ~batch /\ ~(avail > lastAvail + num)
           /\ Blk!Mode \in {"off", "broken", "on", "astray", "overrun", "missed"}
<1>1. over => ready /\ availAt # "none"
  BY DEF BlkInv, BlkRings
<1> QED BY <1>1 DEF Blk!Mode, BlkOn

\* Every step of the device and its driver is a step of the queue, or none.
LEMMA BlkRefines ==
    ASSUME BlkInv, BlkInv', BlkMapped, BlkMapped', Blk!Next
    PROVE  [Blk!Promise!BQNext]_(Blk!Promise!bqvars)
<1> USE DEF Blk!memory, Blk!queue, Blk!irq, Blk!host, Blk!local
<1>m. /\ Blk!Mode' = "off" <=> ~ready' \/ availAt' = "none"
      /\ Blk!Mode' = "broken" <=> ready' /\ availAt' # "none" /\ "NEEDS_RESET" \in status'
      /\ BlkOn' <=> ready' /\ availAt' # "none" /\ "NEEDS_RESET" \notin status' /\ ~over'
      /\ Blk!Mode' = "astray" <=> over' /\ "NEEDS_RESET" \notin status' /\ batch'
      /\ Blk!Mode' = "overrun" <=>
            over' /\ "NEEDS_RESET" \notin status' /\ ~batch' /\ avail' > lastAvail' + num'
      /\ Blk!Mode' = "missed" <=>
            over' /\ "NEEDS_RESET" \notin status' /\ ~batch' /\ ~(avail' > lastAvail' + num')
      /\ Blk!Mode' \in {"off", "broken", "on", "astray", "overrun", "missed"}
  <2>1. over' => ready' /\ availAt' # "none"
    BY DEF BlkInv, BlkRings
  <2> QED BY <2>1 DEF Blk!Mode, BlkOn
<1>v. over => ready /\ availAt # "none"
  BY DEF BlkInv, BlkRings
<1>s. ASSUME UNCHANGED <<disk, Blk!Todo, Blk!Done, Blk!Mode>>
      PROVE  [Blk!Promise!BQNext]_(Blk!Promise!bqvars)
  BY <1>s DEF Blk!Promise!bqvars
<1>o. ASSUME ~BlkOn, UNCHANGED <<Blk!Mode, disk>>
      PROVE  [Blk!Promise!BQNext]_(Blk!Promise!bqvars)
  <2>1. ~BlkOn'
    BY <1>o DEF BlkOn
  <2>2. UNCHANGED <<Blk!Todo, Blk!Done>>
    BY <1>o, <2>1 DEF BlkMapped
  <2> QED BY <1>o, <1>s, <2>2
<1>b. ASSUME BlkOn, Blk!Mode' = "broken",
             \/ disk' = disk
             \/ /\ Blk!Todo # <<>> /\ Head(Blk!Todo).type = "OUT"
                /\ \E b \in Blk!Promise!Hit(Head(Blk!Todo)) :
                       disk' = [disk EXCEPT ![b] = Head(Blk!Todo).data]
      PROVE  Blk!Promise!BQNext
  <2>1. Blk!Todo' = <<>> /\ Blk!Done' = <<>>
    BY <1>b DEF BlkMapped, BlkOn
  <2>2. Blk!Promise!Break
    BY <1>b, <2>1 DEF Blk!Promise!Break, BlkOn
  <2> QED BY <2>2 DEF Blk!Promise!BQNext
<1>w. ASSUME Blk!Mode # Blk!Mode', Blk!Mode = "off" \/ Blk!Mode' = "off",
             Blk!Mode' \in {"off", "on", "broken"},
             Blk!Todo' = <<>>, Blk!Done' = <<>>, UNCHANGED disk
      PROVE  Blk!Promise!BQNext
  <2>1. Blk!Promise!Switch
    BY <1>w DEF Blk!Promise!Switch
  <2> QED BY <2>1 DEF Blk!Promise!BQNext
<1>a. ASSUME \/ /\ Blk!Mode = "overrun" /\ Blk!Mode' \in {"overrun", "missed", "broken"}
                /\ UNCHANGED disk
             \/ /\ Blk!Mode = "missed" /\ Blk!Mode' \in {"overrun", "missed", "astray", "broken"}
                /\ UNCHANGED disk
             \/ /\ Blk!Mode = "astray" /\ Blk!Mode' \in {"astray", "broken", "on"}
                /\ Blk!Mode' = "on" => Blk!Todo' = <<>> /\ Blk!Done' = <<>>
                /\ \/ UNCHANGED disk
                   \/ \E b \in DOMAIN disk, x \in Blk!Contents : disk' = [disk EXCEPT ![b] = x]
      PROVE  Blk!Promise!BQNext
  <2>1. Blk!Todo = <<>> /\ Blk!Done = <<>>
    BY <1>a DEF BlkMapped, BlkOn
  <2>2. Blk!Todo' = <<>> /\ Blk!Done' = <<>>
    BY <1>a DEF BlkMapped, BlkOn
  <2>3. Blk!Promise!AfterFlood
    BY <1>a, <2>1, <2>2 DEF Blk!Promise!AfterFlood
  <2> QED BY <2>3 DEF Blk!Promise!BQNext
<1>1. CASE \/ Blk!WriteStatus
           \/ \E S \in SUBSET {"USED", "CONFIG"} : Blk!InterruptACK(S)
           \/ \E c \in Capacities : Blk!WriteCapacity(c)
  <2>1. /\ UNCHANGED <<avail, ring, used, usedRing, num, ready, lastAvail, availAt, batch, over, disk>>
        /\ "NEEDS_RESET" \in status' <=> "NEEDS_RESET" \in status
    BY <1>1 DEF Blk!WriteStatus, Blk!InterruptACK, Blk!WriteCapacity
  <2>2. UNCHANGED Blk!Mode
    BY <2>1 DEF Blk!Mode
  <2>3. UNCHANGED <<Blk!Todo, Blk!Done>>
    BY <2>1, <2>2 DEF Blk!Todo, Blk!Done
  <2> QED BY <1>s, <2>1, <2>2, <2>3
<1>2. CASE Blk!BadStore \/ Blk!NotifyFails \/ Blk!RefuseOne
  <2>1. UNCHANGED <<ready, availAt, disk>> /\ Blk!SetFail
    BY <1>2 DEF Blk!BadStore, Blk!NotifyFails, Blk!RefuseOne
  <2>2. "NEEDS_RESET" \in status'
    BY <2>1, BlkFails
  <2>3. CASE Blk!Mode = "off"
    <3>1. Blk!Mode' = "off"
      BY <1>m, <2>1, <2>3, BlkModes
    <3> QED BY <1>o, <2>1, <2>3, <3>1 DEF BlkOn
  <2>4. CASE Blk!Mode # "off"
    <3>1. Blk!Mode' = "broken"
      BY <1>m, <2>1, <2>2, <2>4, BlkModes
    <3>2. CASE Blk!Mode = "broken"
      BY <1>o, <2>1, <3>1, <3>2 DEF BlkOn
    <3>3. CASE BlkOn
      BY <1>b, <2>1, <3>1, <3>3
    <3>4. CASE Blk!Mode \in {"overrun", "missed", "astray"}
      BY <1>a, <2>1, <3>1, <3>4
    <3> QED BY <2>4, <3>2, <3>3, <3>4, BlkModes DEF BlkOn
  <2> QED BY <2>3, <2>4
<1>3. CASE Blk!Notify
  <2>1. /\ UNCHANGED <<avail, ring, used, usedRing, num, ready, lastAvail, availAt, status, over, disk>>
        /\ "NEEDS_RESET" \notin status /\ ~batch /\ batch' = TRUE /\ ~Blk!Unusable
    BY <1>3 DEF Blk!Notify
  <2>2. ready /\ availAt # "none" /\ ~(avail - lastAvail > num)
    BY <2>1 DEF Blk!Unusable, Blk!TooMany
  <2>3. CASE over
    <3>1. num \in Nat /\ avail \in Nat /\ lastAvail \in Nat
      BY <2>2, SizeFacts, BlkConstants DEF BlkInv, BlkIndices, Blk!Index
    <3>2. ~(avail > lastAvail + num)
      BY <2>2, <3>1
    <3>3. Blk!Mode = "missed"
      BY <2>1, <2>3, <3>2, BlkModes
    <3>4. Blk!Mode' = "astray"
      BY <1>m, <2>1, <2>3
    <3> QED BY <1>a, <2>1, <3>3, <3>4
  <2>4. CASE ~over
    <3>1. Blk!Mode = "on" /\ Blk!Mode' = "on"
      BY <1>m, <2>1, <2>2, <2>4, BlkModes DEF BlkOn
    <3>2. UNCHANGED <<Blk!Todo, Blk!Done>>
      BY <2>1, <3>1 DEF Blk!Todo, Blk!Done
    <3> QED BY <1>s, <2>1, <3>1, <3>2
  <2> QED BY <2>3, <2>4
<1>4. CASE \/ \E n \in QueueSizes : Blk!WriteQueueNum(n)
           \/ \E a \in Blk!Place : Blk!WriteQueueAddr(a, "all") \/ Blk!WriteQueueAddr("all", a)
           \/ \E i \in {0, IndexMod - 1} : Blk!InitRings(i)
  <2>1. ~ready /\ ready' = ready /\ disk' = disk
    BY <1>4 DEF Blk!WriteQueueNum, Blk!WriteQueueAddr, Blk!InitRings
  <2>2. Blk!Mode = "off" /\ Blk!Mode' = "off"
    BY <1>m, <2>1, BlkModes
  <2> QED BY <1>o, <2>1, <2>2 DEF BlkOn
<1>5. CASE Blk!WriteQueueNotReady \/ Blk!Reset
  <2>1. ready' = FALSE /\ disk' = disk
    BY <1>5 DEF Blk!WriteQueueNotReady, Blk!Reset
  <2>2. Blk!Mode' = "off"
    BY <1>m, <2>1
  <2>3. Blk!Todo' = <<>> /\ Blk!Done' = <<>>
    BY <2>2 DEF BlkMapped, BlkOn
  <2>4. CASE Blk!Mode = "off"
    BY <1>o, <2>1, <2>2, <2>4 DEF BlkOn
  <2> QED BY <1>w, <2>1, <2>2, <2>3, <2>4
<1>6. CASE Blk!WriteQueueReady
  <2>1. /\ ~ready /\ ready' = TRUE /\ disk' = disk /\ avail' = avail /\ used' = used /\ avail = used
        /\ availAt' = availAt /\ lastAvail' = IF availAt = "none" THEN lastAvail ELSE avail
        /\ over' = over
    BY <1>6 DEF Blk!WriteQueueReady
  <2>2. Blk!Mode = "off" /\ ~over'
    BY <1>v, <2>1, BlkModes
  <2>3. Blk!Mode' \in {"off", "on", "broken"}
    BY <1>m, <2>2
  <2>4. CASE Blk!Mode' = "off"
    BY <1>o, <2>1, <2>2, <2>4 DEF BlkOn
  <2>5. CASE Blk!Mode' = "broken"
    <3>1. Blk!Todo' = <<>> /\ Blk!Done' = <<>>
      BY <2>5 DEF BlkMapped, BlkOn
    <3> QED BY <1>w, <2>1, <2>2, <2>5, <3>1
  <2>6. CASE BlkOn'
    <3>1. avail \in Blk!Index /\ avail' = avail /\ lastAvail' = avail /\ used' = avail
      BY <1>m, <2>1, <2>6 DEF BlkInv, BlkIndices
    <3>2. Blk!Ahead(avail', lastAvail') = 0 /\ Blk!Ahead(lastAvail', used') = 0
      BY <3>1, AheadFacts
    <3>3. Blk!Todo' = <<>> /\ Blk!Done' = <<>>
      BY <2>6, <3>2 DEF BlkMapped
    <3> QED BY <1>w, <2>1, <2>2, <2>6, <3>3 DEF BlkOn
  <2> QED BY <2>3, <2>4, <2>5, <2>6 DEF BlkOn
\* Posting where a slot has been overwritten already.
<1>q. ASSUME over, over', UNCHANGED <<status, batch, disk>>, ~batch, "NEEDS_RESET" \notin status
      PROVE  Blk!Promise!BQNext
  <2>1. Blk!Mode \in {"overrun", "missed"}
    BY <1>q, BlkModes
  <2>2. Blk!Mode' \in {"overrun", "missed"}
    BY <1>m, <1>q
  <2> QED BY <1>a, <1>q, <2>1, <2>2
<1>p. ASSUME BlkOn, UNCHANGED <<usedRing, used, lastAvail, num, ready, availAt, status, over, disk>>,
             Blk!Ahead(avail', lastAvail) = Blk!Ahead(avail, lastAvail) + 1,
             \A k \in 1 .. Blk!Ahead(avail, lastAvail) :
                 ring'[At(num, lastAvail, k)] = ring[At(num, lastAvail, k)]
      PROVE  Blk!Promise!BQNext
  <2>1. BlkOn' /\ Blk!Mode = "on" /\ Blk!Mode' = "on"
    BY <1>m, <1>p, BlkModes DEF BlkOn
  <2>2. Blk!Done' = Blk!Done
    BY <1>p, <2>1 DEF Blk!Done
  <2>3. PICK n \in Nat : n = Blk!Ahead(avail, lastAvail)
    BY AheadFacts DEF BlkInv, BlkIndices
  <2>5. PICK S : S = Requests \cup {Blk!Blank}
    OBVIOUS
  <2>6. Blk!Todo \in [1 .. n -> S] /\ Blk!Todo = [k \in 1 .. n |-> ring[At(num, lastAvail, k)]]
    BY <1>p, <2>3, <2>5 DEF BlkMapped
  <2>7. /\ Blk!Todo' \in [1 .. n + 1 -> S]
        /\ Blk!Todo' = [k \in 1 .. n + 1 |-> ring'[At(num, lastAvail, k)]]
    BY <1>p, <2>1, <2>3, <2>5 DEF BlkMapped
  <2>8. \A k \in 1 .. n : Blk!Todo'[k] = Blk!Todo[k]
    <3> TAKE k \in 1 .. n
    <3>1. k \in 1 .. n + 1
      OBVIOUS
    <3>2. Blk!Todo[k] = ring[At(num, lastAvail, k)]
      BY <2>6
    <3>3. Blk!Todo'[k] = ring'[At(num, lastAvail, k)]
      BY <2>7, <3>1
    <3> QED BY <1>p, <2>3, <3>2, <3>3
  <2>9. Len(Blk!Todo') = Len(Blk!Todo) + 1 /\ SubSeq(Blk!Todo', 1, Len(Blk!Todo)) = Blk!Todo
    <3>1. PICK f \in [1 .. n -> S] : f = Blk!Todo
      BY <2>6
    <3>2. PICK g \in [1 .. n + 1 -> S] : g = Blk!Todo'
      BY <2>7
    <3>3. \A k \in 1 .. n : g[k] = f[k]
      BY <2>8, <3>1, <3>2
    <3>4. Len(g) = Len(f) + 1 /\ SubSeq(g, 1, Len(f)) = f
      BY ONLY <3>3, SeqGrows, n \in Nat, f \in [1 .. n -> S], g \in [1 .. n + 1 -> S]
    <3> QED BY <3>1, <3>2, <3>4
  <2>10. Blk!Promise!Post
    BY <1>p, <2>1, <2>2, <2>9 DEF Blk!Promise!Post
  <2> QED BY <2>10 DEF Blk!Promise!BQNext
<1>7. ASSUME NEW r \in Requests, Blk!PostRequest(r)
      PROVE  [Blk!Promise!BQNext]_(Blk!Promise!bqvars)
  <2>1. /\ UNCHANGED <<usedRing, used, lastAvail, num, ready, availAt, status, over, batch, disk>>
        /\ ready /\ ~batch /\ "NEEDS_RESET" \notin status /\ Blk!Ahead(avail, used) < num
        /\ ring' = [ring EXCEPT ![avail % num] = r] /\ avail' = (avail + 1) % IndexMod
    BY <1>7 DEF Blk!PostRequest
  <2>2. CASE availAt = "none"
    <3>1. Blk!Mode = "off" /\ Blk!Mode' = "off"
      BY <1>m, <2>1, <2>2, BlkModes
    <3> QED BY <1>o, <2>1, <3>1 DEF BlkOn
  <2>3. CASE over
    BY <1>q, <2>1, <2>3
  <2>4. CASE availAt # "none" /\ ~over
    <3>0. BlkOn
      BY <2>1, <2>4, BlkModes
    <3>1. availAt # "none" /\ num \in QueueSizes /\ BlkIndices
      BY <2>1, <2>4 DEF BlkInv
    <3>2. /\ Blk!Ahead(avail', lastAvail) = Blk!Ahead(avail, lastAvail) + 1
          /\ Blk!Ahead(avail, lastAvail) + Blk!Ahead(lastAvail, used) < num
      BY <2>1, <2>4, <3>1, RoomLeft
    <3>3. PICK n \in Nat : n = Blk!Ahead(avail, lastAvail) /\ n < num /\ n + 1 \in Nat \ {0}
      <4>1. Blk!Ahead(avail, lastAvail) \in Nat /\ Blk!Ahead(lastAvail, used) \in Nat /\ num \in Nat
        BY <3>1, AheadFacts, SizeFacts DEF BlkIndices
      <4> QED BY <3>2, <4>1
    <3>4. At(num, lastAvail, n + 1) = avail % num
      BY <3>1, <3>3, SlotEnds DEF BlkIndices
    <3>5. ASSUME NEW k \in 1 .. n
          PROVE  ring'[At(num, lastAvail, k)] = ring[At(num, lastAvail, k)]
      <4>1. k \in Nat \ {0} /\ k < n + 1 /\ n + 1 - k < num
        BY <3>1, <3>3, SizeFacts
      <4>2. At(num, lastAvail, k) # At(num, lastAvail, n + 1)
        BY <3>1, <3>3, <4>1, SlotsDiffer DEF BlkIndices
      <4>3. At(num, lastAvail, k) \in Blk!Slot
        BY <3>1, <4>1, SlotFacts DEF BlkIndices
      <4> QED BY <2>1, <3>4, <4>2, <4>3 DEF BlkInv, BlkContents
    <3> QED BY <1>p, <2>1, <3>0, <3>2, <3>3, <3>5
  <2> QED BY <2>2, <2>3, <2>4
<1>8. ASSUME NEW r \in Requests, Blk!OverPost(r)
      PROVE  Blk!Promise!BQNext
  <2>1. /\ UNCHANGED <<used, lastAvail, num, ready, availAt, status, batch, disk>> /\ over'
        /\ ready /\ ~batch /\ availAt # "none" /\ "NEEDS_RESET" \notin status
        /\ Blk!Ahead(avail, used) >= num
    BY <1>8 DEF Blk!OverPost
  <2>2. CASE over
    BY <1>q, <2>1, <2>2
  <2>3. CASE ~over
    <3>1. BlkOn /\ Blk!Mode = "on"
      BY <2>1, <2>3, BlkModes DEF BlkOn
    <3>2. Blk!Mode' \in {"overrun", "missed"}
      BY <1>m, <2>1
    <3>3. Blk!Todo' = <<>> /\ Blk!Done' = <<>>
      BY <3>2 DEF BlkMapped, BlkOn
    <3>4. num \in QueueSizes /\ num \in Nat /\ num < IndexMod /\ IndexMod \in Nat /\ BlkIndices
      BY <2>1, SizeFacts, BlkConstants DEF BlkInv
    <3>5. PICK n \in Nat : n = Blk!Ahead(avail, lastAvail)
      BY <3>4, AheadFacts DEF BlkIndices
    <3>6. PICK l \in Nat : l = Blk!Ahead(lastAvail, used)
      BY <3>4, AheadFacts DEF BlkIndices
    <3>7. n + l <= num
      BY <2>1, <2>3, <3>5, <3>6 DEF BlkInv, BlkRings
    <3>8. Blk!Ahead(avail, lastAvail) + Blk!Ahead(lastAvail, used) < IndexMod
      BY <3>4, <3>5, <3>6, <3>7
    <3>9. n + l >= num
      BY <2>1, <3>4, <3>5, <3>6, <3>8, AheadAdds DEF BlkIndices
    <3>10. Len(Blk!Todo) = n /\ Len(Blk!Done) = l
      <4>1. PICK S : S = Requests \cup {Blk!Blank}
        OBVIOUS
      <4>2. Blk!Todo \in [1 .. n -> S] /\ Blk!Done \in [1 .. l -> Blk!AnswerSet]
        BY <3>1, <3>5, <3>6, <4>1 DEF BlkMapped
      <4> QED BY <3>5, <3>6, <4>2
    <3>11. Blk!Promise!Flood
      BY <2>1, <3>1, <3>2, <3>3, <3>9, <3>10 DEF Blk!Promise!Flood
    <3> QED BY <3>11 DEF Blk!Promise!BQNext
  <2> QED BY <2>2, <2>3
<1>9. ASSUME NEW noint \in BOOLEAN, Blk!Publish(noint)
      PROVE  [Blk!Promise!BQNext]_(Blk!Promise!bqvars)
  <2>1. /\ UNCHANGED <<avail, num, ready, lastAvail, availAt, status, disk>>
        /\ batch /\ lastAvail = target /\ used' = newUsed /\ over' = FALSE
    BY <1>9 DEF Blk!Publish
  <2>2. /\ ready /\ availAt # "none" /\ "NEEDS_RESET" \notin status /\ target = avail
        /\ newUsed = lastAvail /\ lastAvail \in Blk!Index
    BY <2>1 DEF BlkInv, BlkBatch, BlkIndices
  <2>3. BlkOn' /\ Blk!Mode' = "on"
    BY <1>m, <2>1, <2>2 DEF BlkOn
  <2>4. /\ Blk!Ahead(lastAvail', used') = 0 /\ Blk!Ahead(avail', lastAvail') = 0
        /\ Blk!Ahead(avail, lastAvail) = 0
    BY <2>1, <2>2, AheadFacts
  <2>5. Blk!Done' = <<>> /\ Blk!Todo' = <<>>
    BY <2>3, <2>4 DEF BlkMapped
  <2>6. CASE over
    <3>1. Blk!Mode = "astray"
      BY <2>1, <2>2, <2>6, BlkModes
    <3> QED BY <1>a, <2>1, <2>3, <2>5, <3>1
  <2>7. CASE ~over
    <3>1. BlkOn /\ Blk!Mode = "on"
      BY <2>2, <2>7, BlkModes DEF BlkOn
    <3>2. Blk!Todo = <<>>
      BY <2>4, <3>1 DEF BlkMapped
    <3>3. CASE Blk!Done # <<>>
      <4>1. Blk!Promise!HandOver
        BY <2>1, <2>3, <2>5, <3>1, <3>2, <3>3 DEF Blk!Promise!HandOver
      <4> QED BY <4>1 DEF Blk!Promise!BQNext
    <3>4. CASE Blk!Done = <<>>
      BY <1>s, <2>1, <2>3, <2>5, <3>1, <3>2, <3>4
    <3> QED BY <3>3, <3>4
  <2> QED BY <2>6, <2>7
<1>10. ASSUME NEW works \in BOOLEAN, Blk!ServeOne(works)
       PROVE  Blk!Promise!BQNext
  <2>1. PICK r : r = ring[lastAvail % num]
    OBVIOUS
  <2>2. /\ batch /\ lastAvail # target /\ disk' = Blk!DiskAfter(r, works)
        /\ UNCHANGED <<avail, used, num, ready, availAt, usedAt, over>>
    BY <1>10, <2>1 DEF Blk!ServeOne
  <2>3. /\ ready /\ availAt # "none" /\ "NEEDS_RESET" \notin status /\ newUsed = lastAvail /\ BlkIndices
        /\ num \in QueueSizes /\ num \in Nat
    BY <2>2, SizeFacts DEF BlkInv, BlkBatch
  <2>4. PICK S : S = Requests \cup {Blk!Blank}
    OBVIOUS
  <2>5. At(num, lastAvail, 1) = lastAvail % num /\ At(num, lastAvail, 1) \in Blk!Slot
    BY <2>3, SlotFacts DEF BlkIndices
  <2>6. r \in S
    BY <2>1, <2>4, <2>5 DEF BlkInv, BlkContents
  <2>7. /\ Blk!Promise!Served(r, disk', Blk!AnswerTo(r, works))
        /\ \/ disk' = disk
           \/ /\ r.type = "OUT" /\ r.data \in Blk!Contents
              /\ \E b \in Blk!Promise!Hit(r) : b \in DOMAIN disk /\ disk' = [disk EXCEPT ![b] = r.data]
    BY <2>2, <2>4, <2>6, BlkServed
  <2>8. usedAt # "all" => Blk!Mode' = "broken"
    <3> SUFFICES ASSUME usedAt # "all" PROVE Blk!Mode' = "broken"
      OBVIOUS
    <3>1. Blk!SetFail
      BY <1>10 DEF Blk!ServeOne
    <3>2. "NEEDS_RESET" \in status'
      BY <3>1, BlkFails
    <3> QED BY <1>m, <2>2, <2>3, <3>2
  <2>9. usedAt = "all" => status' = status /\ batch' = batch
    BY <1>10 DEF Blk!ServeOne
  <2>10. CASE over
    <3>1. Blk!Mode = "astray"
      BY <2>2, <2>3, <2>10, BlkModes
    <3>2. Blk!Mode' \in {"astray", "broken"}
      BY <1>m, <2>2, <2>3, <2>8, <2>9, <2>10
    <3>3. disk' = disk \/ \E b \in DOMAIN disk, x \in Blk!Contents : disk' = [disk EXCEPT ![b] = x]
      BY <2>7
    <3> QED BY <1>a, <3>1, <3>2, <3>3
  <2>11. SUFFICES ASSUME ~over PROVE Blk!Promise!BQNext
    BY <2>10
  <2>12. BlkOn /\ Blk!Mode = "on"
    BY <2>3, <2>11, BlkModes DEF BlkOn
  <2>13. /\ Blk!Ahead(avail, lastAvail) \in Nat /\ Blk!Ahead(avail, lastAvail) # 0
         /\ Blk!Ahead(lastAvail, used) \in Nat
         /\ Blk!Ahead(avail, lastAvail) + Blk!Ahead(lastAvail, used) <= num
    BY <2>2, <2>3, <2>11, AheadFacts, OneWaits DEF BlkIndices
  <2>14. PICK n \in Nat : Blk!Ahead(avail, lastAvail) = n + 1
    BY <2>13
  <2>15. PICK l \in Nat : l = Blk!Ahead(lastAvail, used) /\ l < num /\ n < num
    BY <2>3, <2>13, <2>14
  <2>16. /\ Blk!Todo \in [1 .. n + 1 -> S]
         /\ Blk!Todo = [k \in 1 .. n + 1 |-> ring[At(num, lastAvail, k)]]
    BY <2>4, <2>12, <2>14 DEF BlkMapped
  <2>17. /\ Blk!Done \in [1 .. l -> Blk!AnswerSet]
         /\ Blk!Done = [k \in 1 .. l |-> usedRing[At(num, used, k)]]
    BY <2>12, <2>15 DEF BlkMapped
  <2>18. Blk!Todo # <<>> /\ Head(Blk!Todo) = r
    <3>1. Blk!Todo \in Seq(S) /\ Len(Blk!Todo) = n + 1
      BY <2>16
    <3>2. Blk!Todo[1] = r
      BY <2>1, <2>5, <2>16
    <3> QED BY <3>1, <3>2
  <2>19. CASE usedAt = "all"
    <3>1. /\ lastAvail' = (lastAvail + 1) % IndexMod /\ ring' = ring
          /\ usedRing' = [usedRing EXCEPT ![lastAvail % num] = Blk!AnswerTo(r, works)]
      BY <1>10, <2>1, <2>3, <2>19 DEF Blk!ServeOne
    <3>2. BlkOn' /\ Blk!Mode' = "on"
      BY <1>m, <2>2, <2>3, <2>9, <2>11, <2>19 DEF BlkOn
    <3>3. Blk!Ahead(avail', lastAvail') = n /\ Blk!Ahead(lastAvail', used') = l + 1
      BY <2>2, <2>11, <2>14, <2>15, <3>1, OneWaits
    <3>4. /\ Blk!Todo' \in [1 .. n -> S]
          /\ Blk!Todo' = [k \in 1 .. n |-> ring[At(num, lastAvail', k)]]
      BY <2>2, <2>4, <3>1, <3>2, <3>3 DEF BlkMapped
    <3>5. /\ Blk!Done' \in [1 .. l + 1 -> Blk!AnswerSet]
          /\ Blk!Done' = [k \in 1 .. l + 1 |-> usedRing'[At(num, used, k)]]
      BY <2>2, <3>2, <3>3 DEF BlkMapped
    <3>6. ASSUME NEW k \in 1 .. n PROVE Blk!Todo'[k] = Blk!Todo[k + 1]
      <4>1. k \in Nat \ {0} /\ k + 1 \in 1 .. n + 1
        OBVIOUS
      <4>2. At(num, lastAvail', k) = At(num, lastAvail, k + 1)
        BY <2>3, <3>1, <4>1, SlotMoves DEF BlkIndices
      <4>3. Blk!Todo'[k] = ring[At(num, lastAvail', k)]
        BY <3>4
      <4>4. Blk!Todo[k + 1] = ring[At(num, lastAvail, k + 1)]
        BY <2>16, <4>1
      <4> QED BY <4>2, <4>3, <4>4
    <3>7. At(num, used, l + 1) = lastAvail % num
      BY <2>3, <2>15, SlotEnds DEF BlkIndices
    <3>8. ASSUME NEW k \in 1 .. l PROVE Blk!Done'[k] = Blk!Done[k]
      <4>1. /\ k \in Nat \ {0} /\ l + 1 \in Nat \ {0} /\ k < l + 1
            /\ l + 1 - k < num /\ k \in 1 .. l + 1
        BY <2>3, <2>15
      <4>2. At(num, used, k) # At(num, used, l + 1)
        BY <2>3, <4>1, SlotsDiffer DEF BlkIndices
      <4>3. At(num, used, k) \in Blk!Slot
        BY <2>3, <4>1, SlotFacts DEF BlkIndices
      <4>4. usedRing'[At(num, used, k)] = usedRing[At(num, used, k)]
        BY <3>1, <3>7, <4>2, <4>3 DEF BlkInv, BlkContents
      <4>5. Blk!Done'[k] = usedRing'[At(num, used, k)]
        BY <3>5, <4>1
      <4>6. Blk!Done[k] = usedRing[At(num, used, k)]
        BY <2>17
      <4> QED BY <4>4, <4>5, <4>6
    <3>9. Blk!Done'[l + 1] = Blk!AnswerTo(r, works)
      <4>1. usedRing'[lastAvail % num] = Blk!AnswerTo(r, works)
        BY <2>5, <3>1 DEF BlkInv, BlkContents
      <4>2. Blk!Done'[l + 1] = usedRing'[At(num, used, l + 1)]
        BY <3>5
      <4> QED BY <3>7, <4>1, <4>2
    <3>10. Blk!Todo' = Tail(Blk!Todo)
      BY ONLY <2>16, <3>4, <3>6, SeqShrinks, n \in Nat
    <3>11. /\ Len(Blk!Done') = Len(Blk!Done) + 1 /\ SubSeq(Blk!Done', 1, Len(Blk!Done)) = Blk!Done
           /\ Blk!Done'[Len(Blk!Done')] = Blk!Done'[l + 1]
      BY ONLY <2>17, <3>5, <3>8, SeqGrows, l \in Nat
    <3>12. Blk!Promise!Serve
      BY <2>7, <2>12, <2>18, <3>2, <3>9, <3>10, <3>11 DEF Blk!Promise!Serve
    <3> QED BY <3>12 DEF Blk!Promise!BQNext
  <2>20. CASE usedAt # "all"
    <3>1. \/ disk' = disk
          \/ /\ Head(Blk!Todo).type = "OUT"
             /\ \E b \in Blk!Promise!Hit(Head(Blk!Todo)) :
                    disk' = [disk EXCEPT ![b] = Head(Blk!Todo).data]
      BY <2>7, <2>18
    <3> QED BY <1>b, <2>8, <2>12, <2>18, <2>20, <3>1
  <2> QED BY <2>19, <2>20
<1> QED BY <1>1, <1>2, <1>3, <1>4, <1>5, <1>6, <1>7, <1>8, <1>9, <1>10
        DEF Blk!Next, Blk!Driver

\* The rings of virtio_blk.cpp are a queue for every number of indices, every
\* queue size that divides it, every disk, every set of requests and every set of
\* capacities the guest stores: what the driver posts is served in order, once
\* each and on its own block, and every answer is true, across the wrap of the
\* 16-bit indices and after a batch that failed half way.  While the capacity is 0 or
\* above the wrap of byte offsets, a request for a missing block may hit another
\* one; after a slot was overwritten the device breaks, or serves something until it
\* has caught up.  The device asks for a reset only after a mistake of its driver,
\* answers wait unpublished only where a batch failed, and its line is high exactly
\* while a status bit is set or since a reset.
THEOREM DiskHolds == Spec => KeepsPromise
<1>1. Init => BlkInv
  BY BlkInit DEF Init
<1>2. BlkInv /\ [Next]_vars => BlkInv'
  <2> SUFFICES ASSUME BlkInv, [Next]_vars PROVE BlkInv'
    OBVIOUS
  <2>1. Blk!Next \/ UNCHANGED blkVars
    BY DEF Next, vars
  <2>2. CASE Blk!Next
    BY <2>2, BlkStep
  <2>3. CASE UNCHANGED blkVars
    BY <2>3 DEF blkVars, BlkInv, BlkIndices, BlkFlags, BlkSets, BlkContents, BlkRings,
                BlkBatch, Blk!NeedsResetForAFault, Blk!PartialBatchNeedsReset, Blk!LineHasCause
  <2> QED BY <2>1, <2>2, <2>3
<1>3. BlkInv => BlkMapped
  BY BlkMaps
<1>4. BlkInv /\ BlkMapped /\ BlkInv' /\ BlkMapped' /\ [Next]_vars
        => [Blk!Promise!BQNext]_(Blk!Promise!bqvars)
  <2> SUFFICES ASSUME BlkInv, BlkMapped, BlkInv', BlkMapped', [Next]_vars
               PROVE  [Blk!Promise!BQNext]_(Blk!Promise!bqvars)
    OBVIOUS
  <2>1. Blk!Next \/ UNCHANGED blkVars
    BY DEF Next, vars
  <2>2. CASE Blk!Next
    BY <2>2, BlkRefines
  <2>3. CASE UNCHANGED blkVars
    <3>1. UNCHANGED <<disk, Blk!Mode>>
      BY <2>3 DEF blkVars, Blk!Mode
    <3>2. UNCHANGED <<Blk!Todo, Blk!Done>>
      BY <2>3, <3>1 DEF blkVars, Blk!Todo, Blk!Done
    <3> QED BY <3>1, <3>2 DEF Blk!Promise!bqvars
  <2> QED BY <2>1, <2>2, <2>3
<1>5. Init => Blk!Promise!BQInit
  <2> SUFFICES ASSUME Init PROVE Blk!Promise!BQInit
    OBVIOUS
  <2>1. Blk!Init /\ BlkInv
    BY <1>1 DEF Init
  <2>2. ~ready
    BY <2>1 DEF Blk!Init
  <2>3. disk \in [DOMAIN disk -> Blk!Contents]
    BY <2>1 DEF BlkInv, BlkContents
  <2>4. Blk!Mode = "off"
    BY <2>2 DEF Blk!Mode
  <2> QED BY <2>3, <2>4 DEF Blk!Promise!BQInit, Blk!Todo, Blk!Done
<1>6. BlkInv => (part = "blk" => /\ Blk!TypeOK /\ Blk!NeedsResetForAFault
                                 /\ Blk!PartialBatchNeedsReset /\ Blk!LineHasCause)
  <2> SUFFICES ASSUME BlkInv PROVE Blk!TypeOK
    BY DEF BlkInv
  <2>1. num \in 0 .. MaxNum
    BY SizeFacts, BlkConstants DEF BlkInv, BlkIndices
  <2> QED BY <2>1 DEF BlkInv, BlkIndices, BlkFlags, BlkSets, BlkContents, Blk!TypeOK
<1>7. Spec => [](part = "blk" => /\ Blk!TypeOK /\ Blk!NeedsResetForAFault
                                 /\ Blk!PartialBatchNeedsReset /\ Blk!LineHasCause)
  BY <1>1, <1>2, <1>6, PTL DEF Spec
<1>8. Spec => Blk!Promise!BQSpec
  BY <1>1, <1>2, <1>3, <1>4, <1>5, PTL DEF Spec, Blk!Promise!BQSpec
<1> QED BY <1>7, <1>8 DEF KeepsPromise, Blk!KeepsPromise

-----------------------------------------------------------------------------
(* The arithmetic of the integers.                                         *)

LEMMA IntSplit ==
    ASSUME NEW h \in Nat \ {0}, NEW x \in Int
    PROVE  x = h * (x \div h) + (x % h) /\ x \div h \in Int /\ x % h \in 0 .. h - 1
OBVIOUS

LEMMA IntTimesLess ==
    ASSUME NEW h \in Nat, NEW i \in Int, NEW j \in Int, i < j
    PROVE  h * i + h <= h * j
<1>1. PICK d \in Nat : j = i + 1 + d
  <2>1. j - i - 1 \in Nat /\ j = i + 1 + (j - i - 1)
    OBVIOUS
  <2> QED BY <2>1, Zenon
<1>2. h * j = h * i + h + h * d /\ h * d \in Nat
  BY <1>1
<1> QED BY <1>2

LEMMA IntTimesMono ==
    ASSUME NEW h \in Nat, NEW i \in Int, NEW j \in Int, i <= j
    PROVE  h * i <= h * j
<1>1. PICK d \in Nat : j = i + d
  <2>1. j - i \in Nat /\ j = i + (j - i)
    OBVIOUS
  <2> QED BY <2>1, Zenon
<1>2. h * j = h * i + h * d /\ h * d \in Nat
  BY <1>1
<1> QED BY <1>2

\* Quotient and remainder are what their equation says.
LEMMA IntUnique ==
    ASSUME NEW h \in Nat \ {0}, NEW k \in Int, NEW s \in 0 .. h - 1, NEW x \in Int,
           Splits(x, h, k, s)
    PROVE  x \div h = k /\ x % h = s
<1>1. PICK q \in Int : q = x \div h
  BY IntSplit
<1>2. PICK r \in 0 .. h - 1 : r = x % h
  BY IntSplit
<1>3. h * q + r = h * k + s
  BY <1>1, <1>2, IntSplit DEF Splits
<1>4. PICK u \in Int : u = h * q
  OBVIOUS
<1>5. PICK w \in Int : w = h * k
  OBVIOUS
<1>6. ~(q < k)
  <2> SUFFICES ASSUME q < k PROVE FALSE
    OBVIOUS
  <2>1. h * q + h <= h * k
    BY IntTimesLess
  <2> QED BY ONLY <2>1, <1>3, <1>4, <1>5, h \in Nat \ {0}, r \in 0 .. h - 1, s \in 0 .. h - 1
<1>7. ~(k < q)
  <2> SUFFICES ASSUME k < q PROVE FALSE
    OBVIOUS
  <2>1. h * k + h <= h * q
    BY IntTimesLess
  <2> QED BY ONLY <2>1, <1>3, <1>4, <1>5, h \in Nat \ {0}, r \in 0 .. h - 1, s \in 0 .. h - 1
<1>8. q = k
  BY <1>6, <1>7
<1>9. r = s
  BY ONLY <1>3, <1>8, r \in Int, s \in Int, h * k \in Int
<1> QED BY <1>1, <1>2, <1>8, <1>9, Zenon

\* x and y leave the same remainder by h.
Same(x, y, h) == x % h = y % h

LEMMA SameIf ==
    ASSUME NEW h \in Nat \ {0}, NEW x \in Int, NEW y \in Int, NEW k \in Int, x = y + h * k
    PROVE  Same(x, y, h)
<1>1. PICK q \in Int : q = y \div h
  BY IntSplit
<1>2. PICK r \in 0 .. h - 1 : r = y % h
  BY IntSplit
<1>3. y = h * q + r
  BY <1>1, <1>2, IntSplit
<1>4. q + k \in Int /\ h * (q + k) = h * q + h * k
  OBVIOUS
<1>5. x = h * (q + k) + r
  BY <1>3, <1>4
<1>6. Splits(x, h, q + k, r)
  BY <1>5 DEF Splits
<1>7. x % h = r
  BY <1>4, <1>6, IntUnique, Zenon
<1> QED BY <1>2, <1>7, Zenon DEF Same

LEMMA SameMeans ==
    ASSUME NEW h \in Nat \ {0}, NEW x \in Int, NEW y \in Int, Same(x, y, h)
    PROVE  \E k \in Int : x = y + h * k
<1>1. PICK q \in Int : q = x \div h
  BY IntSplit
<1>2. PICK p \in Int : p = y \div h
  BY IntSplit
<1>3. PICK r \in Int : r = x % h /\ r = y % h
  BY IntSplit DEF Same
<1>4. x = h * q + r /\ y = h * p + r
  BY <1>1, <1>2, <1>3, IntSplit
<1>5. q - p \in Int /\ h * (q - p) = h * q - h * p
  OBVIOUS
<1>6. x = y + h * (q - p)
  BY <1>4, <1>5
<1> QED BY <1>5, <1>6, Zenon

LEMMA SameMod ==
    ASSUME NEW h \in Nat \ {0}, NEW x \in Int
    PROVE  x % h \in Int /\ Same(x % h, x, h)
<1>1. PICK q \in Int : q = x \div h
  BY IntSplit
<1>2. PICK r \in 0 .. h - 1 : r = x % h
  BY IntSplit
<1>3. x = h * q + r
  BY <1>1, <1>2, IntSplit
<1>4. -q \in Int /\ r = x + h * (-q) /\ r \in Int
  BY <1>3
<1>5. Same(r, x, h)
  BY <1>4, SameIf, Zenon
<1> QED BY <1>2, <1>4, <1>5, Zenon

LEMMA SameSmall ==
    ASSUME NEW h \in Nat \ {0}, NEW x \in Int, NEW s \in 0 .. h - 1, Same(x, s, h)
    PROVE  x % h = s
<1>1. s \in Int /\ Splits(s, h, 0, s) /\ 0 \in Int
  BY DEF Splits
<1>2. s % h = s
  BY <1>1, IntUnique, Zenon
<1> QED BY <1>2, Zenon DEF Same

\* Sums, differences and products may be formed of the remainders.
LEMMA SameSums ==
    ASSUME NEW h \in Nat \ {0}, NEW x \in Int, NEW y \in Int, NEW u \in Int, NEW v \in Int,
           Same(x, u, h), Same(y, v, h)
    PROVE  Same(x + y, u + v, h) /\ Same(x - y, u - v, h) /\ Same(x * y, u * v, h)
<1>1. PICK i \in Int : x = u + h * i
  BY SameMeans
<1>2. PICK j \in Int : y = v + h * j
  BY SameMeans
<1>3. x + y \in Int /\ u + v \in Int /\ i + j \in Int /\ x + y = (u + v) + h * (i + j)
  BY <1>1, <1>2
<1>4. x - y \in Int /\ u - v \in Int /\ i - j \in Int /\ x - y = (u - v) + h * (i - j)
  BY <1>1, <1>2
<1>5. PICK k \in Int : k = u * j + i * v + h * (i * j)
  OBVIOUS
<1>6. (h * i) * (h * j) = h * (h * (i * j)) /\ u * (h * j) = h * (u * j) /\ (h * i) * v = h * (i * v)
  OBVIOUS
<1>7. (u + h * i) * (v + h * j) = u * v + u * (h * j) + (h * i) * v + (h * i) * (h * j)
  OBVIOUS
<1>8. h * k = h * (u * j) + h * (i * v) + h * (h * (i * j))
  BY <1>5
<1>9. x * y \in Int /\ u * v \in Int /\ x * y = (u * v) + h * k
  BY <1>1, <1>2, <1>6, <1>7, <1>8
<1>10. Same(x + y, u + v, h)
  BY <1>3, SameIf, Zenon
<1>11. Same(x - y, u - v, h)
  BY <1>4, SameIf, Zenon
<1>12. Same(x * y, u * v, h)
  BY <1>9, SameIf, Zenon
<1> QED BY <1>10, <1>11, <1>12

-----------------------------------------------------------------------------
(* Registers and words.                                                    *)

AluLens == {XLEN, WLEN}
Full2(len) == 2^len
Half2(len) == 2^(len - 1)
Unsigned(len) == 0 .. Full2(len) - 1
InRange(n, len) == n \in Int /\ 0 - Half2(len) <= n /\ n < Half2(len)

LEMMA AluPowers ==
    /\ WLEN \in Nat \ {0, 1} /\ XLEN = 2 * WLEN
    /\ 2^0 = 1 /\ 2^1 = 2
    /\ \A m \in 0 .. XLEN : 2^m \in Nat \ {0}
    /\ \A m, n \in 0 .. XLEN : 2^(m + n) = 2^m * 2^n
<1>1. WLEN \in Nat /\ XLEN = 2 * WLEN /\ \E k \in 1 .. WLEN : 2^k = WLEN
  BY CpuThreadAssumptions, Zenon DEF CpuThreadAssumptions, Arith!AluAssumption
<1>2. /\ 2^0 = 1 /\ 2^1 = 2
      /\ \A m \in 0 .. XLEN : 2^m \in Nat \ {0}
      /\ \A m, n \in 0 .. XLEN : 2^(m + n) = 2^m * 2^n
  BY CpuThreadAssumptions, Zenon DEF CpuThreadAssumptions, Arith!PowerFacts
<1>3. PICK k \in 1 .. WLEN : 2^k = WLEN
  BY <1>1
<1>4. k - 1 \in 0 .. XLEN /\ 1 \in 0 .. XLEN /\ (k - 1) + 1 = k
  BY <1>1
<1>5. 2^((k - 1) + 1) = 2^(k - 1) * 2^1 /\ 2^(k - 1) \in Nat \ {0}
  BY <1>2, <1>4, Zenon
<1>6. WLEN = 2^(k - 1) * 2
  BY <1>2, <1>3, <1>4, <1>5, Zenon
<1>7. WLEN \in Nat \ {0, 1}
  BY <1>1, <1>5, <1>6
<1> QED BY <1>1, <1>2, <1>7, Zenon

\* The powers that bound a register or a word.
LEMMA LenIs ==
    ASSUME NEW len \in AluLens
    PROVE  /\ len \in Nat \ {0, 1} /\ len \in 0 .. XLEN
           /\ Full2(len) \in Nat \ {0} /\ Half2(len) \in Nat \ {0}
           /\ Full2(len) = 2 * Half2(len)
           /\ \E e \in Nat \ {0} : Half2(len) = 2 * e
<1>1. len \in Nat \ {0, 1} /\ len <= XLEN /\ XLEN \in Nat
  BY AluPowers DEF AluLens
<1>2. /\ len \in 0 .. XLEN /\ len - 1 \in 0 .. XLEN /\ len - 2 \in 0 .. XLEN /\ 1 \in 0 .. XLEN
      /\ 1 + (len - 1) = len /\ 1 + (len - 2) = len - 1
  BY <1>1
<1>3. /\ 2^(1 + (len - 1)) = 2^1 * 2^(len - 1) /\ 2^(1 + (len - 2)) = 2^1 * 2^(len - 2)
      /\ 2^len \in Nat \ {0} /\ 2^(len - 1) \in Nat \ {0} /\ 2^(len - 2) \in Nat \ {0}
      /\ 2^1 = 2
  BY <1>2, AluPowers, Zenon
<1>4. 2^len = 2 * 2^(len - 1) /\ 2^(len - 1) = 2 * 2^(len - 2)
  BY <1>2, <1>3, Zenon
<1> QED BY <1>1, <1>2, <1>3, <1>4, Zenon DEF Full2, Half2

LEMMA RegIs == Arith!Reg = Unsigned(XLEN) /\ XLEN \in AluLens /\ WLEN \in AluLens
BY DEF Arith!Reg, Unsigned, AluLens, Full2

LEMMA WrapIs ==
    ASSUME NEW len \in AluLens, NEW n \in Int
    PROVE  /\ Arith!Wrap(n, len) = n % Full2(len)
           /\ Arith!Wrap(n, len) \in Unsigned(len) /\ Arith!Wrap(n, len) \in Nat
           /\ Same(Arith!Wrap(n, len), n, Full2(len))
<1>1. Full2(len) \in Nat \ {0}
  BY LenIs
<1>2. Arith!Wrap(n, len) = n % Full2(len)
  BY DEF Arith!Wrap, Full2
<1>3. PICK h \in Nat \ {0} : h = Full2(len)
  BY <1>1
<1>4. n % h \in 0 .. h - 1 /\ n % h \in Nat
  BY IntSplit
<1>5. Same(n % h, n, h)
  BY SameMod
<1> QED BY <1>2, <1>3, <1>4, <1>5, Zenon DEF Unsigned

\* What lies in range is its own remainder.
LEMMA WrapSmall ==
    ASSUME NEW len \in AluLens, NEW n \in Int, NEW s \in Unsigned(len),
           Same(n, s, Full2(len))
    PROVE  Arith!Wrap(n, len) = s
<1>1. Full2(len) \in Nat \ {0} /\ s \in 0 .. Full2(len) - 1
  BY LenIs DEF Unsigned
<1>2. n % Full2(len) = s
  BY <1>1, SameSmall, Zenon
<1> QED BY <1>2, WrapIs, Zenon

LEMMA UnsignedIs ==
    ASSUME NEW len \in AluLens, NEW v \in Unsigned(len)
    PROVE  v \in Nat /\ v < Full2(len) /\ v \in Int /\ Same(v, v, Full2(len))
<1>1. PICK h \in Nat \ {0} : h = Full2(len)
  BY LenIs
<1>2. v \in 0 .. h - 1
  BY <1>1 DEF Unsigned
<1>3. v \in Nat /\ v < h /\ v \in Int
  BY <1>2
<1> QED BY <1>1, <1>3, Zenon DEF Same

\* The signed reading: in range, of the same remainder, negative in the upper half.
LEMMA SignedIs ==
    ASSUME NEW len \in AluLens, NEW v \in Unsigned(len)
    PROVE  /\ InRange(Arith!Signed(v, len), len)
           /\ Same(Arith!Signed(v, len), v, Full2(len))
           /\ Arith!Signed(v, len) < 0 <=> v >= Half2(len)
           /\ Arith!Signed(v, len) = 0 <=> v = 0
           /\ Arith!Signed(v, len) = IF v >= Half2(len) THEN v - Full2(len) ELSE v
           /\ Arith!Wrap(Arith!Signed(v, len), len) = v
<1>1. PICK h \in Nat \ {0} : h = Full2(len)
  BY LenIs
<1>2. PICK g \in Nat \ {0} : g = Half2(len) /\ h = 2 * g
  BY LenIs, <1>1
<1>3. v \in 0 .. h - 1 /\ v \in Int
  BY <1>1, UnsignedIs DEF Unsigned
<1>4. PICK s \in Int : s = IF v >= g THEN v - h ELSE v
  BY <1>3
<1>5. Arith!Signed(v, len) = s
  BY <1>1, <1>2, <1>4, Zenon DEF Arith!Signed, Full2, Half2
<1>6. 0 - g <= s /\ s < g /\ (s < 0 <=> v >= g) /\ (s = 0 <=> v = 0)
  BY <1>2, <1>3, <1>4
<1>7. Same(s, v, h)
  <2>1. CASE v >= g
    <3>1. s = v + h * (-1) /\ -1 \in Int
      BY <1>3, <1>4, <2>1
    <3> QED BY <1>3, <3>1, SameIf, Zenon
  <2>2. CASE ~(v >= g)
    BY <1>4, <2>2, Zenon DEF Same
  <2> QED BY <2>1, <2>2
<1>8. Arith!Wrap(s, len) = v
  BY <1>1, <1>7, WrapSmall, Zenon
<1> QED BY <1>1, <1>2, <1>4, <1>5, <1>6, <1>7, <1>8, Zenon DEF InRange

\* A number in range is read back as it was written.
LEMMA SignedOf ==
    ASSUME NEW len \in AluLens, NEW n, InRange(n, len)
    PROVE  Arith!Signed(Arith!Wrap(n, len), len) = n
<1>1. PICK h \in Nat \ {0} : h = Full2(len)
  BY LenIs
<1>2. PICK g \in Nat \ {0} : g = Half2(len) /\ h = 2 * g
  BY LenIs, <1>1
<1>3. n \in Int /\ 0 - g <= n /\ n < g
  BY <1>2, Zenon DEF InRange
<1>4. PICK v \in Int : v = IF n < 0 THEN n + h ELSE n
  BY <1>3
<1>5. v \in 0 .. h - 1
  BY <1>2, <1>3, <1>4
<1>6. v \in Unsigned(len)
  BY <1>1, <1>5 DEF Unsigned
<1>7. Same(n, v, h)
  <2>1. CASE n < 0
    <3>1. n = v + h * (-1) /\ -1 \in Int
      BY <1>3, <1>4, <2>1
    <3> QED BY <1>3, <3>1, SameIf, Zenon
  <2>2. CASE ~(n < 0)
    BY <1>4, <2>2, Zenon DEF Same
  <2> QED BY <2>1, <2>2
<1>8. Arith!Wrap(n, len) = v
  BY <1>1, <1>3, <1>6, <1>7, WrapSmall, Zenon
<1>9. Arith!Signed(v, len) = IF v >= g THEN v - h ELSE v
  BY <1>1, <1>2, <1>6, SignedIs, Zenon
<1>10. (IF v >= g THEN v - h ELSE v) = n
  BY <1>2, <1>3, <1>4
<1> QED BY <1>8, <1>9, <1>10, Zenon

LEMMA SignedZero ==
    ASSUME NEW len \in AluLens
    PROVE  0 \in Unsigned(len) /\ Full2(len) - 1 \in Unsigned(len)
           /\ Arith!Signed(Full2(len) - 1, len) = -1
<1>1. PICK h \in Nat \ {0} : h = Full2(len)
  BY LenIs
<1>2. PICK g \in Nat \ {0} : g = Half2(len) /\ h = 2 * g
  BY LenIs, <1>1
<1>3. 0 \in 0 .. h - 1 /\ h - 1 \in 0 .. h - 1 /\ h - 1 >= g /\ (h - 1) - h = -1
  BY <1>2
<1>4. 0 \in Unsigned(len) /\ h - 1 \in Unsigned(len)
  BY <1>1, <1>3 DEF Unsigned
<1>5. Arith!Signed(h - 1, len) = IF h - 1 >= g THEN (h - 1) - h ELSE h - 1
  BY <1>1, <1>2, <1>4, SignedIs, Zenon
<1> QED BY <1>1, <1>3, <1>4, <1>5, Zenon

-----------------------------------------------------------------------------
(* Words in registers.                                                     *)

\* A register is a word times a word, so the low word of a remainder by the register
\* is the low word.
LEMMA FullIsSquare == Full2(XLEN) = Full2(WLEN) * Full2(WLEN)
<1>1. WLEN \in 0 .. XLEN /\ WLEN + WLEN = XLEN
  BY AluPowers
<1>2. 2^(WLEN + WLEN) = 2^WLEN * 2^WLEN
  BY <1>1, AluPowers, Zenon
<1> QED BY <1>1, <1>2, Zenon DEF Full2

LEMMA SameCoarser ==
    ASSUME NEW x \in Int, NEW y \in Int, Same(x, y, Full2(XLEN))
    PROVE  Same(x, y, Full2(WLEN))
<1>1. PICK w \in Nat \ {0} : w = Full2(WLEN)
  BY LenIs, RegIs
<1>2. Full2(XLEN) = w * w /\ w * w \in Nat \ {0}
  BY FullIsSquare, <1>1
<1>3. PICK k \in Int : x = y + (w * w) * k
  BY <1>2, SameMeans
<1>4. w * k \in Int /\ (w * w) * k = w * (w * k)
  OBVIOUS
<1>5. x = y + w * (w * k)
  BY <1>3, <1>4
<1> QED BY <1>1, <1>4, <1>5, SameIf, Zenon

\* sext leaves a register whose low word is the low word of its argument, and depends
\* on nothing else.
LEMMA SextIs ==
    ASSUME NEW n \in Int
    PROVE  /\ Arith!Sext(n) \in Unsigned(XLEN) /\ Arith!Sext(n) \in Int
           /\ Arith!Low(n) \in Unsigned(WLEN)
           /\ Arith!Low(Arith!Sext(n)) = Arith!Low(n)
           /\ Same(Arith!Sext(n), n, Full2(WLEN))
           /\ Same(Arith!Low(n), n, Full2(WLEN))
<1>1. PICK v \in Unsigned(WLEN) : v = Arith!Low(n) /\ v = Arith!Wrap(n, WLEN)
                                  /\ Same(v, n, Full2(WLEN))
  BY WrapIs, RegIs, Zenon DEF Arith!Low
<1>2. PICK s \in Int : s = Arith!Signed(v, WLEN) /\ Same(s, v, Full2(WLEN))
  BY SignedIs, RegIs, Zenon DEF InRange
<1>3. PICK r \in Unsigned(XLEN) : r = Arith!Wrap(s, XLEN) /\ Same(r, s, Full2(XLEN)) /\ r \in Int
  <2>1. Arith!Wrap(s, XLEN) \in Unsigned(XLEN) /\ Same(Arith!Wrap(s, XLEN), s, Full2(XLEN))
    BY WrapIs, RegIs, Zenon
  <2>2. Arith!Wrap(s, XLEN) \in Int
    BY <2>1, UnsignedIs, RegIs, Zenon
  <2> QED BY <2>1, <2>2, Zenon
<1>4. Arith!Sext(n) = r
  BY <1>1, <1>2, <1>3, Zenon DEF Arith!Sext
<1>5. Same(r, s, Full2(WLEN))
  BY <1>3, SameCoarser, Zenon
<1>6. Same(r, v, Full2(WLEN)) /\ Same(r, n, Full2(WLEN))
  BY <1>1, <1>2, <1>5, Zenon DEF Same
<1>7. Arith!Wrap(r, WLEN) = v
  BY <1>3, <1>6, WrapSmall, RegIs, Zenon
<1> QED BY <1>1, <1>3, <1>4, <1>6, <1>7, Zenon DEF Arith!Low

LEMMA SextSame ==
    ASSUME NEW m \in Int, NEW n \in Int, Same(m, n, Full2(WLEN))
    PROVE  Arith!Sext(m) = Arith!Sext(n) /\ Arith!Low(m) = Arith!Low(n)
<1>1. Arith!Wrap(m, WLEN) = Arith!Wrap(n, WLEN)
  BY WrapIs, RegIs, Zenon DEF Same
<1> QED BY <1>1, Zenon DEF Arith!Sext, Arith!Low

-----------------------------------------------------------------------------
(* Division.                                                               *)

\* The division of C++: the quotient times the divisor misses the dividend by less
\* than the divisor, towards zero, and fits where the dividend does but for one case.
LEMMA QuotRest ==
    ASSUME NEW s \in Int, NEW t \in Int \ {0}
    PROVE  /\ Arith!Quot(s, t) \in Int /\ Arith!Rest(s, t) \in Int
           /\ s = t * Arith!Quot(s, t) + Arith!Rest(s, t)
           /\ Arith!Abs(Arith!Rest(s, t)) < Arith!Abs(t)
           /\ Arith!Rest(s, t) # 0 => (Arith!Rest(s, t) < 0 <=> s < 0)
           /\ Arith!Abs(Arith!Quot(s, t)) <= Arith!Abs(s)
           /\ Arith!Abs(Arith!Quot(s, t)) = Arith!Abs(s) => s = 0 \/ Arith!Abs(t) = 1
           /\ Arith!Quot(s, t) > 0 => (s < 0 <=> t < 0)
<1>1. PICK p \in Nat : p = Arith!Abs(s) /\ p = IF s < 0 THEN 0 - s ELSE s
  BY DEF Arith!Abs
<1>2. PICK u \in Nat \ {0} : u = Arith!Abs(t) /\ u = IF t < 0 THEN 0 - t ELSE t
  BY DEF Arith!Abs
<1>3. PICK d \in Nat : d = p \div u
  BY SplitOf
<1>4. PICK e \in 0 .. u - 1 : e = p % u
  BY SplitOf
<1>5. p = u * d + e
  BY <1>3, <1>4, SplitOf
<1>6. PICK m \in Nat : m = u * d
  OBVIOUS
<1>7. p = m + e
  BY <1>5, <1>6
<1>8. PICK q \in Int : q = Arith!Quot(s, t) /\ q = IF (s < 0) <=> (t < 0) THEN d ELSE 0 - d
  <2>1. CASE (s < 0) <=> (t < 0)
    <3>1. (s < 0) = (t < 0)
      BY <2>1
    <3>2. Arith!Quot(s, t) = d
      BY <1>1, <1>2, <1>3, <3>1, Zenon DEF Arith!Quot
    <3> QED BY <2>1, <3>2
  <2>2. CASE ~((s < 0) <=> (t < 0))
    <3>1. ~((s < 0) = (t < 0))
      BY <2>2, Zenon
    <3>2. Arith!Quot(s, t) = 0 - d
      BY <1>1, <1>2, <1>3, <3>1, Zenon DEF Arith!Quot
    <3> QED BY <2>2, <3>2
  <2> QED BY <2>1, <2>2
<1>9. t * q = IF s < 0 THEN 0 - m ELSE m
  <2>1. CASE s < 0 /\ t < 0
    <3>1. t = 0 - u /\ q = d
      BY <1>2, <1>8, <2>1
    <3>2. (0 - u) * d = 0 - (u * d)
      OBVIOUS
    <3> QED BY <1>6, <2>1, <3>1, <3>2
  <2>2. CASE s < 0 /\ ~(t < 0)
    <3>1. t = u /\ q = 0 - d
      BY <1>2, <1>8, <2>2
    <3>2. u * (0 - d) = 0 - (u * d)
      OBVIOUS
    <3> QED BY <1>6, <2>2, <3>1, <3>2
  <2>3. CASE ~(s < 0) /\ t < 0
    <3>1. t = 0 - u /\ q = 0 - d
      BY <1>2, <1>8, <2>3
    <3>2. (0 - u) * (0 - d) = u * d
      OBVIOUS
    <3> QED BY <1>6, <2>3, <3>1, <3>2
  <2>4. CASE ~(s < 0) /\ ~(t < 0)
    <3>1. t = u /\ q = d
      BY <1>2, <1>8, <2>4
    <3> QED BY <1>6, <2>4, <3>1
  <2> QED BY <2>1, <2>2, <2>3, <2>4
<1>10. PICK r \in Int : r = Arith!Rest(s, t) /\ r = s - (t * q)
  <2>1. s - (t * q) \in Int
    OBVIOUS
  <2> QED BY <1>8, <2>1, Zenon DEF Arith!Rest
<1>11. r = IF s < 0 THEN 0 - e ELSE e
  BY <1>1, <1>7, <1>9, <1>10
<1>12. s = t * q + r
  BY <1>10
<1>13. Arith!Abs(r) < u
  BY <1>11, <1>2, <1>4 DEF Arith!Abs
<1>14. r # 0 => (r < 0 <=> s < 0)
  BY <1>11, <1>4
<1>15. d <= m /\ (d = m => d = 0 \/ u = 1)
  <2>1. u * d = d + (u - 1) * d /\ (u - 1) * d \in Nat
    OBVIOUS
  <2>2. u # 1 /\ d # 0 => (u - 1) * d # 0
    OBVIOUS
  <2> QED BY <1>6, <2>1, <2>2
<1>16. Arith!Abs(q) = d
  BY <1>8 DEF Arith!Abs
<1>17. d <= p /\ (d = p => s = 0 \/ u = 1)
  BY <1>1, <1>7, <1>15, <1>4
<1>18. q > 0 => (s < 0 <=> t < 0)
  BY <1>8
<1> QED BY <1>1, <1>2, <1>8, <1>10, <1>12, <1>13, <1>14, <1>16, <1>17, <1>18

LEMMA QuotInRange ==
    ASSUME NEW len \in AluLens, NEW s, NEW t, InRange(s, len), InRange(t, len), t # 0,
           ~(s = 0 - Half2(len) /\ t = -1)
    PROVE  InRange(Arith!Quot(s, t), len) /\ InRange(Arith!Rest(s, t), len)
<1>1. PICK g \in Nat \ {0} : g = Half2(len)
  BY LenIs
<1>2. s \in Int /\ t \in Int \ {0} /\ 0 - g <= s /\ s < g /\ 0 - g <= t /\ t < g
  BY <1>1, Zenon DEF InRange
<1>3. PICK q \in Int : q = Arith!Quot(s, t)
  BY <1>2, QuotRest
<1>4. PICK r \in Int : r = Arith!Rest(s, t)
  BY <1>2, QuotRest
<1>5. /\ Arith!Abs(r) < Arith!Abs(t) /\ Arith!Abs(q) <= Arith!Abs(s)
      /\ Arith!Abs(q) = Arith!Abs(s) => s = 0 \/ Arith!Abs(t) = 1
      /\ q > 0 => (s < 0 <=> t < 0)
  BY <1>2, <1>3, <1>4, QuotRest, Zenon
<1>6. 0 - g <= r /\ r < g
  BY <1>2, <1>5 DEF Arith!Abs
<1>7. 0 - g <= q /\ q <= g
  BY <1>2, <1>5 DEF Arith!Abs
<1>8. q # g
  <2> SUFFICES ASSUME q = g PROVE FALSE
    OBVIOUS
  <2>1. Arith!Abs(q) = g /\ s = 0 - g /\ Arith!Abs(s) = g
    BY <1>2, <1>5 DEF Arith!Abs
  <2>2. Arith!Abs(t) = 1 /\ t < 0
    BY <1>2, <1>5, <2>1
  <2>3. t = -1
    BY <1>2, <2>2 DEF Arith!Abs
  <2> QED BY <1>1, <2>1, <2>3
<1> QED BY <1>1, <1>3, <1>4, <1>6, <1>7, <1>8 DEF InRange

\* What both signed divisions compute on numbers of their width.
QuotientOf(a, s, t, len) ==
    IF t = 0 THEN Full2(len) - 1
    ELSE IF s = 0 - Half2(len) /\ t = -1 THEN a
    ELSE Arith!Wrap(Arith!Quot(s, t), len)
RemainderOf(a, s, t, len) ==
    IF t = 0 THEN a
    ELSE IF s = 0 - Half2(len) /\ t = -1 THEN 0
    ELSE Arith!Wrap(Arith!Rest(s, t), len)

LEMMA SignedDivision ==
    ASSUME NEW len \in AluLens, NEW a \in Unsigned(len), NEW b \in Unsigned(len),
           NEW q, NEW r,
           q = QuotientOf(a, Arith!Signed(a, len), Arith!Signed(b, len), len),
           r = RemainderOf(a, Arith!Signed(a, len), Arith!Signed(b, len), len)
    PROVE  Arith!Fits(a, b, q, r, len, TRUE)
<1>1. PICK s \in Int : /\ s = Arith!Signed(a, len) /\ InRange(s, len) /\ Same(s, a, Full2(len))
                       /\ Arith!Wrap(s, len) = a
  BY SignedIs, Zenon DEF InRange
<1>2. PICK t \in Int : /\ t = Arith!Signed(b, len) /\ InRange(t, len) /\ Same(t, b, Full2(len))
                       /\ (t = 0 <=> b = 0)
  BY SignedIs, Zenon DEF InRange
<1>3. Full2(len) \in Nat \ {0} /\ a \in Int /\ b \in Int /\ 0 \in Unsigned(len)
  BY LenIs, UnsignedIs, SignedZero
<1>4. CASE b = 0
  <2>1. q = Full2(len) - 1 /\ r = a
    BY <1>1, <1>2, <1>4, Zenon DEF QuotientOf, RemainderOf
  <2> QED BY <1>4, <2>1, Zenon DEF Arith!Fits, Full2
<1>5. CASE b # 0 /\ s = 0 - Half2(len) /\ t = -1
  <2>1. q = a /\ r = 0
    BY <1>1, <1>2, <1>5, Zenon DEF QuotientOf, RemainderOf
  <2>2. Same(a * b + 0, a, Full2(len))
    <3>1. Same(a, s, Full2(len)) /\ Same(b, t, Full2(len))
      BY <1>1, <1>2, Zenon DEF Same
    <3>2. Same(a * b, s * t, Full2(len))
      BY <1>3, <3>1, SameSums, Zenon
    <3>3. PICK g \in Nat \ {0} : g = Half2(len) /\ Full2(len) = 2 * g
      BY LenIs
    <3>4. s * t = g /\ s = 0 - g /\ g = s + (2 * g) * 1 /\ s * t \in Int /\ a * b \in Int
      BY <1>5, <3>3, <1>3
    <3>5. Same(g, s, 2 * g)
      <4>1. 2 * g \in Nat \ {0} /\ g \in Int /\ 1 \in Int
        OBVIOUS
      <4> QED BY <4>1, <3>4, SameIf, Zenon
    <3>6. Same(a * b, a, Full2(len))
      BY <3>1, <3>2, <3>3, <3>4, <3>5, Zenon DEF Same
    <3>7. a * b + 0 = a * b
      BY <1>3
    <3> QED BY <3>6, <3>7, Zenon
  <2>3. Arith!Wrap((a * b) + 0, len) = a
    <3>1. a * b + 0 \in Int
      BY <1>3
    <3> QED BY <2>2, <3>1, WrapSmall, Zenon
  <2>4. Arith!Signed(0, len) = 0
    BY <1>3, SignedIs, Zenon
  <2>5. Arith!Abs(0) < Arith!Abs(-1)
    BY DEF Arith!Abs
  <2>6. Arith!IntMin(len) = s
    BY <1>5, Zenon DEF Arith!IntMin, Half2
  <2> QED BY <1>1, <1>2, <1>5, <2>1, <2>3, <2>4, <2>5, <2>6, Zenon DEF Arith!Fits
<1>6. CASE b # 0 /\ ~(s = 0 - Half2(len) /\ t = -1)
  <2>0. t \in Int \ {0}
    BY <1>2, <1>6
  <2>1. PICK qq \in Int : qq = Arith!Quot(s, t) /\ InRange(qq, len)
    BY <1>1, <1>2, <1>6, <2>0, QuotInRange, Zenon DEF InRange
  <2>2. PICK rr \in Int : rr = Arith!Rest(s, t) /\ InRange(rr, len)
    BY <1>1, <1>2, <1>6, <2>0, QuotInRange, Zenon DEF InRange
  <2>3. /\ s = t * qq + rr /\ Arith!Abs(rr) < Arith!Abs(t)
        /\ rr # 0 => (rr < 0 <=> s < 0)
    BY <2>0, <2>1, <2>2, QuotRest, Zenon
  <2>4. q = Arith!Wrap(qq, len) /\ r = Arith!Wrap(rr, len)
    BY <1>1, <1>2, <1>6, <2>0, <2>1, <2>2, Zenon DEF QuotientOf, RemainderOf
  <2>5. Arith!Signed(q, len) = qq /\ Arith!Signed(r, len) = rr
    BY <2>1, <2>2, <2>4, SignedOf, Zenon
  <2>6. q \in Int /\ r \in Int /\ Same(q, qq, Full2(len)) /\ Same(r, rr, Full2(len))
    <3>1. q \in Nat /\ r \in Nat /\ Same(q, qq, Full2(len)) /\ Same(r, rr, Full2(len))
      BY <2>4, WrapIs, Zenon
    <3> QED BY <3>1
  <2>7. Same(q * b + r, a, Full2(len)) /\ q * b + r \in Int
    <3>1. Same(b, t, Full2(len))
      BY <1>2, Zenon DEF Same
    <3>2. Same(q * b, qq * t, Full2(len))
      BY <1>3, <2>6, <3>1, SameSums, Zenon
    <3>3. q * b \in Int /\ qq * t \in Int /\ qq * t = t * qq /\ q * b + r \in Int
      BY <1>3, <2>6
    <3>4. Same(q * b + r, qq * t + rr, Full2(len))
      BY <1>3, <2>6, <3>2, <3>3, SameSums, Zenon
    <3>5. Same(q * b + r, s, Full2(len))
      BY <2>3, <3>3, <3>4, Zenon
    <3> QED BY <1>1, <3>3, <3>5, Zenon DEF Same
  <2>8. Arith!Wrap((q * b) + r, len) = a
    BY <2>7, WrapSmall, Zenon
  <2>9. (rr # 0) => (rr < 0) = (s < 0)
    BY <2>3
  <2>10. s = (qq * t) + rr
    BY <2>3
  <2> QED BY <1>1, <1>2, <1>6, <2>3, <2>5, <2>8, <2>9, <2>10, Zenon DEF Arith!Fits
<1> QED BY <1>4, <1>5, <1>6

LEMMA UnsignedDivision ==
    ASSUME NEW len \in AluLens, NEW a \in Unsigned(len), NEW b \in Unsigned(len),
           NEW q, NEW r,
           q = IF b = 0 THEN Full2(len) - 1 ELSE a \div b,
           r = IF b = 0 THEN a ELSE a % b
    PROVE  Arith!Fits(a, b, q, r, len, FALSE)
<1>1. Full2(len) \in Nat \ {0} /\ a \in Nat /\ b \in Nat
  BY LenIs, UnsignedIs
<1>2. CASE b = 0
  BY <1>2, Zenon DEF Arith!Fits, Full2
<1>3. CASE b # 0
  <2>1. b \in Nat \ {0}
    BY <1>1, <1>3
  <2>2. PICK d \in Nat : d = q
    BY <1>1, <1>3, <2>1, SplitOf
  <2>3. PICK e \in 0 .. b - 1 : e = r
    BY <1>1, <1>3, <2>1, SplitOf
  <2>4. a = (d * b) + e
    <3>1. a = b * d + e
      BY <1>1, <1>3, <2>1, <2>2, <2>3, SplitOf
    <3> QED BY <3>1, <1>1
  <2>5. Arith!Wrap((d * b) + e, len) = a
    <3>1. a \in Int /\ Same(a, a, Full2(len))
      BY UnsignedIs
    <3> QED BY <2>4, <3>1, WrapSmall, Zenon
  <2>6. Arith!Abs(e) < Arith!Abs(b)
    BY <2>1, <2>3 DEF Arith!Abs
  <2>7. ~(e < 0) /\ ~(a < 0)
    BY <1>1, <2>3
  <2>8. (e < 0) = (a < 0)
    BY <2>7
  <2> QED BY <1>3, <2>2, <2>3, <2>4, <2>5, <2>6, <2>8, Zenon DEF Arith!Fits
<1> QED BY <1>2, <1>3

LEMMA AluDivision == ASSUME x1 \in Arith!Reg, x2 \in Arith!Reg PROVE Arith!DivisionHolds
<1>1. x1 \in Unsigned(XLEN) /\ x2 \in Unsigned(XLEN) /\ XLEN \in AluLens /\ WLEN \in AluLens
  BY RegIs
<1>2. x1 \in Int /\ x2 \in Int
  BY <1>1, UnsignedIs
<1>3. PICK a \in Unsigned(WLEN) : a = Arith!Low(x1)
  BY <1>2, SextIs
<1>4. PICK b \in Unsigned(WLEN) : b = Arith!Low(x2)
  BY <1>2, SextIs
<1>5. Arith!Fits(x1, x2, Arith!Div(x1, x2), Arith!Rem(x1, x2), XLEN, TRUE)
  <2>1. Arith!Div(x1, x2) = QuotientOf(x1, Arith!Signed(x1, XLEN), Arith!Signed(x2, XLEN), XLEN)
    BY Zenon DEF Arith!Div, QuotientOf, Arith!IntMin, Half2, Full2, Arith!AllOnes
  <2>2. Arith!Rem(x1, x2) = RemainderOf(x1, Arith!Signed(x1, XLEN), Arith!Signed(x2, XLEN), XLEN)
    BY Zenon DEF Arith!Rem, RemainderOf, Arith!IntMin, Half2
  <2> QED BY <1>1, <2>1, <2>2, SignedDivision, Zenon
<1>6. Arith!Fits(x1, x2, Arith!Divu(x1, x2), Arith!Remu(x1, x2), XLEN, FALSE)
  <2>1. Arith!Divu(x1, x2) = IF x2 = 0 THEN Full2(XLEN) - 1 ELSE x1 \div x2
    BY Zenon DEF Arith!Divu, Full2, Arith!AllOnes
  <2>2. Arith!Remu(x1, x2) = IF x2 = 0 THEN x1 ELSE x1 % x2
    BY Zenon DEF Arith!Remu
  <2> QED BY <1>1, <2>1, <2>2, UnsignedDivision, Zenon
<1>7. Arith!Low(Arith!AllOnes) = Full2(WLEN) - 1 /\ Arith!AllOnes \in Int
  <2>1. PICK w \in Nat \ {0} : w = Full2(WLEN)
    BY <1>1, LenIs
  <2>2. Full2(XLEN) = w * w
    BY <2>1, FullIsSquare
  <2>3. Arith!AllOnes = w * w - 1
    BY <2>2 DEF Arith!AllOnes, Full2
  <2>4. w * w - 1 \in Int /\ w - 1 \in Int /\ w * w - 1 = (w - 1) + w * (w - 1) /\ w - 1 \in 0 .. w - 1
    OBVIOUS
  <2>5. Same(w * w - 1, w - 1, w)
    BY <2>4, SameIf, Zenon
  <2>6. w - 1 \in Unsigned(WLEN)
    BY <2>1, <2>4, Zenon DEF Unsigned
  <2>7. Arith!Wrap(w * w - 1, WLEN) = w - 1
    BY <1>1, <2>1, <2>4, <2>5, <2>6, WrapSmall, Zenon
  <2> QED BY <2>1, <2>3, <2>4, <2>7, Zenon DEF Arith!Low
<1>8. ASSUME NEW n \in Int PROVE Arith!Low(Arith!Sext(n)) = Arith!Wrap(n, WLEN)
  BY SextIs, Zenon DEF Arith!Low
<1>9. PICK s \in Int : s = Arith!Signed(a, WLEN) /\ Arith!Wrap(s, WLEN) = a
  BY <1>1, SignedIs, Zenon DEF InRange
<1>10. PICK t \in Int : t = Arith!Signed(b, WLEN)
  BY <1>1, SignedIs, Zenon DEF InRange
<1>11. t # 0 => Arith!Quot(s, t) \in Int /\ Arith!Rest(s, t) \in Int
  BY <1>9, <1>10, QuotRest
<1>12. Arith!Fits(a, b, Arith!Low(Arith!Divw(x1, x2)), Arith!Low(Arith!Remw(x1, x2)), WLEN, TRUE)
  <2>1. Arith!Divw(x1, x2) = IF t = 0 THEN Arith!AllOnes
                             ELSE IF s = 0 - Half2(WLEN) /\ t = -1 THEN Arith!Sext(s)
                             ELSE Arith!Sext(Arith!Quot(s, t))
    BY <1>3, <1>4, <1>9, <1>10, Zenon DEF Arith!Divw, Arith!IntMin, Half2
  <2>2. Arith!Remw(x1, x2) = IF t = 0 THEN Arith!Sext(s)
                             ELSE IF s = 0 - Half2(WLEN) /\ t = -1 THEN 0
                             ELSE Arith!Sext(Arith!Rest(s, t))
    BY <1>3, <1>4, <1>9, <1>10, Zenon DEF Arith!Remw, Arith!IntMin, Half2
  <2>3. Arith!Low(0) = 0
    <3>1. 0 \in Unsigned(WLEN) /\ 0 \in Int /\ Same(0, 0, Full2(WLEN))
      BY <1>1, SignedZero DEF Same
    <3> QED BY <1>1, <3>1, WrapSmall, Zenon DEF Arith!Low
  <2>4. Arith!Low(Arith!Divw(x1, x2)) = QuotientOf(a, s, t, WLEN)
    BY <1>7, <1>8, <1>9, <1>10, <1>11, <2>1, Zenon DEF QuotientOf
  <2>5. Arith!Low(Arith!Remw(x1, x2)) = RemainderOf(a, s, t, WLEN)
    BY <1>7, <1>8, <1>9, <1>10, <1>11, <2>2, <2>3, Zenon DEF RemainderOf
  <2> QED BY <1>1, <1>9, <1>10, <2>4, <2>5, SignedDivision, Zenon
<1>13. Arith!Fits(a, b, Arith!Low(Arith!Divuw(x1, x2)), Arith!Low(Arith!Remuw(x1, x2)), WLEN, FALSE)
  <2>1. ASSUME NEW n \in Unsigned(WLEN) PROVE Arith!Low(Arith!Sext(n)) = n
    <3>1. n \in Int /\ Same(n, n, Full2(WLEN))
      BY <1>1, UnsignedIs, Zenon
    <3> QED BY <1>1, <1>8, <3>1, WrapSmall, Zenon
  <2>2. b # 0 => a \div b \in Unsigned(WLEN) /\ a % b \in Unsigned(WLEN)
    <3> SUFFICES ASSUME b # 0 PROVE a \div b \in Unsigned(WLEN) /\ a % b \in Unsigned(WLEN)
      OBVIOUS
    <3>1. PICK w \in Nat \ {0} : w = Full2(WLEN)
      BY <1>1, LenIs
    <3>2. a \in 0 .. w - 1 /\ b \in 1 .. w - 1 /\ a \in Nat /\ b \in Nat \ {0}
      BY <3>1 DEF Unsigned
    <3>3. PICK d \in Nat : d = a \div b
      BY <3>2, SplitOf
    <3>4. PICK e \in 0 .. b - 1 : e = a % b
      BY <3>2, SplitOf
    <3>5. a = b * d + e
      BY <3>2, <3>3, <3>4, SplitOf
    <3>6. b * d = d + (b - 1) * d /\ (b - 1) * d \in Nat
      BY <3>2
    <3>7. d \in 0 .. w - 1 /\ e \in 0 .. w - 1
      BY <3>2, <3>4, <3>5, <3>6
    <3> QED BY <3>1, <3>3, <3>4, <3>7, Zenon DEF Unsigned
  <2>3. Arith!Low(Arith!Divuw(x1, x2)) = IF b = 0 THEN Full2(WLEN) - 1 ELSE a \div b
    BY <1>3, <1>4, <1>7, <2>1, <2>2, Zenon DEF Arith!Divuw
  <2>4. Arith!Low(Arith!Remuw(x1, x2)) = IF b = 0 THEN a ELSE a % b
    BY <1>3, <1>4, <2>1, <2>2, Zenon DEF Arith!Remuw
  <2> QED BY <1>1, <2>3, <2>4, UnsignedDivision, Zenon
<1> QED BY <1>3, <1>4, <1>5, <1>6, <1>12, <1>13, Zenon DEF Arith!DivisionHolds

-----------------------------------------------------------------------------
(* Products, shifts, words, comparisons and jumps.                         *)

\* Bounds of a quotient from bounds of the dividend.
LEMMA QuotientBounds ==
    ASSUME NEW h \in Nat \ {0}, NEW x \in Int, NEW lo \in Int, NEW hi \in Int,
           h * lo <= x, x < h * hi
    PROVE  lo <= x \div h /\ x \div h < hi
<1>1. PICK q \in Int : q = x \div h
  BY IntSplit
<1>2. PICK r \in 0 .. h - 1 : r = x % h
  BY IntSplit
<1>3. x = h * q + r
  BY <1>1, <1>2, IntSplit
<1>4. PICK u \in Int : u = h * q
  OBVIOUS
<1>5. PICK l \in Int : l = h * lo
  OBVIOUS
<1>6. PICK m \in Int : m = h * hi
  OBVIOUS
<1>7. ~(q < lo)
  <2> SUFFICES ASSUME q < lo PROVE FALSE
    OBVIOUS
  <2>1. h * q + h <= h * lo
    BY IntTimesLess
  <2> QED BY ONLY <2>1, <1>3, <1>4, <1>5, h * lo <= x, h \in Nat \ {0}, r \in 0 .. h - 1
<1>8. ~(hi <= q)
  <2> SUFFICES ASSUME hi <= q PROVE FALSE
    OBVIOUS
  <2>1. h * hi <= h * q
    BY IntTimesMono
  <2> QED BY ONLY <2>1, <1>3, <1>4, <1>6, x < h * hi, h \in Nat \ {0}, r \in 0 .. h - 1
<1> QED BY <1>1, <1>7, <1>8

\* Bounds of a product of a signed number.
LEMMA ProductBounds ==
    ASSUME NEW g \in Nat \ {0}, NEW s \in Int, NEW m \in Nat, 0 - g <= s, s < g
    PROVE  0 - (g * m) <= s * m /\ s * m <= g * m /\ (m # 0 => s * m < g * m)
<1>1. PICK d \in Nat : d = s + g
  BY s + g \in Nat
<1>2. PICK e \in Nat \ {0} : e = g - s
  BY g - s \in Nat \ {0}
<1>3. d * m \in Nat /\ e * m \in Nat /\ (m # 0 => e * m # 0)
  OBVIOUS
<1>4. d * m = s * m + g * m /\ e * m = g * m - s * m
  BY <1>1, <1>2
<1> QED BY <1>3, <1>4

LEMMA AluProducts == ASSUME x1 \in Arith!Reg, x2 \in Arith!Reg PROVE Arith!ProductsAreWhole
<1>1. x1 \in Unsigned(XLEN) /\ x2 \in Unsigned(XLEN) /\ XLEN \in AluLens
  BY RegIs
<1>2. PICK B \in Nat \ {0} : B = Full2(XLEN) /\ B = 2^XLEN
  BY <1>1, LenIs DEF Full2
<1>3. PICK H \in Nat \ {0} : H = Half2(XLEN) /\ B = 2 * H
  BY <1>1, <1>2, LenIs
<1>4. PICK e \in Nat \ {0} : H = 2 * e
  BY <1>1, <1>3, LenIs
<1>5. PICK s1 \in Int : s1 = Arith!Signed(x1, XLEN) /\ 0 - H <= s1 /\ s1 < H /\ Same(s1, x1, B)
  BY <1>1, <1>2, <1>3, SignedIs, Zenon DEF InRange
<1>6. PICK s2 \in Int : s2 = Arith!Signed(x2, XLEN) /\ 0 - H <= s2 /\ s2 < H /\ Same(s2, x2, B)
  BY <1>1, <1>2, <1>3, SignedIs, Zenon DEF InRange
<1>7. x1 \in Nat /\ x2 \in Nat /\ x1 < B /\ x2 < B /\ x1 \in Int /\ x2 \in Int /\ x1 * x2 \in Int
  <2>1. x1 \in Nat /\ x2 \in Nat /\ x1 < B /\ x2 < B
    BY <1>1, <1>2, UnsignedIs
  <2> QED BY <2>1
<1>8. Arith!Mul(x1, x2) = (x1 * x2) % B
  BY <1>2, Zenon DEF Arith!Mul, Arith!Wrap
<1>9. ASSUME NEW p \in Int, Same(p, x1 * x2, B), NEW q \in Int, q = p \div B
      PROVE  q * B + Arith!Mul(x1, x2) = p
  <2>1. p % B = Arith!Mul(x1, x2)
    BY <1>8, <1>9, Zenon DEF Same
  <2>2. p = B * q + (p % B) /\ p % B \in Int
    BY <1>9, IntSplit
  <2> QED BY <2>1, <2>2
<1>10. ASSUME NEW q \in Int, 0 - H <= q, q < H
       PROVE  Arith!Signed(Arith!Wrap(q, XLEN), XLEN) = q
  <2>1. InRange(q, XLEN)
    BY <1>3, <1>10, Zenon DEF InRange
  <2> QED BY <1>1, <2>1, SignedOf, Zenon
<1>11. (Arith!Signed(Arith!Mulh(x1, x2), XLEN) * B) + Arith!Mul(x1, x2) = s1 * s2
  <2>1. PICK p \in Int : p = s1 * s2
    OBVIOUS
  <2>2. Same(p, x1 * x2, B)
    BY <1>5, <1>6, <1>7, <2>1, SameSums, Zenon
  <2>3. B * (0 - e) <= p /\ p < B * (e + 1)
    <3>1. H * H = 2 * (H * e) /\ H * H \in Nat /\ B * (0 - e) = 0 - (H * H)
      BY <1>3, <1>4
    <3>2. B * (e + 1) = H * H + B
      BY <1>3, <3>1
    <3>3. 0 - (H * H) <= p /\ p <= H * H
      <4>1. CASE s2 >= 0
        <5>1. s2 \in Nat /\ s2 <= H
          BY <1>6, <4>1
        <5>2. 0 - (H * s2) <= p /\ p <= H * s2
          BY <1>5, <2>1, <5>1, ProductBounds
        <5>3. H * s2 <= H * H
          BY <5>1, IntTimesMono
        <5> QED BY <5>1, <5>2, <5>3
      <4>2. CASE s2 < 0
        <5>1. PICK m \in Nat : m = 0 - s2 /\ m <= H
          <6>1. 0 - s2 \in Nat /\ 0 - s2 <= H
            BY <1>6, <4>2
          <6> QED BY <6>1, Zenon
        <5>2. 0 - (H * m) <= s1 * m /\ s1 * m <= H * m
          BY <1>5, <5>1, ProductBounds
        <5>3. H * m <= H * H
          BY <5>1, IntTimesMono
        <5>4. s1 * m = 0 - p
          BY <2>1, <5>1
        <5> QED BY <5>1, <5>2, <5>3, <5>4
      <4> QED BY <4>1, <4>2
    <3> QED BY <3>1, <3>2, <3>3, <1>3
  <2>4. PICK q \in Int : q = p \div B
    BY IntSplit
  <2>5. 0 - e <= q /\ q < e + 1
    BY <2>3, <2>4, QuotientBounds
  <2>6. 0 - H <= q /\ q < H
    BY <1>4, <2>5
  <2>7. Arith!Mulh(x1, x2) = Arith!Wrap(q, XLEN)
    BY <1>2, <1>5, <1>6, <2>1, <2>4, Zenon DEF Arith!Mulh
  <2>8. Arith!Signed(Arith!Mulh(x1, x2), XLEN) = q
    BY <1>10, <2>6, <2>7, Zenon
  <2>9. q * B + Arith!Mul(x1, x2) = p
    BY <1>9, <2>2, <2>4, Zenon
  <2> QED BY <2>1, <2>8, <2>9, Zenon
<1>12. (Arith!Signed(Arith!Mulhsu(x1, x2), XLEN) * B) + Arith!Mul(x1, x2) = s1 * x2
  <2>1. PICK p \in Int : p = s1 * x2
    BY <1>7
  <2>2. Same(p, x1 * x2, B)
    <3>1. Same(x2, x2, B)
      BY Zenon DEF Same
    <3> QED BY <1>5, <1>7, <2>1, <3>1, SameSums, Zenon
  <2>3. B * (0 - H) <= p /\ p < B * H
    <3>1. 0 - (H * x2) <= p /\ p <= H * x2
      BY <1>5, <1>7, <2>1, ProductBounds
    <3>2. H * x2 + H <= H * B
      BY <1>7, IntTimesLess
    <3>3. B * (0 - H) = 0 - (H * B) /\ B * H = H * B /\ H * x2 \in Nat /\ H * B \in Nat
      BY <1>7
    <3> QED BY <3>1, <3>2, <3>3
  <2>4. PICK q \in Int : q = p \div B
    BY IntSplit
  <2>5. 0 - H <= q /\ q < H
    BY <2>3, <2>4, QuotientBounds
  <2>6. PICK C \in Nat \ {0} : C = 2^(2 * XLEN) /\ C = B * B
    <3>1. XLEN \in 0 .. XLEN /\ XLEN + XLEN = 2 * XLEN
      BY AluPowers
    <3>2. 2^(XLEN + XLEN) = B * B
      BY <1>2, <3>1, AluPowers, Zenon
    <3>3. B * B \in Nat \ {0}
      OBVIOUS
    <3> QED BY <3>1, <3>2, <3>3, Zenon
  <2>7. PICK y \in Int : y = s1 % C /\ Same(y, s1, C)
    BY SameMod
  <2>8. Same(y * x2, p, C) /\ y * x2 \in Int
    <3>1. Same(x2, x2, C)
      BY Zenon DEF Same
    <3>2. y * x2 \in Int
      BY <1>7
    <3> QED BY <1>7, <2>1, <2>7, <3>1, <3>2, SameSums, Zenon
  <2>9. Arith!Mulhsu(x1, x2) = (p % C) \div B
    BY <1>2, <1>5, <2>6, <2>7, <2>8, Zenon DEF Arith!Mulhsu, Arith!Wrap, Same
  <2>10. PICK r \in 0 .. B - 1 : r = p % B /\ p = B * q + r
    BY <2>4, IntSplit
  <2>11. PICK k \in Int : k = q \div B
    BY IntSplit
  <2>12. PICK m \in 0 .. B - 1 : m = q % B /\ q = B * k + m
    BY <2>11, IntSplit
  <2>13. B * m + r \in 0 .. C - 1
    <3>1. B * m + B <= B * B
      BY IntTimesLess
    <3>2. B * m \in Nat
      OBVIOUS
    <3> QED BY ONLY <3>1, <3>2, <2>6, <2>10, B \in Nat \ {0}
  <2>14. p = C * k + (B * m + r)
    <3>1. B * (B * k + m) = (B * B) * k + B * m
      OBVIOUS
    <3>2. B * q = C * k + B * m
      BY <2>6, <2>12, <3>1, Zenon
    <3>3. C * k \in Int /\ B * m \in Int /\ B * q \in Int
      OBVIOUS
    <3> QED BY ONLY <2>10, <3>2, <3>3, r \in Int, p \in Int
  <2>15. p % C = B * m + r
    BY <2>13, <2>14, IntUnique DEF Splits
  <2>16. (B * m + r) \div B = m
    <3>1. B * m + r \in Int /\ Splits(B * m + r, B, m, r) /\ m \in Int
      BY DEF Splits
    <3> QED BY <3>1, IntUnique, Zenon
  <2>17. Arith!Mulhsu(x1, x2) = Arith!Wrap(q, XLEN)
    BY <1>2, <2>9, <2>12, <2>15, <2>16, Zenon DEF Arith!Wrap
  <2>18. Arith!Signed(Arith!Mulhsu(x1, x2), XLEN) = q
    BY <1>10, <2>5, <2>17, Zenon
  <2>19. q * B + Arith!Mul(x1, x2) = p
    BY <1>9, <2>2, <2>4, Zenon
  <2> QED BY <2>1, <2>18, <2>19, Zenon
<1>13. (Arith!Mulhu(x1, x2) * B) + Arith!Mul(x1, x2) = x1 * x2
  <2>1. PICK q \in Int : q = (x1 * x2) \div B
    BY <1>7, IntSplit
  <2>2. Arith!Mulhu(x1, x2) = q
    BY <1>2, <2>1, Zenon DEF Arith!Mulhu
  <2>3. Same(x1 * x2, x1 * x2, B)
    BY Zenon DEF Same
  <2> QED BY <1>7, <1>9, <2>1, <2>2, <2>3, Zenon
<1> QED BY <1>2, <1>5, <1>6, <1>11, <1>12, <1>13, Zenon DEF Arith!ProductsAreWhole

\* A shift amount is below the width, and a shift of a word depends on the word.
LEMMA ShiftAmounts ==
    ASSUME NEW b \in Nat
    PROVE  /\ Arith!ShX(b) \in 0 .. XLEN - 1
           /\ Arith!ShW(b) \in 0 .. WLEN - 1
           /\ Arith!ShW(Arith!Low(b)) = Arith!ShW(b)
<1>1. PICK k \in 1 .. WLEN : 2^k = WLEN
  BY CpuThreadAssumptions, Zenon DEF CpuThreadAssumptions, Arith!AluAssumption
<1>2. /\ WLEN \in Nat \ {0, 1} /\ XLEN = 2 * WLEN /\ XLEN \in Nat \ {0, 1}
      /\ k + 1 \in 0 .. XLEN /\ k \in 0 .. XLEN /\ 1 \in 0 .. XLEN /\ WLEN \in 0 .. XLEN
      /\ WLEN - k \in 0 .. XLEN /\ k + (WLEN - k) = WLEN
  BY <1>1, AluPowers
<1>3. 2^(1 + k) = 2^1 * 2^k /\ 2^1 = 2
  BY <1>2, AluPowers, Zenon
<1>4. 2^(k + 1) = XLEN
  BY <1>1, <1>2, <1>3
<1>5. Arith!LogX \in 0 .. XLEN /\ 2^Arith!LogX = XLEN
  BY <1>2, <1>4, Zenon DEF Arith!LogX
<1>6. PICK l \in 0 .. XLEN : l = Arith!LogX /\ 2^l = XLEN
  BY <1>5, Zenon
<1>7. l # 0
  BY <1>2, <1>6, AluPowers
<1>8. l - 1 \in 0 .. XLEN /\ 1 + (l - 1) = l
  BY <1>6, <1>7
<1>9. 2^(1 + (l - 1)) = 2^1 * 2^(l - 1) /\ 2^(l - 1) \in Nat
  BY <1>2, <1>8, AluPowers, Zenon
<1>10. 2^(l - 1) = WLEN
  BY <1>2, <1>3, <1>6, <1>8, <1>9
<1>11. Arith!ShX(b) = b % XLEN
  BY <1>6, Zenon DEF Arith!ShX, Arith!Wrap
<1>12. ASSUME NEW n \in Int PROVE Arith!ShW(n) = n % WLEN
  BY <1>6, <1>10, Zenon DEF Arith!ShW, Arith!Wrap
<1>13. b % XLEN \in 0 .. XLEN - 1 /\ b % WLEN \in 0 .. WLEN - 1
  BY <1>2, SplitOf
<1>14. PICK c \in Nat \ {0} : Full2(WLEN) = WLEN * c
  <2>1. 2^(k + (WLEN - k)) = 2^k * 2^(WLEN - k) /\ 2^(WLEN - k) \in Nat \ {0}
    BY <1>2, AluPowers, Zenon
  <2> QED BY <1>1, <1>2, <2>1, Zenon DEF Full2
<1>15. PICK v \in Int : v = Arith!Low(b) /\ Same(v, b, Full2(WLEN))
  <2>1. Arith!Low(b) \in Unsigned(WLEN) /\ Same(Arith!Low(b), b, Full2(WLEN))
    BY SextIs
  <2> QED BY <2>1, UnsignedIs, RegIs, Zenon
<1>16. PICK j \in Int : v = b + (WLEN * c) * j
  <2>1. WLEN * c \in Nat \ {0} /\ b \in Int /\ Same(v, b, WLEN * c)
    BY <1>2, <1>14, <1>15
  <2> QED BY <2>1, SameMeans, Zenon
<1>17. c * j \in Int /\ v = b + WLEN * (c * j) /\ b \in Int
  BY <1>16, <1>2
<1>18. Same(v, b, WLEN)
  BY <1>2, <1>17, SameIf, Zenon
<1>19. Arith!ShW(v) = Arith!ShW(b)
  BY <1>12, <1>17, <1>18, Zenon DEF Same
<1> QED BY <1>11, <1>12, <1>13, <1>15, <1>17, <1>19, Zenon

\* The bits shifted out are those below a power that divides that of the width.
LEMMA ShiftDivides ==
    ASSUME NEW n \in 0 .. XLEN - 1
    PROVE  /\ 2^n \in Nat \ {0}
           /\ \E c \in Nat \ {0} : Full2(XLEN) = 2^n * c
<1>1. n \in 0 .. XLEN /\ XLEN - n \in 0 .. XLEN /\ n + (XLEN - n) = XLEN
  BY AluPowers
<1>2. 2^(n + (XLEN - n)) = 2^n * 2^(XLEN - n) /\ 2^n \in Nat \ {0} /\ 2^(XLEN - n) \in Nat \ {0}
  BY <1>1, AluPowers, Zenon
<1> QED BY <1>1, <1>2, Zenon DEF Full2

LEMMA AluShifts == ASSUME x1 \in Arith!Reg, x2 \in Arith!Reg PROVE Arith!ShiftsLoseTheEnd
<1>1. x1 \in Unsigned(XLEN) /\ x2 \in Unsigned(XLEN) /\ XLEN \in AluLens
  BY RegIs
<1>2. PICK B \in Nat \ {0} : B = Full2(XLEN)
  BY <1>1, LenIs
<1>3. PICK H \in Nat \ {0} : H = Half2(XLEN) /\ B = 2 * H
  BY <1>1, <1>2, LenIs
<1>4. PICK s \in Int : s = Arith!Signed(x1, XLEN) /\ 0 - H <= s /\ s < H /\ Same(s, x1, B)
  BY <1>1, <1>2, <1>3, SignedIs, Zenon DEF InRange
<1>5. x1 \in Nat /\ x2 \in Nat /\ x1 < B /\ x1 \in Int
  BY <1>1, <1>2, UnsignedIs, Zenon
<1>6. PICK sh \in 0 .. XLEN - 1 : sh = Arith!ShX(x2)
  BY <1>5, ShiftAmounts
<1>7. PICK n \in Nat \ {0} : n = 2^sh
  BY ShiftDivides
<1>8. PICK c \in Nat \ {0} : B = n * c
  BY <1>2, <1>7, ShiftDivides
<1>9. PICK e \in 0 .. n - 1 : e = x1 % n
  BY <1>5, IntSplit
<1>10. PICK q \in Int : q = x1 \div n /\ x1 = n * q + e
  BY <1>5, <1>9, IntSplit
<1>11. PICK d \in Int : d = x1 - e
  BY <1>5
<1>12. d \in 0 .. B - 1
  <2>1. ~(q < 0)
    <3> SUFFICES ASSUME q < 0 PROVE FALSE
      OBVIOUS
    <3>1. n * q + n <= n * 0
      BY IntTimesLess
    <3>2. PICK u \in Int : u = n * q
      OBVIOUS
    <3> QED BY ONLY <3>1, <3>2, <1>10, <1>5, n \in Nat \ {0}, e \in 0 .. n - 1
  <2>2. n * q \in Nat
    BY <2>1
  <2> QED BY <1>5, <1>10, <1>11, <2>2
<1>13. d \in Unsigned(XLEN)
  BY <1>2, <1>12, Zenon DEF Unsigned
<1>14. Arith!RegOp("sll", Arith!RegOp("srl", x1, x2), x2) = d
  <2>1. Arith!RegOp("srl", x1, x2) = q
    BY <1>6, <1>7, <1>10, Zenon DEF Arith!RegOp
  <2>2. Arith!RegOp("sll", q, x2) = Arith!Wrap(q * n, XLEN)
    BY <1>6, <1>7, Zenon DEF Arith!RegOp
  <2>3. q * n = d /\ Same(d, d, B)
    BY <1>10, <1>11 DEF Same
  <2>4. Arith!Wrap(d, XLEN) = d
    BY <1>1, <1>2, <1>13, <2>3, WrapSmall, Zenon
  <2> QED BY <2>1, <2>2, <2>3, <2>4, Zenon
<1>15. PICK p \in Int : p = s \div n
  BY IntSplit
<1>16. s % n = e
  <2>1. PICK j \in Int : s = x1 + B * j
    BY <1>4, <1>5, SameMeans
  <2>2. c * j \in Int /\ (n * c) * j = n * (c * j)
    OBVIOUS
  <2>3. s = x1 + n * (c * j)
    BY <1>8, <2>1, <2>2, Zenon
  <2>4. Same(s, x1, n)
    BY <1>5, <2>2, <2>3, SameIf, Zenon
  <2> QED BY <1>9, <2>4, Zenon DEF Same
<1>17. s = n * p + e
  BY <1>15, <1>16, IntSplit
<1>18. 0 - H <= p /\ p < H /\ (p < 0 <=> s < 0)
  <2>1. n * (0 - H) <= s /\ s < n * H
    <3>1. n * H = H + (n - 1) * H /\ (n - 1) * H \in Nat /\ n * (0 - H) = 0 - (n * H)
      OBVIOUS
    <3> QED BY <1>4, <3>1
  <2>2. 0 - H <= p /\ p < H
    BY <1>15, <2>1, QuotientBounds
  <2>3. s < 0 => p < 0
    <3> SUFFICES ASSUME s < 0 PROVE p < 0
      OBVIOUS
    <3>1. s < n * 0 /\ n * (0 - H) <= s
      BY <2>1
    <3> QED BY <1>15, <3>1, QuotientBounds
  <2>4. ~(s < 0) => ~(p < 0)
    <3> SUFFICES ASSUME ~(s < 0) PROVE ~(p < 0)
      OBVIOUS
    <3>1. n * 0 <= s /\ s < n * H
      BY <2>1
    <3>2. 0 <= p
      BY <1>15, <3>1, QuotientBounds
    <3> QED BY <3>2
  <2> QED BY <2>2, <2>3, <2>4
<1>19. PICK r \in Int : r = Arith!RegOp("sra", x1, x2) /\ r = Arith!Wrap(p, XLEN) /\ Same(r, p, B)
  <2>1. Arith!RegOp("sra", x1, x2) = Arith!Wrap(p, XLEN)
    BY <1>4, <1>6, <1>7, <1>15, Zenon DEF Arith!RegOp, Arith!Sra
  <2>2. Arith!Wrap(p, XLEN) \in Nat /\ Same(Arith!Wrap(p, XLEN), p, B)
    BY <1>1, <1>2, WrapIs, Zenon
  <2> QED BY <2>1, <2>2
<1>20. Arith!RegOp("sll", r, x2) = d
  <2>1. Arith!RegOp("sll", r, x2) = Arith!Wrap(r * n, XLEN)
    BY <1>6, <1>7, Zenon DEF Arith!RegOp
  <2>2. r * n \in Int /\ p * n \in Int /\ p * n = s - e /\ n \in Int /\ e \in Int /\ d = x1 - e
    BY <1>11, <1>17
  <2>3. Same(n, n, B) /\ Same(e, e, B)
    BY Zenon DEF Same
  <2>4. Same(r * n, p * n, B)
    BY <1>19, <2>2, <2>3, SameSums, Zenon
  <2>5. Same(s - e, x1 - e, B)
    BY <1>4, <1>5, <2>2, <2>3, SameSums, Zenon
  <2>6. Same(r * n, d, B)
    BY <2>2, <2>4, <2>5, Zenon DEF Same
  <2> QED BY <1>1, <1>2, <1>13, <2>1, <2>2, <2>6, WrapSmall, Zenon
<1>21. Arith!Signed(r, XLEN) = p
  <2>1. InRange(p, XLEN)
    BY <1>3, <1>18, Zenon DEF InRange
  <2> QED BY <1>1, <1>19, <2>1, SignedOf, Zenon
<1>22. (p < 0) = (s < 0)
  BY <1>18
<1> QED BY <1>4, <1>6, <1>7, <1>9, <1>11, <1>14, <1>19, <1>20, <1>21, <1>22, Zenon
        DEF Arith!ShiftsLoseTheEnd

LEMMA AluWords == ASSUME x1 \in Arith!Reg, x2 \in Arith!Reg PROVE Arith!WordsAreExtended
<1>1. x1 \in Unsigned(XLEN) /\ x2 \in Unsigned(XLEN) /\ XLEN \in AluLens /\ WLEN \in AluLens
  BY RegIs
<1>2. x1 \in Nat /\ x2 \in Nat /\ x1 \in Int /\ x2 \in Int
  BY <1>1, UnsignedIs
<1>3. ASSUME NEW n \in Int
      PROVE  Arith!Sext(n) = Arith!Wrap(Arith!Signed(Arith!Low(Arith!Sext(n)), WLEN), XLEN)
  <2>1. Arith!Low(Arith!Sext(n)) = Arith!Wrap(n, WLEN)
    BY SextIs, Zenon DEF Arith!Low
  <2> QED BY <2>1, Zenon DEF Arith!Sext
<1>4. PICK w \in Nat \ {0} : w = Full2(WLEN)
  BY <1>1, LenIs
<1>5. 0 = Arith!Sext(0)
  <2>1. 0 \in Unsigned(WLEN) /\ 0 \in Unsigned(XLEN) /\ 0 \in Int
    BY <1>1, SignedZero
  <2>2. Same(0, 0, Full2(WLEN)) /\ Same(0, 0, Full2(XLEN))
    BY DEF Same
  <2>3. Arith!Wrap(0, WLEN) = 0 /\ Arith!Wrap(0, XLEN) = 0
    BY <1>1, <2>1, <2>2, WrapSmall, Zenon
  <2>4. Arith!Signed(0, WLEN) = 0
    BY <1>1, <2>1, SignedIs, Zenon
  <2> QED BY <2>3, <2>4, Zenon DEF Arith!Sext
<1>6. Arith!AllOnes = Arith!Sext(-1)
  <2>1. -1 \in Int /\ w - 1 \in Unsigned(WLEN) /\ Arith!Signed(w - 1, WLEN) = -1
    BY <1>1, <1>4, SignedZero
  <2>2. Same(-1, w - 1, w)
    <3>1. -1 = (w - 1) + w * (-1) /\ w - 1 \in Int
      OBVIOUS
    <3> QED BY <2>1, <3>1, SameIf, Zenon
  <2>3. Arith!Wrap(-1, WLEN) = w - 1
    BY <1>1, <1>4, <2>1, <2>2, WrapSmall, Zenon
  <2>4. PICK B \in Nat \ {0} : B = Full2(XLEN)
    BY <1>1, LenIs
  <2>5. B - 1 \in Unsigned(XLEN) /\ Arith!AllOnes = B - 1
    BY <1>1, <2>4, SignedZero DEF Arith!AllOnes, Full2
  <2>6. Same(-1, B - 1, B)
    <3>1. -1 = (B - 1) + B * (-1) /\ B - 1 \in Int
      OBVIOUS
    <3> QED BY <2>1, <3>1, SameIf, Zenon
  <2>7. Arith!Wrap(-1, XLEN) = B - 1
    BY <1>1, <2>1, <2>4, <2>5, <2>6, WrapSmall, Zenon
  <2> QED BY <2>1, <2>3, <2>5, <2>7, Zenon DEF Arith!Sext
<1>7. PICK a \in Unsigned(WLEN) : a = Arith!Low(x1) /\ Same(a, x1, w)
  BY <1>2, <1>4, SextIs, Zenon
<1>8. PICK b \in Unsigned(WLEN) : b = Arith!Low(x2) /\ Same(b, x2, w)
  BY <1>2, <1>4, SextIs, Zenon
<1>9. a \in Nat /\ b \in Nat /\ a \in Int /\ b \in Int
  BY <1>1, UnsignedIs
<1>10. PICK sh \in 0 .. WLEN - 1 : sh = Arith!ShW(x2) /\ sh = Arith!ShW(b)
  BY <1>2, <1>8, ShiftAmounts, Zenon
<1>11. PICK n \in Nat \ {0} : n = 2^sh
  <2>1. sh \in 0 .. XLEN - 1
    BY AluPowers
  <2> QED BY <2>1, ShiftDivides
<1>12. PICK s \in Int : s = Arith!Signed(a, WLEN)
  BY <1>1, SignedIs, Zenon DEF InRange
<1>13. PICK t \in Int : t = Arith!Signed(b, WLEN)
  BY <1>1, SignedIs, Zenon DEF InRange
<1>14. PICK y \in Int : y = Arith!Sext(x1) /\ Same(y, x1, w) /\ Arith!Low(y) = a
  BY <1>2, <1>4, <1>7, SextIs, Zenon
<1> DEFINE Ops == {"add", "sub", "sll", "srl", "sra", "mul"}
<1>15. ASSUME NEW op \in Ops
       PROVE  /\ \E m \in Int : Arith!Word(op, x1, x2) = Arith!Sext(m)
              /\ Arith!Word(op, x1, x2) = Arith!Word(op, y, b)
  <2>1. Same(x1, y, w) /\ Same(x2, b, w)
    BY <1>8, <1>14, Zenon DEF Same
  <2>2. Same(x1 + x2, y + b, w) /\ Same(x1 - x2, y - b, w) /\ Same(x1 * x2, y * b, w)
    BY <1>2, <1>9, <2>1, SameSums, Zenon
  <2>3. /\ x1 + x2 \in Int /\ y + b \in Int /\ x1 - x2 \in Int /\ y - b \in Int
        /\ x1 * x2 \in Int /\ y * b \in Int
    BY <1>2, <1>9
  <2>4. CASE op = "add"
    <3>1. Arith!Word(op, x1, x2) = Arith!Sext(x1 + x2) /\ Arith!Word(op, y, b) = Arith!Sext(y + b)
      BY <2>4, Zenon DEF Arith!Word
    <3> QED BY <1>4, <2>2, <2>3, <3>1, SextSame, Zenon
  <2>5. CASE op = "sub"
    <3>1. Arith!Word(op, x1, x2) = Arith!Sext(x1 - x2) /\ Arith!Word(op, y, b) = Arith!Sext(y - b)
      BY <2>5, Zenon DEF Arith!Word
    <3> QED BY <1>4, <2>2, <2>3, <3>1, SextSame, Zenon
  <2>6. CASE op = "mul"
    <3>1. Arith!Word(op, x1, x2) = Arith!Sext(x1 * x2) /\ Arith!Word(op, y, b) = Arith!Sext(y * b)
      BY <2>6, Zenon DEF Arith!Word
    <3> QED BY <1>4, <2>2, <2>3, <3>1, SextSame, Zenon
  <2>7. CASE op = "sll"
    <3>1. /\ Arith!Word(op, x1, x2) = Arith!Sext(a * n)
          /\ Arith!Word(op, y, b) = Arith!Sext(a * n)
      BY <2>7, <1>7, <1>10, <1>11, <1>14, Zenon DEF Arith!Word
    <3>2. a * n \in Int
      BY <1>9
    <3> QED BY <3>1, <3>2, Zenon
  <2>8. CASE op = "srl"
    <3>1. /\ Arith!Word(op, x1, x2) = Arith!Sext(a \div n)
          /\ Arith!Word(op, y, b) = Arith!Sext(a \div n)
      BY <2>8, <1>7, <1>10, <1>11, <1>14, Zenon DEF Arith!Word
    <3>2. a \div n \in Int
      BY <1>9, IntSplit
    <3> QED BY <3>1, <3>2, Zenon
  <2>9. CASE op = "sra"
    <3>1. /\ Arith!Word(op, x1, x2) = Arith!Sext(s \div n)
          /\ Arith!Word(op, y, b) = Arith!Sext(s \div n)
      BY <2>9, <1>7, <1>10, <1>11, <1>12, <1>14, Zenon DEF Arith!Word
    <3>2. s \div n \in Int
      BY IntSplit
    <3> QED BY <3>1, <3>2, Zenon
  <2> QED BY <2>4, <2>5, <2>6, <2>7, <2>8, <2>9
<1>16. \A r \in {Arith!Divw(x1, x2), Arith!Remw(x1, x2), Arith!Divuw(x1, x2), Arith!Remuw(x1, x2)} :
          \E m \in Int : r = Arith!Sext(m)
  <2>1. t # 0 => Arith!Quot(s, t) \in Int /\ Arith!Rest(s, t) \in Int
    BY <1>12, <1>13, QuotRest
  <2>2. b # 0 => a \div b \in Int /\ a % b \in Int
    <3>1. b # 0 => b \in Nat \ {0}
      BY <1>9
    <3>2. \A h \in Nat \ {0} : a \div h \in Int /\ a % h \in Int
      BY <1>9, SplitOf
    <3> QED BY <3>1, <3>2, Zenon
  <2>3. 0 \in Int /\ -1 \in Int
    OBVIOUS
  <2>4. \E m \in Int : Arith!Divw(x1, x2) = Arith!Sext(m)
    BY <1>6, <1>7, <1>8, <1>12, <1>13, <2>1, <2>3, Zenon DEF Arith!Divw
  <2>5. \E m \in Int : Arith!Remw(x1, x2) = Arith!Sext(m)
    BY <1>5, <1>7, <1>8, <1>12, <1>13, <2>1, <2>3, Zenon DEF Arith!Remw
  <2>6. \E m \in Int : Arith!Divuw(x1, x2) = Arith!Sext(m)
    BY <1>6, <1>7, <1>8, <2>2, <2>3, Zenon DEF Arith!Divuw
  <2>7. \E m \in Int : Arith!Remuw(x1, x2) = Arith!Sext(m)
    BY <1>7, <1>8, <1>9, <2>2, <2>3, Zenon DEF Arith!Remuw
  <2> QED BY <2>4, <2>5, <2>6, <2>7, Zenon
<1>17. \A r \in Arith!WordResults : \E m \in Int : r = Arith!Sext(m)
  BY <1>15, <1>16, Zenon DEF Arith!WordResults
<1>18. \A r \in Arith!WordResults : r = Arith!Wrap(Arith!Signed(Arith!Low(r), WLEN), XLEN)
  BY <1>3, <1>17, Zenon
<1> QED BY <1>8, <1>14, <1>15, <1>18, Zenon DEF Arith!WordsAreExtended

LEMMA AluComparisons == ASSUME x1 \in Arith!Reg, x2 \in Arith!Reg PROVE Arith!ComparisonsAgree
<1>1. x1 \in Unsigned(XLEN) /\ x2 \in Unsigned(XLEN) /\ XLEN \in AluLens
  BY RegIs
<1>2. PICK B \in Nat \ {0} : B = Full2(XLEN)
  BY <1>1, LenIs
<1>3. PICK H \in Nat \ {0} : H = Half2(XLEN) /\ B = 2 * H
  BY <1>1, <1>2, LenIs
<1>4. x1 \in 0 .. B - 1 /\ x2 \in 0 .. B - 1
  BY <1>1, <1>2, Zenon DEF Unsigned
<1>5. x1 \in Int /\ x2 \in Int /\ x1 - x2 \in Int
  BY <1>4
<1> DEFINE SignedBy(v) == IF v >= H THEN v - B ELSE v
<1>6. ASSUME NEW v \in Unsigned(XLEN) PROVE Arith!Signed(v, XLEN) = SignedBy(v)
  BY <1>1, <1>2, <1>3, SignedIs, Zenon
<1>7. PICK d \in 0 .. B - 1 : d = IF x1 < x2 THEN x1 - x2 + B ELSE x1 - x2
  BY <1>4
<1>8. d \in Unsigned(XLEN) /\ d \in Int
  <2>1. d \in Int
    BY <1>7
  <2> QED BY <1>2, <1>7, <2>1, Zenon DEF Unsigned
<1>9. Arith!RegOp("sub", x1, x2) = d
  <2>1. Same(x1 - x2, d, B)
    <3>1. CASE x1 < x2
      <4>1. x1 - x2 = d + B * (-1) /\ -1 \in Int /\ d \in Int
        BY <1>4, <1>7, <3>1
      <4> QED BY <1>5, <4>1, SameIf, Zenon
    <3>2. CASE ~(x1 < x2)
      BY <1>7, <3>2, Zenon DEF Same
    <3> QED BY <3>1, <3>2
  <2>2. Arith!Wrap(x1 - x2, XLEN) = d
    BY <1>1, <1>2, <1>5, <1>8, <2>1, WrapSmall, Zenon
  <2> QED BY <2>2, Zenon DEF Arith!RegOp
<1>10. PICK s1 \in Int : s1 = Arith!Signed(x1, XLEN) /\ s1 = SignedBy(x1)
  BY <1>1, <1>4, <1>6
<1>11. PICK s2 \in Int : s2 = Arith!Signed(x2, XLEN) /\ s2 = SignedBy(x2)
  BY <1>1, <1>4, <1>6
<1>12. PICK sd \in Int : sd = Arith!Signed(d, XLEN) /\ sd = SignedBy(d)
  BY <1>7, <1>8, <1>6
<1>13. Arith!Taken("blt", x1, x2) <=> s1 < s2
  BY <1>10, <1>11, Zenon DEF Arith!Taken, Arith!Blt
<1>14. Arith!Taken("bltu", x1, x2) <=> x1 < x2
  BY Zenon DEF Arith!Taken
<1>15. Arith!Taken("bge", x1, x2) <=> s1 >= s2
  BY <1>10, <1>11, Zenon DEF Arith!Taken
<1>16. Arith!Taken("bgeu", x1, x2) <=> x1 >= x2
  BY Zenon DEF Arith!Taken
<1>17. Arith!Taken("beq", x1, x2) <=> x1 = x2
  BY Zenon DEF Arith!Taken
<1>18. Arith!Taken("bne", x1, x2) <=> x1 # x2
  BY Zenon DEF Arith!Taken
<1>19. /\ s1 < s2 <=> ((sd < 0) # ((s1 < 0) # (s2 < 0) /\ (sd < 0) # (s1 < 0)))
  BY <1>3, <1>4, <1>7, <1>10, <1>11, <1>12
<1>20. Arith!RegOp("slt", x1, x2) = 1 <=> s1 < s2
  BY <1>10, <1>11 DEF Arith!RegOp, Arith!B2I
<1>21. Arith!RegOp("sltu", x1, x2) = 1 <=> x1 < x2
  BY DEF Arith!RegOp, Arith!B2I
<1>22. x1 < x2 <=> Arith!RegOp("add", d, x2) = x1 /\ d + x2 > Arith!AllOnes
  <2>1. Arith!AllOnes = B - 1
    BY <1>2, Zenon DEF Arith!AllOnes, Full2
  <2>2. Arith!RegOp("add", d, x2) = x1
    <3>1. d + x2 \in Int
      BY <1>4, <1>7
    <3>2. Same(d + x2, x1, B)
      <4>1. CASE x1 < x2
        <5>1. d + x2 = x1 + B * 1 /\ 1 \in Int
          BY <1>4, <1>7, <4>1
        <5> QED BY <1>5, <3>1, <5>1, SameIf, Zenon
      <4>2. CASE ~(x1 < x2)
        <5>1. d + x2 = x1
          BY <1>4, <1>7, <4>2
        <5> QED BY <5>1, Zenon DEF Same
      <4> QED BY <4>1, <4>2
    <3>3. Arith!Wrap(d + x2, XLEN) = x1
      BY <1>1, <1>2, <3>1, <3>2, WrapSmall, Zenon
    <3> QED BY <3>3, Zenon DEF Arith!RegOp
  <2>3. x1 < x2 <=> d + x2 > B - 1
    BY <1>4, <1>7
  <2> QED BY <2>1, <2>2, <2>3, Zenon
<1>23. (s1 >= s2 <=> ~(s1 < s2)) /\ (x1 >= x2 <=> ~(x1 < x2)) /\ (x1 = x2 <=> d = 0)
  BY <1>4, <1>7, <1>10, <1>11
<1>24. /\ Arith!Taken("bge", x1, x2) # Arith!Taken("blt", x1, x2)
       /\ Arith!Taken("bgeu", x1, x2) # Arith!Taken("bltu", x1, x2)
       /\ Arith!Taken("bne", x1, x2) # Arith!Taken("beq", x1, x2)
  BY <1>13, <1>14, <1>15, <1>16, <1>17, <1>18, <1>23, Zenon
<1> QED BY <1>9, <1>10, <1>11, <1>12, <1>13, <1>14, <1>17, <1>19, <1>20, <1>21, <1>22, <1>23,
           <1>24, Zenon DEF Arith!ComparisonsAgree

LEMMA AluJumps == ASSUME x1 \in Arith!Reg, x2 \in Arith!Reg PROVE Arith!JumpsReadFirst
<1>1. x1 \in Unsigned(XLEN) /\ x2 \in Unsigned(XLEN) /\ XLEN \in AluLens
  BY RegIs
<1>2. x1 \in Int /\ x2 \in Int /\ Same(x1, x1, Full2(XLEN)) /\ Same(x2, x2, Full2(XLEN))
  BY <1>1, UnsignedIs, Zenon
<1>3. Arith!Wrap(x1 + 0, XLEN) = x1 /\ Arith!Wrap(x2 + 0, XLEN) = x2
  <2>1. x1 + 0 = x1 /\ x2 + 0 = x2
    BY <1>2
  <2> QED BY <1>1, <1>2, <2>1, WrapSmall, Zenon
<1>4. Arith!Wrap(0 + 4, XLEN) = 4
  <2>1. PICK w \in Nat \ {0} : w = Full2(WLEN)
    BY LenIs, RegIs
  <2>2. PICK g \in Nat \ {0} : w = 2 * (2 * g)
    BY <2>1, LenIs, RegIs
  <2>3. PICK B \in Nat \ {0} : B = Full2(XLEN) /\ B = w * w
    BY <1>1, <2>1, LenIs, FullIsSquare
  <2>4. w * w = 4 * w + (w - 4) * w /\ w >= 4 /\ (w - 4) * w \in Nat
    BY <2>2
  <2>5. 4 \in 0 .. B - 1 /\ 0 + 4 = 4 /\ 4 \in Int
    BY <2>3, <2>4
  <2>6. 4 \in Unsigned(XLEN) /\ Same(4, 4, Full2(XLEN))
    BY <2>3, <2>5, Zenon DEF Unsigned, Same
  <2> QED BY <1>1, <2>5, <2>6, WrapSmall, Zenon
<1> SUFFICES ASSUME NEW rd \in 1 .. 2, NEW rs \in 1 .. 2, NEW j,
                    j = Arith!Jalr(<<x1, x2>>, 0, rd, rs, 0)
             PROVE  /\ j.pc = <<x1, x2>>[rs] - (<<x1, x2>>[rs] % 2)
                    /\ j.regs[rd] = 4 /\ \A k \in {1, 2} \ {rd} : j.regs[k] = <<x1, x2>>[k]
  BY DEF Arith!JumpsReadFirst
<1>5. Arith!Wrap(<<x1, x2>>[rs] + 0, XLEN) = <<x1, x2>>[rs]
  BY <1>3
<1>6. j.pc = <<x1, x2>>[rs] - (<<x1, x2>>[rs] % 2)
  BY <1>5 DEF Arith!Jalr
<1>7. j.regs = [<<x1, x2>> EXCEPT ![rd] = 4]
  BY <1>4, Zenon DEF Arith!Jalr
<1>8. DOMAIN <<x1, x2>> = {1, 2} /\ rd \in {1, 2}
  OBVIOUS
<1> QED BY <1>6, <1>7, <1>8

-----------------------------------------------------------------------------
(* Bits and the atomic operations.                                         *)

\* What holds at 0 and passes from each number to the next holds up to m.
LEMMA UpTo ==
    ASSUME NEW m \in Nat, NEW T, 0 \in T, \A n \in 1 .. m : n - 1 \in T => n \in T
    PROVE  \A n \in 0 .. m : n \in T
<1> DEFINE Open == {n \in 0 .. m : n \notin T}
<1> SUFFICES ASSUME Open # {} PROVE FALSE
  OBVIOUS
<1>1. Open \in SUBSET Nat
  OBVIOUS
<1>2. PICK n \in Open : \A k \in Open : n <= k
  BY <1>1, NatSetHasMin
<1>3. n \in 1 .. m /\ n - 1 \in 0 .. m /\ ~(n <= n - 1)
  BY <1>2
<1>4. n - 1 \in T
  BY <1>2, <1>3
<1> QED BY <1>2, <1>3, <1>4

\* The loop of FromBits, as the equation its function solves.
Weight(S, n) == IF n \in S THEN 2^n ELSE 0
SumBody(S, f, n) == IF n = 0 THEN 0 ELSE f[n - 1] + (IF n - 1 \in S THEN 2^(n - 1) ELSE 0)
SumSolves(S, f) == f = [n \in 0 .. XLEN |-> SumBody(S, f, n)]
SumOf(S) == CHOOSE f : SumSolves(S, f)

LEMMA FromBitsIs ==
    ASSUME NEW S
    PROVE  Arith!FromBits(S) = SumOf(S)[XLEN]
BY DEF Arith!FromBits, SumOf, SumSolves, SumBody

LEMMA SumExists ==
    ASSUME NEW S
    PROVE  \E f : SumSolves(S, f)
<1> DEFINE Body(f, n) == SumBody(S, f, n)
           Solved(m) == \E f : f = [n \in 0 .. m |-> Body(f, n)]
           T == {m \in 0 .. XLEN : Solved(m)}
<1>0. XLEN \in Nat
  BY AluPowers
<1>1. 0 \in T
  <2> DEFINE e == [n \in 0 .. 0 |-> 0]
  <2>1. e = [n \in 0 .. 0 |-> Body(e, n)]
    BY DEF SumBody
  <2>2. Solved(0)
    BY <2>1
  <2> HIDE DEF Solved
  <2> QED BY <1>0, <2>2
<1>2. ASSUME NEW m \in 1 .. XLEN, m - 1 \in T PROVE m \in T
  <2>1. PICK v : v = [n \in 0 .. m - 1 |-> Body(v, n)]
    BY <1>2
  <2> DEFINE u == [n \in 0 .. m |-> Body(v, n)]
  <2>2. ASSUME NEW n \in 0 .. m - 1 PROVE u[n] = v[n]
    <3>1. n \in 0 .. m
      BY <1>0
    <3>2. v[n] = Body(v, n)
      BY <2>1
    <3> HIDE DEF Body
    <3> QED BY <3>1, <3>2
  <2>3. ASSUME NEW n \in 0 .. m PROVE Body(u, n) = Body(v, n)
    <3>1. CASE n = 0
      BY <3>1 DEF SumBody
    <3>2. CASE n # 0
      <4>1. n - 1 \in 0 .. m - 1
        BY <3>2, <1>0
      <4>2. u[n - 1] = v[n - 1]
        BY <2>2, <4>1
      <4> HIDE DEF u
      <4> QED BY <3>2, <4>2, Zenon DEF SumBody
    <3> QED BY <3>1, <3>2
  <2>4. u = [n \in 0 .. m |-> Body(u, n)]
    <3> HIDE DEF Body
    <3> QED BY <2>3
  <2>5. Solved(m)
    BY <2>4
  <2>6. m \in 0 .. XLEN
    BY <1>0
  <2> HIDE DEF Solved
  <2> QED BY <2>5, <2>6
<1> HIDE DEF T
<1>3. \A m \in 0 .. XLEN : m \in T
  BY <1>0, <1>1, <1>2, UpTo
<1>4. XLEN \in T
  BY <1>0, <1>3
<1> QED BY <1>4 DEF T, SumSolves

LEMMA SumSteps ==
    ASSUME NEW S
    PROVE  /\ SumOf(S)[0] = 0
           /\ \A n \in 1 .. XLEN : SumOf(S)[n] = SumOf(S)[n - 1] + Weight(S, n - 1)
<1> DEFINE f == SumOf(S)
<1>0. XLEN \in Nat
  BY AluPowers
<1>1. SumSolves(S, f)
  <2>1. \E g : SumSolves(S, g)
    BY SumExists, Zenon
  <2> QED BY <2>1, Zenon DEF SumOf
<1>2. f = [n \in 0 .. XLEN |-> SumBody(S, f, n)]
  BY <1>1, Zenon DEF SumSolves
<1> HIDE DEF f
<1>3. ASSUME NEW n \in 0 .. XLEN PROVE f[n] = SumBody(S, f, n)
  BY <1>2, Zenon
<1>4. 0 \in 0 .. XLEN /\ \A n \in 1 .. XLEN : n \in 0 .. XLEN /\ n # 0
  BY <1>0
<1>5. f[0] = 0
  BY <1>3, <1>4, Zenon DEF SumBody
<1>6. \A n \in 1 .. XLEN : f[n] = f[n - 1] + Weight(S, n - 1)
  BY <1>3, <1>4, Zenon DEF SumBody, Weight
<1> QED BY <1>5, <1>6, Zenon DEF f

LEMMA WeightNat ==
    ASSUME NEW S, NEW n \in 0 .. XLEN
    PROVE  Weight(S, n) \in Nat
BY AluPowers DEF Weight

LEMMA SumNat ==
    ASSUME NEW S, NEW n \in 0 .. XLEN
    PROVE  SumOf(S)[n] \in Nat
<1> DEFINE T == {k \in 0 .. XLEN : SumOf(S)[k] \in Nat}
<1>0. XLEN \in Nat
  BY AluPowers
<1>1. 0 \in T
  BY <1>0, SumSteps
<1>2. ASSUME NEW k \in 1 .. XLEN, k - 1 \in T PROVE k \in T
  <2>1. SumOf(S)[k] = SumOf(S)[k - 1] + Weight(S, k - 1) /\ k - 1 \in 0 .. XLEN /\ k \in 0 .. XLEN
    BY <1>0, SumSteps
  <2>2. Weight(S, k - 1) \in Nat /\ SumOf(S)[k - 1] \in Nat
    BY <1>2, <2>1, WeightNat
  <2> QED BY <2>1, <2>2
<1> HIDE DEF T
<1>3. n \in T
  BY <1>0, <1>1, <1>2, UpTo
<1> QED BY <1>3 DEF T

\* Intersection and union have the bits of both sets together, and what is in one of
\* them only makes up the difference.
LEMMA SumsMeet ==
    ASSUME NEW S, NEW R
    PROVE  /\ Arith!FromBits(S \cap R) + Arith!FromBits(S \cup R)
              = Arith!FromBits(S) + Arith!FromBits(R)
           /\ Arith!FromBits((S \ R) \cup (R \ S))
              = Arith!FromBits(S \cup R) - Arith!FromBits(S \cap R)
<1> DEFINE I == S \cap R
           U == S \cup R
           X == (S \ R) \cup (R \ S)
           T == {n \in 0 .. XLEN : /\ SumOf(I)[n] + SumOf(U)[n] = SumOf(S)[n] + SumOf(R)[n]
                                   /\ SumOf(X)[n] = SumOf(U)[n] - SumOf(I)[n]}
<1>0. XLEN \in Nat
  BY AluPowers
<1>1. 0 \in T
  <2>1. SumOf(I)[0] = 0 /\ SumOf(U)[0] = 0 /\ SumOf(S)[0] = 0 /\ SumOf(R)[0] = 0 /\ SumOf(X)[0] = 0
    BY SumSteps, Zenon
  <2> HIDE DEF I, U, X
  <2> QED BY <1>0, <2>1
<1>2. ASSUME NEW n \in 1 .. XLEN, n - 1 \in T PROVE n \in T
  <2>0. n - 1 \in 0 .. XLEN /\ n \in 0 .. XLEN
    BY <1>0
  <2>1. PICK p \in Nat : p = 2^(n - 1)
    BY <2>0, AluPowers
  <2>2. /\ Weight(S, n - 1) = IF n - 1 \in S THEN p ELSE 0
        /\ Weight(R, n - 1) = IF n - 1 \in R THEN p ELSE 0
        /\ Weight(I, n - 1) = IF n - 1 \in S /\ n - 1 \in R THEN p ELSE 0
        /\ Weight(U, n - 1) = IF n - 1 \in S \/ n - 1 \in R THEN p ELSE 0
        /\ Weight(X, n - 1) = IF (n - 1 \in S) <=> (n - 1 \in R) THEN 0 ELSE p
    BY <2>1, Zenon DEF Weight
  <2> HIDE DEF I, U, X
  <2>3. /\ SumOf(S)[n] = SumOf(S)[n - 1] + Weight(S, n - 1)
        /\ SumOf(R)[n] = SumOf(R)[n - 1] + Weight(R, n - 1)
        /\ SumOf(I)[n] = SumOf(I)[n - 1] + Weight(I, n - 1)
        /\ SumOf(U)[n] = SumOf(U)[n - 1] + Weight(U, n - 1)
        /\ SumOf(X)[n] = SumOf(X)[n - 1] + Weight(X, n - 1)
    BY SumSteps, Zenon
  <2>4. PICK s \in Nat : s = SumOf(S)[n - 1]
    BY <2>0, SumNat
  <2>5. PICK r \in Nat : r = SumOf(R)[n - 1]
    BY <2>0, SumNat
  <2>6. PICK i \in Nat : i = SumOf(I)[n - 1]
    BY <2>0, SumNat
  <2>7. PICK u \in Nat : u = SumOf(U)[n - 1]
    BY <2>0, SumNat
  <2>8. PICK x \in Nat : x = SumOf(X)[n - 1]
    BY <2>0, SumNat
  <2>9. i + u = s + r /\ x = u - i
    BY <1>2, <2>4, <2>5, <2>6, <2>7, <2>8
  <2>10. PICK ws \in Nat : ws = Weight(S, n - 1)
    BY <2>0, WeightNat
  <2>11. PICK wr \in Nat : wr = Weight(R, n - 1)
    BY <2>0, WeightNat
  <2>12. PICK wi \in Nat : wi = Weight(I, n - 1)
    BY <2>0, WeightNat
  <2>13. PICK wu \in Nat : wu = Weight(U, n - 1)
    BY <2>0, WeightNat
  <2>14. PICK wx \in Nat : wx = Weight(X, n - 1)
    BY <2>0, WeightNat
  <2>15. wi + wu = ws + wr /\ wx = wu - wi
    BY <2>2, <2>10, <2>11, <2>12, <2>13, <2>14
  <2>16. (i + wi) + (u + wu) = (s + ws) + (r + wr) /\ x + wx = (u + wu) - (i + wi)
    BY ONLY <2>9, <2>15, s \in Nat, r \in Nat, i \in Nat, u \in Nat, x \in Nat,
            ws \in Nat, wr \in Nat, wi \in Nat, wu \in Nat, wx \in Nat
  <2> QED BY <2>0, <2>3, <2>4, <2>5, <2>6, <2>7, <2>8, <2>10, <2>11, <2>12, <2>13, <2>14, <2>16, Zenon
<1> HIDE DEF T
<1>3. XLEN \in 0 .. XLEN /\ XLEN \in T
  BY <1>0, <1>1, <1>2, UpTo
<1> QED BY <1>3, FromBitsIs, Zenon DEF T

\* A register is made of its bits.
LEMMA BitsMake ==
    ASSUME NEW v \in Unsigned(XLEN)
    PROVE  Arith!FromBits(Arith!BitsOf(v)) = v
<1> DEFINE S == Arith!BitsOf(v)
           T == {n \in 0 .. XLEN : SumOf(S)[n] = v % 2^n}
<1>0. XLEN \in Nat /\ v \in Nat
  BY AluPowers, UnsignedIs, RegIs
<1>1. 0 \in T
  <2>1. v % 1 = 0
    BY <1>0
  <2>2. SumOf(S)[0] = 0 /\ 2^0 = 1
    BY SumSteps, AluPowers, Zenon
  <2> QED BY <1>0, <2>1, <2>2
<1>2. ASSUME NEW n \in 1 .. XLEN, n - 1 \in T PROVE n \in T
  <2>0. n - 1 \in 0 .. XLEN /\ n \in 0 .. XLEN /\ n - 1 \in 0 .. XLEN - 1 /\ 1 \in 0 .. XLEN
        /\ (n - 1) + 1 = n
    BY <1>0
  <2>1. PICK p \in Nat \ {0} : p = 2^(n - 1)
    BY <2>0, AluPowers
  <2>2. 2^n = p * 2
    <3>1. 2^((n - 1) + 1) = 2^(n - 1) * 2^1 /\ 2^1 = 2
      BY <2>0, AluPowers, Zenon
    <3> QED BY <2>0, <2>1, <3>1, Zenon
  <2>3. PICK q \in Nat : q = v \div p
    BY <1>0, SplitOf
  <2>4. PICK e \in 0 .. p - 1 : e = v % p /\ v = p * q + e
    BY <1>0, <2>3, SplitOf
  <2>5. PICK c \in {0, 1} : c = q % 2
    OBVIOUS
  <2>6. PICK d \in Nat : q = 2 * d + c
    BY <2>5
  <2>7. PICK f \in 0 .. p * 2 - 1 : f = p * c + e
    BY p * c \in {0, p}
  <2>8. v = (p * 2) * d + f
    <3>1. p * (2 * d + c) = (p * 2) * d + p * c
      OBVIOUS
    <3> QED BY <2>4, <2>6, <2>7, <3>1
  <2>9. v % 2^n = f
    <3>1. p * 2 \in Nat \ {0} /\ Splits(v, p * 2, d, f)
      BY <2>8 DEF Splits
    <3>2. v % (p * 2) = f
      BY <1>0, <3>1, SplitUnique, Zenon
    <3> QED BY <2>2, <3>2, Zenon
  <2>10. n - 1 \in S <=> c = 1
    BY <2>0, <2>1, <2>3, <2>5, Zenon DEF Arith!BitsOf
  <2>11. Weight(S, n - 1) = p * c
    <3>1. CASE c = 1
      BY <2>1, <2>10, <3>1 DEF Weight
    <3>2. CASE c = 0
      BY <2>1, <2>10, <3>2 DEF Weight
    <3> QED BY <3>1, <3>2
  <2>12. SumOf(S)[n] = SumOf(S)[n - 1] + Weight(S, n - 1)
    BY SumSteps, Zenon
  <2>13. SumOf(S)[n - 1] = e
    BY <1>2, <2>1, <2>4
  <2>14. e + p * c = f
    BY <2>7
  <2>15. SumOf(S)[n] = f
    BY <2>11, <2>12, <2>13, <2>14, Zenon
  <2> QED BY <2>0, <2>9, <2>15, Zenon
<1> HIDE DEF T, S
<1>3. XLEN \in 0 .. XLEN /\ XLEN \in T
  BY <1>0, <1>1, <1>2, UpTo
<1>4. v % 2^XLEN = v
  <2>1. PICK B \in Nat \ {0} : B = 2^XLEN
    BY <1>3, AluPowers
  <2>2. v \in 0 .. B - 1
    BY <2>1, Zenon DEF Unsigned, Full2
  <2> QED BY <2>1, <2>2
<1> QED BY <1>3, <1>4, FromBitsIs, Zenon DEF T, S

AmoNames == {"add", "and", "or", "xor", "max", "maxu", "min", "minu", "swap"}

LEMMA AluAmos == ASSUME x1 \in Arith!Reg, x2 \in Arith!Reg PROVE Arith!AmosUseTheWord
<1>1. x1 \in Unsigned(XLEN) /\ x2 \in Unsigned(XLEN) /\ XLEN \in AluLens /\ WLEN \in AluLens
  BY RegIs
<1>2. x1 \in Int /\ x2 \in Int
  BY <1>1, UnsignedIs
<1>3. PICK w \in Nat \ {0} : w = Full2(WLEN)
  BY <1>1, LenIs
<1>4. PICK t \in Unsigned(WLEN) : t = Arith!Low(x1)
  BY <1>2, SextIs
<1>5. PICK v \in Unsigned(WLEN) : v = Arith!Low(x2) /\ Same(v, x2, w) /\ Arith!Low(Arith!Sext(x2)) = v
  BY <1>2, <1>3, SextIs, Zenon
<1>6. t \in Nat /\ v \in Nat /\ t \in Int /\ v \in Int /\ Same(t, t, w)
  BY <1>1, <1>3, UnsignedIs, Zenon
<1>7. Arith!AmoOperand(x2, WLEN) = v /\ Arith!AmoOperand(Arith!Sext(x2), WLEN) = v
  BY <1>5, Zenon DEF Arith!AmoOperand, Arith!Low
<1>8. PICK s \in Int : s = Arith!Signed(t, WLEN) /\ Arith!Wrap(s, WLEN) = t /\ Same(s, t, w)
  BY <1>1, <1>3, SignedIs, Zenon DEF InRange
<1>9. PICK u \in Int : u = Arith!Signed(v, WLEN) /\ Arith!Wrap(u, WLEN) = v /\ Same(u, v, w)
  BY <1>1, <1>3, SignedIs, Zenon DEF InRange
<1> DEFINE r == [op \in AmoNames |-> Arith!AmoOp(op, t, x2, WLEN)]
<1>10. \A op \in AmoNames : r[op] = Arith!AmoOp(op, t, Arith!Sext(x2), WLEN)
  BY <1>7, Zenon DEF Arith!AmoOp
<1>11. r["max"] = Arith!Wrap(Arith!MaxOf(s, u), WLEN) /\ r["min"] = Arith!Wrap(Arith!MinOf(s, u), WLEN)
  BY <1>7, <1>8, <1>9, Zenon DEF Arith!AmoOp, AmoNames
<1>12. r["maxu"] = Arith!MaxOf(t, v) /\ r["minu"] = Arith!MinOf(t, v)
  BY <1>7, Zenon DEF Arith!AmoOp, AmoNames
<1>13. r["add"] = Arith!Wrap(s + u, WLEN)
  BY <1>7, <1>8, <1>9, Zenon DEF Arith!AmoOp, AmoNames
<1>14. /\ r["and"] = Arith!BitAnd(t, v) /\ r["or"] = Arith!BitOr(t, v)
       /\ r["xor"] = Arith!BitXor(t, v)
  BY <1>7, Zenon DEF Arith!AmoOp, AmoNames
<1> HIDE DEF r
<1>15. /\ r["max"] \in {t, v} /\ r["min"] \in {t, v}
       /\ Arith!Signed(r["max"], WLEN) >= Arith!Signed(r["min"], WLEN)
  <2>1. CASE s < u
    <3>1. ~(u < s)
      BY <2>1
    <3>2. r["max"] = v /\ r["min"] = t
      BY <1>8, <1>9, <1>11, <2>1, <3>1, Zenon DEF Arith!MaxOf, Arith!MinOf
    <3> QED BY <1>8, <1>9, <2>1, <3>2
  <2>2. CASE u < s
    <3>1. ~(s < u)
      BY <2>2
    <3>2. r["max"] = t /\ r["min"] = v
      BY <1>8, <1>9, <1>11, <2>2, <3>1, Zenon DEF Arith!MaxOf, Arith!MinOf
    <3> QED BY <1>8, <1>9, <2>2, <3>2
  <2>3. CASE s = u
    <3>1. r["max"] = t /\ r["min"] = t
      BY <1>8, <1>9, <1>11, <2>3, Zenon DEF Arith!MaxOf, Arith!MinOf
    <3> QED BY <1>8, <3>1
  <2> QED BY <2>1, <2>2, <2>3
<1>16. r["maxu"] \in {t, v} /\ r["minu"] \in {t, v} /\ r["maxu"] >= r["minu"]
  BY <1>6, <1>12 DEF Arith!MaxOf, Arith!MinOf
<1>17. r["add"] = Arith!Low(Arith!Word("add", t, x2))
  <2>1. t + x2 \in Int /\ s + u \in Int
    BY <1>2, <1>6
  <2>2. Arith!Low(Arith!Word("add", t, x2)) = Arith!Low(t + x2)
    BY <2>1, SextIs, Zenon DEF Arith!Word
  <2>3. Same(u, x2, w)
    BY <1>5, <1>9, Zenon DEF Same
  <2>4. Same(s + u, t + x2, w)
    BY <1>2, <1>6, <1>8, <2>3, SameSums, Zenon
  <2>5. Arith!Low(s + u) = Arith!Low(t + x2)
    BY <1>3, <2>1, <2>4, SextSame, Zenon
  <2> QED BY <1>13, <2>2, <2>5, Zenon DEF Arith!Low
<1>18. r["and"] + r["or"] = t + v /\ r["xor"] = r["or"] - r["and"]
  <2>1. t \in Unsigned(XLEN) /\ v \in Unsigned(XLEN)
    <3>1. PICK B \in Nat \ {0} : B = Full2(XLEN) /\ B = w * w
      BY <1>1, <1>3, LenIs, FullIsSquare
    <3>2. w * w = w + (w - 1) * w /\ (w - 1) * w \in Nat
      OBVIOUS
    <3>3. t \in 0 .. w - 1 /\ v \in 0 .. w - 1
      BY <1>3, Zenon DEF Unsigned
    <3>4. t \in 0 .. B - 1 /\ v \in 0 .. B - 1
      BY <3>1, <3>2, <3>3
    <3> QED BY <3>1, <3>4, Zenon DEF Unsigned
  <2>2. Arith!FromBits(Arith!BitsOf(t)) = t /\ Arith!FromBits(Arith!BitsOf(v)) = v
    BY <2>1, BitsMake, Zenon
  <2>3. /\ Arith!BitAnd(t, v) + Arith!BitOr(t, v) = t + v
        /\ Arith!BitXor(t, v) = Arith!BitOr(t, v) - Arith!BitAnd(t, v)
    <3> DEFINE S == Arith!BitsOf(t)
               R == Arith!BitsOf(v)
    <3>1. /\ Arith!FromBits(S \cap R) + Arith!FromBits(S \cup R)
             = Arith!FromBits(S) + Arith!FromBits(R)
          /\ Arith!FromBits((S \ R) \cup (R \ S))
             = Arith!FromBits(S \cup R) - Arith!FromBits(S \cap R)
      <4> HIDE DEF S, R
      <4> QED BY SumsMeet
    <3>2. /\ Arith!BitAnd(t, v) = Arith!FromBits(S \cap R)
          /\ Arith!BitOr(t, v) = Arith!FromBits(S \cup R)
          /\ Arith!BitXor(t, v) = Arith!FromBits((S \ R) \cup (R \ S))
      BY Zenon DEF Arith!BitAnd, Arith!BitOr, Arith!BitXor
    <3> QED BY <2>2, <3>1, <3>2, Zenon
  <2> QED BY <1>14, <2>3, Zenon
<1>19. \A op \in {"max", "min", "maxu", "minu"} : r[op] \in {t, v}
  BY <1>15, <1>16, Zenon
<1> QED BY <1>4, <1>5, <1>10, <1>15, <1>16, <1>17, <1>18, <1>19, Zenon
        DEF Arith!AmosUseTheWord, r, AmoNames

LEMMA AluLaws ==
    ASSUME x1 \in Arith!Reg, x2 \in Arith!Reg
    PROVE  /\ Arith!DivisionHolds /\ Arith!ProductsAreWhole /\ Arith!ShiftsLoseTheEnd
           /\ Arith!WordsAreExtended /\ Arith!AmosUseTheWord
           /\ Arith!ComparisonsAgree /\ Arith!JumpsReadFirst
BY AluDivision, AluProducts, AluShifts, AluWords, AluAmos, AluComparisons, AluJumps, Zenon

-----------------------------------------------------------------------------
(* Floating-point values.                                                  *)

Formats == {Float!Single, Float!Double}
FullOf(f) == 2^Float!Width(f)

\* The powers of the fields: the sign, the exponent, the fraction and its first bit.
LEMMA FormatIs ==
    ASSUME NEW f \in Formats
    PROVE  /\ 2^f.exp \in Nat \ {0, 1} /\ 2^(f.frac - 1) \in Nat \ {0}
           /\ 2^f.frac = 2 * 2^(f.frac - 1) /\ Float!SIGN(f) = 2^f.exp * 2^f.frac
           /\ FullOf(f) = 2 * Float!SIGN(f)
<1>1. Float!FieldFacts /\ Fpu!PowerFacts
  BY CpuThreadAssumptions, Zenon DEF CpuThreadAssumptions
<1>2. /\ 2^f.exp \in Nat \ {0, 1} /\ 2^(f.frac - 1) \in Nat \ {0}
      /\ 2^f.frac = 2 * 2^(f.frac - 1) /\ Float!SIGN(f) = 2^f.exp * 2^f.frac
  BY <1>1, Zenon DEF Float!FieldFacts, Formats
<1>3. Formats = {Fpu!Single, Fpu!Double}
  BY Zenon DEF Formats, Float!Single, Float!Double, Fpu!Single, Fpu!Double
<1>4. 2^Fpu!Width(f) = 2 * Fpu!SIGN(f)
  BY <1>1, <1>3, Zenon DEF Fpu!PowerFacts
<1>5. FullOf(f) = 2 * Float!SIGN(f)
  BY <1>4, Zenon DEF FullOf, Float!Width, Fpu!Width, Float!SIGN, Fpu!SIGN
<1> QED BY <1>2, <1>5, Zenon

\* The magnitude and the sign make the value, and the fields are those of the
\* magnitude: what a value is follows from where its magnitude lies.
Fields(f, v, S, F, K, I, m) ==
    /\ S = Float!SIGN(f) /\ FullOf(f) = 2 * S
    /\ F = 2^f.frac /\ K = 2^(f.frac - 1) /\ I = Float!Inf(f)
    /\ F = 2 * K /\ S = I + F /\ F <= I
    /\ m = Float!Magnitude(f, v) /\ m < S
    /\ v = (IF Float!isNegative(f, v) THEN S + m ELSE m)
    /\ Float!isNegative(f, v) <=> v >= S
    /\ Float!ExpOf(f, v) = 2^f.exp - 1 <=> m >= I
    /\ Float!ExpOf(f, v) = 0 <=> m < F
    /\ m >= I => Float!FracOf(f, v) = m - I
    /\ m < F => Float!FracOf(f, v) = m

LEMMA FieldsAre ==
    ASSUME NEW f \in Formats, NEW v \in Float!Values(f)
    PROVE  \E S \in Nat \ {0}, F \in Nat \ {0}, K \in Nat \ {0}, I \in Nat, m \in Nat :
              Fields(f, v, S, F, K, I, m)
<1>1. PICK E \in Nat \ {0, 1} : E = 2^f.exp
  BY FormatIs
<1>2. PICK K \in Nat \ {0} : K = 2^(f.frac - 1)
  BY FormatIs
<1>3. PICK F \in Nat \ {0} : F = 2^f.frac /\ F = 2 * K
  BY <1>2, FormatIs
<1>4. PICK S \in Nat \ {0} : S = Float!SIGN(f) /\ S = E * F /\ FullOf(f) = 2 * S
  BY <1>1, <1>3, FormatIs
<1>5. PICK I \in Nat : I = Float!Inf(f) /\ I = (E - 1) * F
  BY <1>1, <1>3 DEF Float!Inf
<1>6. S = I + F /\ F <= I
  <2>1. E * F = (E - 1) * F + F /\ (E - 1) * F = F + (E - 2) * F /\ (E - 2) * F \in Nat
    OBVIOUS
  <2> QED BY <1>4, <1>5, <2>1
<1>7. v \in 0 .. 2 * S - 1
  BY <1>4, Zenon DEF Float!Values, FullOf
<1>8. Float!isNegative(f, v) <=> v >= S
  BY <1>4, Zenon DEF Float!isNegative
<1>9. PICK m \in 0 .. S - 1 : m = IF v >= S THEN v - S ELSE v
  <2>1. CASE v >= S
    <3>1. v - S \in 0 .. S - 1
      BY <1>7, <2>1
    <3> QED BY <2>1, <3>1, Zenon
  <2>2. CASE ~(v >= S)
    <3>1. v \in 0 .. S - 1
      BY <1>7, <2>2
    <3> QED BY <2>2, <3>1, Zenon
  <2> QED BY <2>1, <2>2
<1>10. Float!Magnitude(f, v) = m
  <2>1. v \in Int /\ m \in Int
    BY <1>7
  <2>2. \E k \in Int : v = m + S * k
    <3>1. CASE v >= S
      <4>1. v = m + S * 1
        BY <1>7, <1>9, <3>1
      <4> QED BY <4>1
    <3>2. CASE ~(v >= S)
      <4>1. v = m + S * 0
        BY <1>7, <1>9, <3>2
      <4> QED BY <4>1
    <3> QED BY <3>1, <3>2
  <2>3. Same(v, m, S)
    BY <2>1, <2>2, SameIf, Zenon
  <2>4. v % S = m
    BY <2>1, <2>3, SameSmall, Zenon
  <2> QED BY <1>4, <2>4, Zenon DEF Float!Magnitude
<1>11. PICK e \in Nat : e = m \div F
  <2>1. m \in Nat
    OBVIOUS
  <2> QED BY <2>1, SplitOf
<1>12. PICK r \in 0 .. F - 1 : r = m % F /\ m = F * e + r
  <2>1. m \in Nat
    OBVIOUS
  <2>2. m % F \in 0 .. F - 1 /\ m = F * (m \div F) + (m % F)
    BY <2>1, SplitOf
  <2> QED BY <1>11, <2>2, Zenon
<1>13. e < E
  <2> SUFFICES ASSUME E <= e PROVE FALSE
    OBVIOUS
  <2>1. F * E <= F * e
    BY IntTimesMono
  <2>2. PICK u \in Nat : u = F * e
    OBVIOUS
  <2>3. F * E = S
    BY <1>4
  <2> QED BY ONLY <2>1, <2>2, <2>3, <1>12, m \in 0 .. S - 1, F \in Nat, S \in Nat
<1>14. Float!ExpOf(f, v) = e /\ Float!FracOf(f, v) = r
  <2>1. \E k \in {0, 1} : v = F * (E * k + e) + r
    <3>1. CASE v >= S
      <4>1. v = S + m
        BY <1>7, <1>9, <3>1
      <4>2. F * (E * 1 + e) = E * F + F * e
        OBVIOUS
      <4>3. v = F * (E * 1 + e) + r
        BY <1>4, <1>12, <4>1, <4>2
      <4> QED BY <4>3
    <3>2. CASE ~(v >= S)
      <4>1. v = F * (E * 0 + e) + r
        BY <1>9, <1>12, <3>2
      <4> QED BY <4>1
    <3> QED BY <3>1, <3>2
  <2>2. PICK k \in {0, 1} : v = F * (E * k + e) + r
    BY <2>1
  <2>3. PICK y \in Nat : y = E * k + e
    OBVIOUS
  <2>4. v \in Nat /\ Splits(v, F, y, r)
    BY <1>7, <2>2, <2>3 DEF Splits
  <2>5. v % F = r /\ v \div F = y
    BY <2>4, SplitUnique, SplitUniqueDiv, Zenon
  <2>6. Splits(y, E, k, e) /\ e \in 0 .. E - 1 /\ E \in Nat \ {0} /\ k \in Nat
    BY <2>3, <1>13 DEF Splits
  <2>7. y % E = e
    BY <2>6, SplitUnique, Zenon
  <2> QED BY <1>1, <1>3, <2>5, <2>7, Zenon DEF Float!ExpOf, Float!FracOf
<1>15. e = E - 1 <=> m >= I
  <2>1. CASE e = E - 1
    <3>1. F * e = I
      BY <1>5, <2>1
    <3> QED BY <1>12, <2>1, <3>1
  <2>2. CASE e # E - 1
    <3>1. e < E - 1 /\ E - 1 \in Int
      BY <1>13, <2>2
    <3>2. F * e + F <= F * (E - 1)
      BY <3>1, IntTimesLess
    <3>3. F * (E - 1) = I
      BY <1>5
    <3>4. PICK u \in Nat : u = F * e
      OBVIOUS
    <3>5. ~(m >= I)
      BY ONLY <3>2, <3>3, <3>4, <1>12, I \in Nat, F \in Nat
    <3> QED BY <2>2, <3>5
  <2> QED BY <2>1, <2>2
<1>16. e = 0 <=> m < F
  <2>1. CASE e = 0
    BY <1>12, <2>1
  <2>2. CASE e # 0
    <3>1. F * e = F + F * (e - 1) /\ F * (e - 1) \in Nat
      BY <2>2
    <3> QED BY <1>12, <2>2, <3>1
  <2> QED BY <2>1, <2>2
<1>17. m >= I => r = m - I
  <2> SUFFICES ASSUME m >= I PROVE r = m - I
    OBVIOUS
  <2>1. F * e = I
    BY <1>5, <1>15
  <2> QED BY <1>12, <2>1
<1>18. m < F => r = m
  <2> SUFFICES ASSUME m < F PROVE r = m
    OBVIOUS
  <2>1. F * e = 0
    BY <1>16
  <2> QED BY <1>12, <2>1
<1>19. m < S /\ v = (IF Float!isNegative(f, v) THEN S + m ELSE m) /\ m \in Nat
  BY <1>7, <1>8, <1>9
<1>20. /\ Float!ExpOf(f, v) = 2^f.exp - 1 <=> m >= I
       /\ Float!ExpOf(f, v) = 0 <=> m < F
       /\ m >= I => Float!FracOf(f, v) = m - I
       /\ m < F => Float!FracOf(f, v) = m
  BY <1>1, <1>14, <1>15, <1>16, <1>17, <1>18, Zenon
<1> WITNESS S \in Nat \ {0}
<1> WITNESS F \in Nat \ {0}
<1> WITNESS K \in Nat \ {0}
<1> WITNESS I \in Nat
<1> WITNESS m \in Nat
<1> QED BY <1>2, <1>3, <1>4, <1>5, <1>6, <1>8, <1>10, <1>19, <1>20, Zenon DEF Fields

ClassBy(n, m, F, K, I) ==
    IF m > I THEN (IF m < I + K THEN 256 ELSE 512)
    ELSE IF n = 1 THEN (IF m = I THEN 1 ELSE IF m >= F THEN 2 ELSE IF m > 0 THEN 4 ELSE 8)
    ELSE (IF m = I THEN 128 ELSE IF m >= F THEN 64 ELSE IF m > 0 THEN 32 ELSE 16)

LEMMA ClassPowers ==
    /\ 2^0 = 1 /\ 2^1 = 2 /\ 2^2 = 4 /\ 2^3 = 8 /\ 2^4 = 16
    /\ 2^5 = 32 /\ 2^6 = 64 /\ 2^7 = 128 /\ 2^8 = 256 /\ 2^9 = 512
BY SMT

\* A NaN has a magnitude above infinity; the class follows from the sign and the
\* magnitude.
LEMMA ClassIs ==
    ASSUME NEW f \in Formats, NEW v \in Float!Values(f),
           NEW S \in Nat \ {0}, NEW F \in Nat \ {0}, NEW K \in Nat \ {0}, NEW I \in Nat, NEW m \in Nat,
           NEW n \in {0, 1}, Float!isNegative(f, v) <=> n = 1, Fields(f, v, S, F, K, I, m)
    PROVE  /\ Float!isNaN(f, v) <=> m > I
           /\ Float!classify(f, v) = ClassBy(n, m, F, K, I)
<1>1. /\ F = 2 * K /\ S = I + F /\ F <= I /\ m < S
      /\ (Float!ExpOf(f, v) = 2^f.exp - 1 <=> m >= I)
      /\ (Float!ExpOf(f, v) = 0 <=> m < F)
      /\ (m >= I => Float!FracOf(f, v) = m - I)
      /\ (m < F => Float!FracOf(f, v) = m)
      /\ K = 2^(f.frac - 1)
  BY Zenon DEF Fields
<1>2. Float!isNaN(f, v) <=> m > I
  <2>1. CASE m >= I
    <3>1. Float!FracOf(f, v) # 0 <=> m > I
      BY <1>1, <2>1
    <3> QED BY <1>1, <2>1, <3>1, Zenon DEF Float!isNaN
  <2>2. CASE ~(m >= I)
    <3>1. ~(m > I)
      BY <2>2
    <3> QED BY <1>1, <2>2, <3>1, Zenon DEF Float!isNaN
  <2> QED BY <2>1, <2>2
<1>3. Float!isSignalingNaN(f, v) <=> m > I /\ m < I + K
  <2>1. CASE m > I
    <3>1. Float!FracOf(f, v) < K <=> m < I + K
      BY <1>1, <2>1
    <3> QED BY <1>1, <1>2, <2>1, <3>1, Zenon DEF Float!isSignalingNaN
  <2>2. CASE ~(m > I)
    BY <1>2, <2>2, Zenon DEF Float!isSignalingNaN
  <2> QED BY <2>1, <2>2
<1> DEFINE ex1 == Float!ExpOf(f, v) = 2^f.exp - 1
           ex0 == Float!ExpOf(f, v) = 0
           fz == Float!FracOf(f, v) = 0
           ng == Float!isNegative(f, v)
           sn == Float!isSignalingNaN(f, v)
           nn == Float!isNaN(f, v)
           bit(c, p) == IF c THEN p ELSE 0
<1>4. Float!classify(f, v) =
        bit(ng /\ ex1 /\ fz, 2^0) + bit(ng /\ ~ex1 /\ ~ex0, 2^1)
        + bit(ng /\ ex0 /\ ~fz, 2^2) + bit(ng /\ ex0 /\ fz, 2^3)
        + bit(~ng /\ ex1 /\ fz, 2^7) + bit(~ng /\ ~ex1 /\ ~ex0, 2^6)
        + bit(~ng /\ ex0 /\ ~fz, 2^5) + bit(~ng /\ ex0 /\ fz, 2^4)
        + bit(sn, 2^8) + bit(nn /\ ~sn, 2^9)
  BY Zenon DEF Float!classify
<1>5. /\ ex1 <=> m >= I
      /\ ex0 <=> m < F
      /\ m >= I => (fz <=> m = I)
      /\ m < F => (fz <=> m = 0)
      /\ nn <=> m > I
      /\ sn <=> m > I /\ m < I + K
      /\ ng <=> n = 1
  BY <1>1, <1>2, <1>3
<1> HIDE DEF ex1, ex0, fz, ng, sn, nn
<1>6. Float!classify(f, v) = ClassBy(n, m, F, K, I)
  <2>1. CASE m > I
    BY <1>1, <1>4, <1>5, ClassPowers, <2>1 DEF ClassBy
  <2>2. CASE m = I
    BY <1>1, <1>4, <1>5, ClassPowers, <2>2 DEF ClassBy
  <2>3. CASE m < I /\ m >= F
    BY <1>1, <1>4, <1>5, ClassPowers, <2>3 DEF ClassBy
  <2>4. CASE m < F
    BY <1>1, <1>4, <1>5, ClassPowers, <2>4 DEF ClassBy
  <2> QED BY <2>1, <2>2, <2>3, <2>4
<1> QED BY <1>2, <1>6, Zenon

\* What the laws use of an operand.
Operand(f, v, S, F, K, I, m, n) ==
    /\ v \in Nat /\ m \in Nat /\ n \in {0, 1}
    /\ S \in Nat \ {0} /\ F \in Nat \ {0} /\ K \in Nat \ {0} /\ I \in Nat
    /\ F = 2 * K /\ S = I + F /\ F <= I /\ m < S
    /\ v = (IF n = 1 THEN S + m ELSE m)
    /\ (Float!isNegative(f, v) <=> n = 1) /\ (v >= S <=> n = 1)
    /\ m = Float!Magnitude(f, v)
    /\ (Float!isNaN(f, v) <=> m > I)
    /\ Float!classify(f, v) = ClassBy(n, m, F, K, I)

LEMMA OperandIs ==
    ASSUME NEW f \in Formats, NEW u \in Float!Values(f), NEW v \in Float!Values(f)
    PROVE  \E S \in Nat \ {0}, F \in Nat \ {0}, K \in Nat \ {0}, I \in Nat, m \in Nat, p \in Nat,
              n \in {0, 1}, q \in {0, 1} :
              /\ S = Float!SIGN(f) /\ FullOf(f) = 2 * S
              /\ Operand(f, u, S, F, K, I, m, n) /\ Operand(f, v, S, F, K, I, p, q)
<1>1. PICK S \in Nat \ {0}, F \in Nat \ {0}, K \in Nat \ {0}, I \in Nat, m \in Nat :
         Fields(f, u, S, F, K, I, m)
  BY FieldsAre
<1>2. PICK p \in Nat : Fields(f, v, S, F, K, I, p)
  <2>1. PICK T \in Nat \ {0}, G \in Nat \ {0}, L \in Nat \ {0}, J \in Nat, p \in Nat :
           Fields(f, v, T, G, L, J, p)
    BY FieldsAre
  <2>2. S = T /\ F = G /\ K = L /\ I = J
    BY <1>1, <2>1, Zenon DEF Fields
  <2> QED BY <2>1, <2>2, Zenon
<1>3. PICK n \in {0, 1} : Float!isNegative(f, u) <=> n = 1
  BY 1 # 0
<1>4. PICK q \in {0, 1} : Float!isNegative(f, v) <=> q = 1
  BY 1 # 0
<1>5. u \in Nat /\ v \in Nat
  <2>1. u \in 0 .. 2 * S - 1 /\ v \in 0 .. 2 * S - 1
    BY <1>1, Zenon DEF Fields, Float!Values, FullOf
  <2> QED BY <2>1
<1>6. Operand(f, u, S, F, K, I, m, n)
  <2>1. (Float!isNaN(f, u) <=> m > I) /\ Float!classify(f, u) = ClassBy(n, m, F, K, I)
    BY <1>1, <1>3, ClassIs
  <2>2. u = (IF n = 1 THEN S + m ELSE m)
    BY <1>1, <1>3, Zenon DEF Fields
  <2> QED BY <1>1, <1>3, <1>5, <2>1, <2>2, Zenon DEF Fields, Operand
<1>7. Operand(f, v, S, F, K, I, p, q)
  <2>1. (Float!isNaN(f, v) <=> p > I) /\ Float!classify(f, v) = ClassBy(q, p, F, K, I)
    BY <1>2, <1>4, ClassIs
  <2>2. v = (IF q = 1 THEN S + p ELSE p)
    BY <1>2, <1>4, Zenon DEF Fields
  <2> QED BY <1>2, <1>4, <1>5, <2>1, <2>2, Zenon DEF Fields, Operand
<1>8. S = Float!SIGN(f) /\ FullOf(f) = 2 * S
  BY <1>1, Zenon DEF Fields
<1> WITNESS S \in Nat \ {0}
<1> WITNESS F \in Nat \ {0}
<1> WITNESS K \in Nat \ {0}
<1> WITNESS I \in Nat
<1> WITNESS m \in Nat
<1> WITNESS p \in Nat
<1> WITNESS n \in {0, 1}
<1> WITNESS q \in {0, 1}
<1> QED BY <1>6, <1>7, <1>8, Zenon

FloatInv == format \in Formats /\ fa \in Float!Values(format) /\ fb \in Float!Values(format)

\* The numbers of two operands are ordered as signs and magnitudes say.
Below(n, m, q, p) ==
    \/ n = 1 /\ q = 0 /\ (m # 0 \/ p # 0)
    \/ n = 1 /\ q = 1 /\ p < m
    \/ n = 0 /\ q = 0 /\ m < p
Level(n, m, q, p) == (n = q /\ m = p) \/ (m = 0 /\ p = 0)

LEMMA NumbersCompare ==
    ASSUME NEW f, NEW u, NEW v, NEW S, NEW F, NEW K, NEW I, NEW m, NEW p, NEW n, NEW q,
           Operand(f, u, S, F, K, I, m, n), Operand(f, v, S, F, K, I, p, q)
    PROVE  /\ Float!softfloat_lt(f, u, v) <=> m <= I /\ p <= I /\ Below(n, m, q, p)
           /\ Float!softfloat_eq(f, u, v) <=> m <= I /\ p <= I /\ Level(n, m, q, p)
           /\ Float!Ordered(f, u, v) <=> m <= I /\ p <= I
<1>0. S \in Nat /\ I \in Nat /\ m \in Nat /\ p \in Nat /\ n \in {0, 1} /\ q \in {0, 1}
  BY DEF Operand
<1>1. /\ (Float!isNegative(f, u) <=> n = 1) /\ (Float!isNegative(f, v) <=> q = 1)
      /\ Float!Magnitude(f, u) = m /\ Float!Magnitude(f, v) = p
      /\ (Float!isNaN(f, u) <=> m > I) /\ (Float!isNaN(f, v) <=> p > I)
  BY Zenon DEF Operand
<1>2. (m > I <=> ~(m <= I)) /\ (p > I <=> ~(p <= I))
  BY <1>0
<1>3. Float!Ordered(f, u, v) <=> m <= I /\ p <= I
  BY <1>1, <1>2, Zenon DEF Float!Ordered
<1>4. PICK x \in Int : x = Float!Number(f, u) /\ x = IF n = 1 THEN 0 - m ELSE m
  <2>1. (IF n = 1 THEN 0 - m ELSE m) \in Int
    BY <1>0
  <2> QED BY <1>1, <2>1, Zenon DEF Float!Number
<1>5. PICK y \in Int : y = Float!Number(f, v) /\ y = IF q = 1 THEN 0 - p ELSE p
  <2>1. (IF q = 1 THEN 0 - p ELSE p) \in Int
    BY <1>0
  <2> QED BY <1>1, <2>1, Zenon DEF Float!Number
<1>6. x < y <=> Below(n, m, q, p)
  BY <1>0, <1>4, <1>5 DEF Below
<1>7. x = y <=> Level(n, m, q, p)
  <2>1. CASE n = 1 /\ q = 1
    BY <1>0, <1>4, <1>5, <2>1 DEF Level
  <2>2. CASE n = 1 /\ q = 0
    BY <1>0, <1>4, <1>5, <2>2 DEF Level
  <2>3. CASE n = 0 /\ q = 1
    BY <1>0, <1>4, <1>5, <2>3 DEF Level
  <2>4. CASE n = 0 /\ q = 0
    BY <1>0, <1>4, <1>5, <2>4 DEF Level
  <2> QED BY <1>0, <2>1, <2>2, <2>3, <2>4
<1>8. Float!softfloat_lt(f, u, v) <=> m <= I /\ p <= I /\ Below(n, m, q, p)
  BY <1>3, <1>4, <1>5, <1>6, Zenon DEF Float!softfloat_lt
<1>9. Float!softfloat_eq(f, u, v) <=> m <= I /\ p <= I /\ Level(n, m, q, p)
  BY <1>3, <1>4, <1>5, <1>7, Zenon DEF Float!softfloat_eq
<1> QED BY <1>3, <1>8, <1>9, Zenon

LEMMA FloatClasses == ASSUME FloatInv PROVE Float!ClassesFollowOrder
<1>1. PICK S \in Nat \ {0}, F \in Nat \ {0}, K \in Nat \ {0}, I \in Nat, m \in Nat, p \in Nat,
           n \in {0, 1}, q \in {0, 1} :
              /\ S = Float!SIGN(format) /\ FullOf(format) = 2 * S
              /\ Operand(format, fa, S, F, K, I, m, n) /\ Operand(format, fb, S, F, K, I, p, q)
  BY OperandIs DEF FloatInv
<1>2. PICK c : c = Float!classify(format, fa) /\ c = ClassBy(n, m, F, K, I)
  BY <1>1, Zenon DEF Operand
<1>3. PICK d : d = Float!classify(format, fb) /\ d = ClassBy(q, p, F, K, I)
  BY <1>1, Zenon DEF Operand
<1>4. F <= I
  BY <1>1, Zenon DEF Operand
<1>5. \E k \in 0 .. 9 : c = 2^k
  <2>1. c \in {1, 2, 4, 8, 16, 32, 64, 128, 256, 512}
    BY <1>2 DEF ClassBy
  <2> QED BY <2>1, ClassPowers, SMT
<1>6. Float!softfloat_lt(format, fa, fb) => c <= d
  <2> SUFFICES ASSUME Float!softfloat_lt(format, fa, fb) PROVE c <= d
    OBVIOUS
  <2>1. m <= I /\ p <= I /\ Below(n, m, q, p)
    BY <1>1, NumbersCompare, Zenon
  <2> QED BY <1>2, <1>3, <1>4, <2>1 DEF ClassBy, Below
<1>7. Float!isNegative(format, fa) /\ ~Float!isNegative(format, fb) /\ Float!Ordered(format, fa, fb) => c < d
  <2> SUFFICES ASSUME Float!isNegative(format, fa), ~Float!isNegative(format, fb),
                      Float!Ordered(format, fa, fb)
               PROVE  c < d
    OBVIOUS
  <2>1. m <= I /\ p <= I
    BY <1>1, NumbersCompare, Zenon
  <2>2. n = 1 /\ q # 1
    BY <1>1, Zenon DEF Operand
  <2> QED BY <1>2, <1>3, <1>4, <2>1, <2>2 DEF ClassBy
<1> QED BY <1>2, <1>3, <1>5, <1>6, <1>7, Zenon DEF Float!ClassesFollowOrder

LEMMA FloatEnds == ASSUME FloatInv PROVE Float!MinMaxAreEnds
<1>1. PICK S \in Nat \ {0}, F \in Nat \ {0}, K \in Nat \ {0}, I \in Nat, m \in Nat, p \in Nat,
           n \in {0, 1}, q \in {0, 1} :
              /\ S = Float!SIGN(format) /\ FullOf(format) = 2 * S
              /\ Operand(format, fa, S, F, K, I, m, n) /\ Operand(format, fb, S, F, K, I, p, q)
  BY OperandIs DEF FloatInv
<1>2. /\ (Float!isNaN(format, fa) <=> ~(m <= I)) /\ (Float!isNaN(format, fb) <=> ~(p <= I))
      /\ (Float!isNegative(format, fa) <=> n = 1) /\ (Float!isNegative(format, fb) <=> q = 1)
      /\ fa \in Nat /\ fb \in Nat
      /\ fa = (IF n = 1 THEN S + m ELSE m) /\ fb = (IF q = 1 THEN S + p ELSE p)
      /\ Float!Magnitude(format, fa) = m /\ Float!Magnitude(format, fb) = p
  <2>1. (m > I <=> ~(m <= I)) /\ (p > I <=> ~(p <= I))
    OBVIOUS
  <2> QED BY <1>1, <2>1, Zenon DEF Operand
<1>3. /\ Float!softfloat_lt(format, fa, fb) <=> m <= I /\ p <= I /\ Below(n, m, q, p)
      /\ Float!softfloat_eq(format, fa, fb) <=> m <= I /\ p <= I /\ Level(n, m, q, p)
      /\ Float!Ordered(format, fa, fb) <=> m <= I /\ p <= I
  BY <1>1, NumbersCompare, Zenon
<1>4. /\ Float!softfloat_lt(format, fb, fa) <=> m <= I /\ p <= I /\ Below(q, p, n, m)
      /\ Float!softfloat_eq(format, fb, fa) <=> m <= I /\ p <= I /\ Level(q, p, n, m)
  BY <1>1, NumbersCompare, Zenon
<1>5. PICK lo : lo = Float!fmin(format, fa, fb)
  OBVIOUS
<1>6. PICK hi : hi = Float!fmax(format, fa, fb)
  OBVIOUS
<1>7. CASE m <= I /\ p <= I
  <2>1. lo = IF Below(n, m, q, p) \/ (Level(n, m, q, p) /\ n = 1) THEN fa ELSE fb
    BY <1>2, <1>3, <1>5, <1>7, Zenon DEF Float!fmin
  <2>2. hi = IF Below(q, p, n, m) \/ (Level(q, p, n, m) /\ q = 1) THEN fa ELSE fb
    BY <1>2, <1>4, <1>6, <1>7, Zenon DEF Float!fmax
  <2>3. PICK x \in Int : x = Float!SortKey(format, fa) /\ x = IF n = 1 THEN 0 - m - 1 ELSE m
    <3>1. (IF n = 1 THEN 0 - m - 1 ELSE m) \in Int
      OBVIOUS
    <3> QED BY <1>2, <3>1, Zenon DEF Float!SortKey
  <2>4. PICK y \in Int : y = Float!SortKey(format, fb) /\ y = IF q = 1 THEN 0 - p - 1 ELSE p
    <3>1. (IF q = 1 THEN 0 - p - 1 ELSE p) \in Int
      OBVIOUS
    <3> QED BY <1>2, <3>1, Zenon DEF Float!SortKey
  <2>5. \/ lo = fa /\ hi = fb /\ x <= y
        \/ lo = fb /\ hi = fa /\ y <= x
        \/ fa = fb /\ lo = fa /\ hi = fa /\ x <= y
    <3>1. CASE n = 1 /\ q = 1
      BY <1>2, <2>1, <2>2, <2>3, <2>4, <3>1 DEF Below, Level
    <3>2. CASE n = 1 /\ q = 0
      BY <1>2, <2>1, <2>2, <2>3, <2>4, <3>2 DEF Below, Level
    <3>3. CASE n = 0 /\ q = 1
      BY <1>2, <2>1, <2>2, <2>3, <2>4, <3>3 DEF Below, Level
    <3>4. CASE n = 0 /\ q = 0
      BY <1>2, <2>1, <2>2, <2>3, <2>4, <3>4 DEF Below, Level
    <3> QED BY <3>1, <3>2, <3>3, <3>4
  <2>6. {lo, hi} = {fa, fb} /\ Float!SortKey(format, lo) <= Float!SortKey(format, hi)
    BY <2>3, <2>4, <2>5, Zenon
  <2>7. Float!Ordered(format, fa, fb) /\ ~(Float!isNaN(format, fa) /\ Float!isNaN(format, fb))
    BY <1>2, <1>3, <1>7, Zenon
  <2> QED BY <1>5, <1>6, <2>6, <2>7, Zenon DEF Float!MinMaxAreEnds
<1>8. CASE ~(m <= I) /\ ~(p <= I)
  <2>1. lo = Float!DEFAULT_NAN(format) /\ hi = Float!DEFAULT_NAN(format)
    BY <1>2, <1>5, <1>6, <1>8, Zenon DEF Float!fmin, Float!fmax
  <2> QED BY <1>2, <1>3, <1>5, <1>6, <1>8, <2>1, Zenon DEF Float!MinMaxAreEnds
<1>9. CASE m <= I /\ ~(p <= I)
  <2>1. lo = fa /\ hi = fa
    BY <1>2, <1>5, <1>6, <1>9, Zenon DEF Float!fmin, Float!fmax
  <2> QED BY <1>2, <1>3, <1>5, <1>6, <1>9, <2>1, Zenon DEF Float!MinMaxAreEnds
<1>10. CASE ~(m <= I) /\ p <= I
  <2>1. lo = fb /\ hi = fb
    BY <1>2, <1>3, <1>4, <1>5, <1>6, <1>10, Zenon DEF Float!fmin, Float!fmax
  <2> QED BY <1>2, <1>3, <1>5, <1>6, <1>10, <2>1, Zenon DEF Float!MinMaxAreEnds
<1> QED BY <1>7, <1>8, <1>9, <1>10, Zenon

LEMMA FloatSigns == ASSUME FloatInv PROVE Float!SignsOnly
<1>1. PICK S \in Nat \ {0}, F \in Nat \ {0}, K \in Nat \ {0}, I \in Nat, m \in Nat, p \in Nat,
           n \in {0, 1}, q \in {0, 1} :
              /\ S = Float!SIGN(format) /\ FullOf(format) = 2 * S
              /\ Operand(format, fa, S, F, K, I, m, n) /\ Operand(format, fb, S, F, K, I, p, q)
  BY OperandIs DEF FloatInv
<1>2. /\ (Float!isNegative(format, fa) <=> n = 1) /\ (Float!isNegative(format, fb) <=> q = 1)
      /\ fa \in Nat /\ fb \in Nat /\ m < S /\ p < S
      /\ fa = (IF n = 1 THEN S + m ELSE m) /\ fb = (IF q = 1 THEN S + p ELSE p)
      /\ Float!Magnitude(format, fa) = m /\ Float!Magnitude(format, fb) = p
  BY <1>1, Zenon DEF Operand
<1>3. ASSUME NEW k \in Nat, k < S
      PROVE  /\ k % S = k /\ (S + k) % S = k
             /\ (k + S) % (2 * S) = S + k /\ ((S + k) + S) % (2 * S) = k
             /\ k % (2 * S) = k /\ (S + k) % (2 * S) = S + k
  <2>1. /\ Splits(k, S, 0, k) /\ Splits(S + k, S, 1, k) /\ k \in 0 .. S - 1
        /\ S + k \in Nat /\ 0 \in Nat /\ 1 \in Nat
    BY <1>3 DEF Splits
  <2>2. PICK W \in Nat \ {0} : W = 2 * S
    OBVIOUS
  <2>3. /\ Splits(k + S, W, 0, S + k) /\ Splits((S + k) + S, W, 1, k)
        /\ Splits(k, W, 0, k) /\ Splits(S + k, W, 0, S + k)
        /\ k \in 0 .. W - 1 /\ S + k \in 0 .. W - 1 /\ k + S \in Nat /\ (S + k) + S \in Nat
    BY <1>3, <2>2 DEF Splits
  <2> QED BY <2>1, <2>2, <2>3, SplitUnique, Zenon
<1> DEFINE R(x, k) == IF x = 1 THEN S + k ELSE k
<1>4. ASSUME NEW x \in {0, 1}, NEW k \in Nat, k < S
      PROVE  /\ Float!Magnitude(format, R(x, k)) = k
             /\ R(x, k) >= S <=> x = 1
             /\ Float!neg(format, R(x, k)) = R(1 - x, k)
             /\ Float!SignBit(format, R(x, k)) = IF x = 1 THEN S ELSE 0
             /\ (R(x, k) + 0) % (2 * S) = R(x, k)
             /\ (R(x, k) + S) % (2 * S) = R(1 - x, k)
  <2>1. Float!Magnitude(format, R(x, k)) = k
    BY <1>1, <1>3, <1>4, Zenon DEF Float!Magnitude
  <2>2. R(x, k) >= S <=> x = 1
    BY <1>4
  <2>3. (R(x, k) + S) % (2 * S) = R(1 - x, k)
    <3>1. CASE x = 0
      <4>1. 1 - x = 1 /\ x # 1
        BY <3>1
      <4> QED BY <1>3, <1>4, <4>1, Zenon
    <3>2. CASE x = 1
      <4>1. 1 - x # 1
        BY <3>2
      <4> QED BY <1>3, <1>4, <3>2, <4>1, Zenon
    <3> QED BY <3>1, <3>2
  <2>4. Float!neg(format, R(x, k)) = R(1 - x, k)
    BY <1>1, <2>3, Zenon DEF Float!neg, FullOf
  <2>5. Float!SignBit(format, R(x, k)) = IF x = 1 THEN S ELSE 0
    <3>1. R(x, k) - k = IF x = 1 THEN S ELSE 0
      BY <1>4
    <3> QED BY <2>1, <3>1, Zenon DEF Float!SignBit
  <2>6. (R(x, k) + 0) % (2 * S) = R(x, k)
    <3>1. R(x, k) + 0 = R(x, k)
      BY <1>4
    <3> QED BY <1>3, <1>4, <3>1, Zenon
  <2> QED BY <2>1, <2>2, <2>3, <2>4, <2>5, <2>6, Zenon
<1>5. fa = R(n, m) /\ fb = R(q, p)
  BY <1>2, Zenon
<1>6. ASSUME NEW x \in {0, 1}, NEW k \in Nat
      PROVE  k + (IF x = 1 THEN S ELSE 0) = R(x, k)
  OBVIOUS
<1> HIDE DEF R
<1>7. 1 - n \in {0, 1} /\ 1 - q \in {0, 1}
  OBVIOUS
<1>8. Float!fsgnj(format, fa, fb) = R(q, m)
  <2>1. Float!SignBit(format, fb) = IF q = 1 THEN S ELSE 0
    BY <1>2, <1>4, <1>5
  <2>2. m + (IF q = 1 THEN S ELSE 0) = R(q, m)
    BY <1>6, Zenon
  <2> QED BY <1>2, <2>1, <2>2, Zenon DEF Float!fsgnj
<1>9. Float!fsgnjn(format, fa, fb) = R(1 - q, m)
  <2>1. Float!neg(format, fb) = R(1 - q, p)
    BY <1>2, <1>4, <1>5
  <2>2. Float!SignBit(format, R(1 - q, p)) = IF 1 - q = 1 THEN S ELSE 0
    BY <1>2, <1>4, <1>7, Zenon
  <2>3. m + (IF 1 - q = 1 THEN S ELSE 0) = R(1 - q, m)
    BY <1>6, <1>7, Zenon
  <2> QED BY <1>2, <2>1, <2>2, <2>3, Zenon DEF Float!fsgnjn
<1>10. PICK x \in {0, 1} : x = IF q = 1 THEN 1 - n ELSE n
  BY <1>7
<1>11. Float!fsgnjx(format, fa, fb) = R(x, m)
  <2>1. Float!fsgnjx(format, fa, fb) = (R(n, m) + (IF q = 1 THEN S ELSE 0)) % (2 * S)
    BY <1>1, <1>2, <1>4, <1>5 DEF Float!fsgnjx, FullOf
  <2>2. CASE q = 1
    BY <1>2, <1>4, <1>10, <2>1, <2>2, Zenon
  <2>3. CASE ~(q = 1)
    BY <1>2, <1>4, <1>10, <2>1, <2>3, Zenon
  <2> QED BY <2>2, <2>3
<1>12. /\ Float!Magnitude(format, R(q, m)) = m /\ Float!Magnitude(format, R(1 - q, m)) = m
       /\ Float!Magnitude(format, R(x, m)) = m
       /\ Float!neg(format, R(q, m)) = R(1 - q, m)
       /\ (R(q, m) >= S <=> q = 1) /\ (R(x, m) >= S <=> x = 1)
       /\ (fa >= S <=> n = 1) /\ (fb >= S <=> q = 1)
  BY <1>2, <1>4, <1>5, <1>7
<1>13. PICK y \in Nat : y = R(q, m)
  BY DEF R
<1>14. PICK z \in Nat : z = R(x, m)
  BY DEF R
<1>15. (y >= S) = (fb >= S)
  BY <1>2, <1>12, <1>13
<1>16. (z >= S) = ((fa >= S) # (fb >= S))
  <2>1. z >= S <=> x = 1
    BY <1>12, <1>14, Zenon
  <2>2. CASE q = 1
    BY <1>2, <1>10, <1>12, <2>1, <2>2
  <2>3. CASE q = 0
    BY <1>2, <1>10, <1>12, <2>1, <2>3
  <2> QED BY <2>2, <2>3
<1>17. \A r \in {Float!fsgnj(format, fa, fb), Float!fsgnjn(format, fa, fb), Float!fsgnjx(format, fa, fb)} :
          Float!Magnitude(format, r) = Float!Magnitude(format, fa)
  BY <1>2, <1>8, <1>9, <1>11, <1>12, Zenon
<1>18. /\ Float!isNegative(format, Float!fsgnj(format, fa, fb)) = (y >= S)
       /\ Float!isNegative(format, Float!fsgnjx(format, fa, fb)) = (z >= S)
       /\ Float!isNegative(format, fa) = (fa >= S) /\ Float!isNegative(format, fb) = (fb >= S)
  BY <1>1, <1>8, <1>11, <1>13, <1>14, Zenon DEF Float!isNegative
<1>19. Float!fsgnjn(format, fa, fb) = Float!neg(format, Float!fsgnj(format, fa, fb))
  BY <1>8, <1>9, <1>12, Zenon
<1>20. /\ Float!isNegative(format, Float!fsgnj(format, fa, fb)) = Float!isNegative(format, fb)
       /\ Float!isNegative(format, Float!fsgnjx(format, fa, fb))
             = (Float!isNegative(format, fa) # Float!isNegative(format, fb))
  BY <1>15, <1>16, <1>18, Zenon
<1> QED BY <1>17, <1>19, <1>20, Zenon DEF Float!SignsOnly

LEMMA TimesCancels ==
    ASSUME NEW h \in Nat \ {0}, NEW m \in Nat, NEW n \in Nat, h * m = h * n
    PROVE  m = n
<1>1. ASSUME NEW i \in Nat, NEW j \in Nat, i < j PROVE h * i # h * j
  <2>1. h * i + h <= h * j
    BY <1>1, TimesLess
  <2>2. PICK a \in Nat, c \in Nat : a = h * i /\ c = h * j
    OBVIOUS
  <2> QED BY <2>1, <2>2
<1>2. m < n \/ n < m \/ m = n
  OBVIOUS
<1> QED BY <1>1, <1>2, Zenon

\* A single boxed in a register: the powers of its width.
LEMMA BoxPowers ==
    \E s \in Nat \ {0, 1}, z \in Nat \ {0, 1}, E \in Nat \ {0, 1}, F \in Nat \ {0} :
       /\ s = 2^Float!Width(Float!Single) /\ E = 2^(Float!Double).exp /\ F = 2^(Float!Double).frac
       /\ F = s * z /\ s = 2 * (E * z)
       /\ 2^Float!Width(Float!Double) = s * s
       /\ Float!HighOnes = (s - 1) * s
<1>1. Float!FieldFacts /\ Fpu!PowerFacts
  BY CpuThreadAssumptions, Zenon DEF CpuThreadAssumptions
<1>2. Float!Single \in Formats /\ Float!Double \in Formats
  BY Zenon DEF Formats
<1>3. PICK S \in Nat \ {0} : S = Float!SIGN(Float!Single) /\ FullOf(Float!Single) = 2 * S
  <2>1. PICK e \in Nat \ {0, 1} : e = 2^(Float!Single).exp
    BY <1>2, FormatIs, Zenon
  <2>2. PICK k \in Nat \ {0} : k = 2^((Float!Single).frac - 1)
    BY <1>2, FormatIs, Zenon
  <2>3. Float!SIGN(Float!Single) = e * (2 * k) /\ FullOf(Float!Single) = 2 * Float!SIGN(Float!Single)
    BY <1>2, <2>1, <2>2, FormatIs, Zenon
  <2>4. e * (2 * k) \in Nat \ {0}
    <3>1. PICK i \in Nat : i = (e - 1) * (2 * k)
      OBVIOUS
    <3>2. e * (2 * k) = 2 * k + i
      BY <3>1
    <3> QED BY <3>2
  <2> QED BY <2>3, <2>4, Zenon
<1>4. PICK s \in Nat \ {0, 1} : s = 2 * S
  BY 2 * S \in Nat \ {0, 1}
<1>5. s = 2^Float!Width(Float!Single)
  BY <1>3, <1>4, Zenon DEF FullOf
<1>6. PICK z \in Nat \ {0, 1} : z = 2^(DoubleFrac - Float!Width(Float!Single))
  BY <1>1, Zenon DEF Float!FieldFacts
<1>7. PICK E \in Nat \ {0, 1} : E = 2^(Float!Double).exp
  BY <1>2, FormatIs, Zenon
<1>8. PICK K \in Nat \ {0} : K = 2^((Float!Double).frac - 1)
  BY <1>2, FormatIs, Zenon
<1>9. PICK F \in Nat \ {0} : F = 2 * K
  OBVIOUS
<1>10. F = 2^(Float!Double).frac /\ Float!SIGN(Float!Double) = E * F
       /\ FullOf(Float!Double) = 2 * Float!SIGN(Float!Double)
  BY <1>2, <1>7, <1>8, <1>9, FormatIs, Zenon
<1>11. F = s * z
  <2>1. (Float!Double).frac = DoubleFrac
    BY DEF Float!Double
  <2> QED BY <1>1, <1>5, <1>6, <1>10, <2>1, Zenon DEF Float!FieldFacts
<1>12. 2^Float!Width(Float!Double) = s * s
  <2>1. 2^Fpu!Width(Fpu!Double) = 2^Fpu!Width(Fpu!Single) * 2^Fpu!Width(Fpu!Single)
    BY <1>1, Zenon DEF Fpu!PowerFacts
  <2>2. /\ Fpu!Width(Fpu!Double) = Float!Width(Float!Double)
        /\ Fpu!Width(Fpu!Single) = Float!Width(Float!Single)
    BY Zenon DEF Float!Width, Fpu!Width, Float!Single, Float!Double, Fpu!Single, Fpu!Double
  <2> QED BY <1>5, <2>1, <2>2, Zenon
<1>13. s = 2 * (E * z)
  <2>1. s * s = 2 * (E * (s * z))
    BY <1>10, <1>11, <1>12, Zenon DEF FullOf
  <2>2. 2 * (E * (s * z)) = s * (2 * (E * z))
    OBVIOUS
  <2>3. PICK t \in Nat : t = 2 * (E * z)
    OBVIOUS
  <2>4. s * s = s * t
    BY <2>1, <2>2, <2>3, Zenon
  <2>5. s = t
    BY ONLY <2>4, s \in Nat \ {0, 1}, t \in Nat, TimesCancels
  <2> QED BY <2>3, <2>5, Zenon
<1>14. Float!HighOnes = (s - 1) * s
  BY <1>5, Zenon DEF Float!HighOnes
<1> WITNESS s \in Nat \ {0, 1}
<1> WITNESS z \in Nat \ {0, 1}
<1> WITNESS E \in Nat \ {0, 1}
<1> WITNESS F \in Nat \ {0}
<1> QED BY <1>5, <1>7, <1>10, <1>11, <1>12, <1>13, <1>14, Zenon

\* Read back what was boxed, or the default NaN; a boxed single is a NaN as a
\* double.
LEMMA FloatBoxed == ASSUME FloatInv PROVE Float!BoxedOrNaN
<1>1. PICK s \in Nat \ {0, 1}, z \in Nat \ {0, 1}, E \in Nat \ {0, 1}, F \in Nat \ {0} :
       /\ s = 2^Float!Width(Float!Single) /\ E = 2^(Float!Double).exp /\ F = 2^(Float!Double).frac
       /\ F = s * z /\ s = 2 * (E * z)
       /\ 2^Float!Width(Float!Double) = s * s
       /\ Float!HighOnes = (s - 1) * s
  BY BoxPowers, Zenon
<1>2. ASSUME NEW v \in 0 .. s - 1
      PROVE  /\ Float!box(v) \in Nat /\ Float!box(v) = s * (s - 1) + v
             /\ Float!box(v) % s = v /\ Float!box(v) \div s = s - 1
  <2>1. PICK x \in Nat : x = s * (s - 1) + v
    OBVIOUS
  <2>2. Float!box(v) = x
    <3>1. v + (s - 1) * s = x
      BY <2>1
    <3> QED BY <1>1, <3>1, Zenon DEF Float!box
  <2>3. Splits(x, s, s - 1, v) /\ s \in Nat \ {0} /\ s - 1 \in Nat
    BY <2>1 DEF Splits
  <2> QED BY <2>1, <2>2, <2>3, SplitUnique, SplitUniqueDiv, Zenon
<1>0. Float!Single # Float!Double
  <2>1. s * s = s + s * (s - 1) /\ s * (s - 1) = s + s * (s - 2) /\ s * (s - 2) \in Nat
    OBVIOUS
  <2>2. s * s # s
    BY <2>1
  <2> QED BY <1>1, <2>2, Zenon
<1>3. CASE format = Float!Single
  <2>1. fa \in 0 .. s - 1
    BY <1>1, <1>3, Zenon DEF FloatInv, Float!Values
  <2>2. Float!read_32(Float!box(fa)) = fa
    BY <1>1, <1>2, <2>1, Zenon DEF Float!read_32, Float!is_boxed, Float!unbox
  <2>3. PICK g \in Nat \ {0} : g = s * (z - 1) + fa /\ g < F
    <3>1. s * (z - 1) = s + s * (z - 2) /\ s * (z - 2) \in Nat /\ s * z = s * (z - 1) + s
      OBVIOUS
    <3>2. s * (z - 1) + fa \in Nat \ {0} /\ s * (z - 1) + fa < F
      <4>1. PICK u \in Nat : u = s * (z - 2)
        OBVIOUS
      <4> QED BY <1>1, <2>1, <3>1, <4>1
    <3> QED BY <3>2
  <2>4. PICK y \in Nat : y = E * 1 + (E - 1)
    OBVIOUS
  <2>5. Float!box(fa) = F * y + g
    <3>1. s * (s - 1) + fa = F * y + g
      <4>1. F * y = (s * z) * (2 * E - 1)
        BY <1>1, <2>4
      <4>2. (s * z) * (2 * E - 1) = s * (2 * (E * z)) - s * z
        OBVIOUS
      <4>3. s * (2 * (E * z)) = s * s
        BY <1>1
      <4>4. s * (s - 1) = s * s - s /\ s * (z - 1) = s * z - s
        OBVIOUS
      <4>5. PICK a \in Nat, c \in Nat : a = s * s /\ c = s * z
        OBVIOUS
      <4>6. s * (s - 1) = a - s /\ s * (z - 1) = c - s /\ F * y = a - c
        BY <4>1, <4>2, <4>3, <4>4, <4>5
      <4>7. PICK h \in Int, i \in Int, j \in Int : h = s * (s - 1) /\ i = s * (z - 1) /\ j = F * y
        OBVIOUS
      <4>8. h + fa = j + g
        BY ONLY <4>6, <4>7, <2>3, <2>1, a \in Nat, c \in Nat, h \in Int, i \in Int, j \in Int, s \in Nat
      <4> QED BY <4>7, <4>8, Zenon
    <3> QED BY <1>2, <2>1, <3>1, Zenon
  <2>6. Splits(Float!box(fa), F, y, g) /\ g \in 0 .. F - 1 /\ Float!box(fa) \in Nat
    <3>1. g \in 0 .. F - 1
      BY <2>3
    <3> QED BY <1>2, <2>1, <2>5, <3>1, Zenon DEF Splits
  <2>7. Float!box(fa) % F = g /\ Float!box(fa) \div F = y
    BY <2>6, SplitUnique, SplitUniqueDiv, Zenon
  <2>8. y % E = E - 1
    <3>1. Splits(y, E, 1, E - 1) /\ E - 1 \in 0 .. E - 1 /\ E \in Nat \ {0} /\ 1 \in Nat
      BY <2>4 DEF Splits
    <3> QED BY <3>1, SplitUnique, Zenon
  <2>9. Float!isNaN(Float!Double, Float!box(fa))
    <3>1. g # 0
      OBVIOUS
    <3> QED BY <1>1, <2>7, <2>8, <3>1, Zenon DEF Float!isNaN, Float!ExpOf, Float!FracOf
  <2>10. format # Float!Double
    BY <1>3, <1>0, Zenon
  <2> QED BY <1>3, <2>2, <2>9, <2>10, Zenon DEF Float!BoxedOrNaN
<1>4. CASE format = Float!Double
  <2>1. format # Float!Single
    BY <1>4, <1>0, Zenon
  <2>2. fa \in 0 .. s * s - 1
    BY <1>1, <1>4, Zenon DEF FloatInv, Float!Values
  <2>3. fa \in Nat /\ fa % s \in 0 .. s - 1 /\ fa = s * (fa \div s) + (fa % s)
    BY <2>2, SplitOf
  <2>4. CASE fa \div s = s - 1
    <3>1. Float!read_32(fa) = fa % s
      BY <1>1, <2>4, Zenon DEF Float!read_32, Float!is_boxed, Float!unbox
    <3>2. Float!box(fa % s) = fa
      BY <1>2, <2>3, <2>4, Zenon
    <3> QED BY <2>1, <3>1, <3>2, Zenon DEF Float!BoxedOrNaN
  <2>5. CASE ~(fa \div s = s - 1)
    <3>1. Float!read_32(fa) = Float!DEFAULT_NAN(Float!Single)
      BY <1>1, <2>5, Zenon DEF Float!read_32, Float!is_boxed
    <3>2. ~ \E v \in Float!Values(Float!Single) : fa = Float!box(v)
      <4>1. Float!Values(Float!Single) = 0 .. s - 1
        BY <1>1, Zenon DEF Float!Values
      <4> QED BY <1>2, <2>5, <4>1, Zenon
    <3> QED BY <2>1, <3>1, <3>2, Zenon DEF Float!BoxedOrNaN
  <2> QED BY <2>4, <2>5, Zenon
<1> QED BY <1>3, <1>4, Zenon DEF FloatInv, Formats

LEMMA FloatFull == ASSUME NEW f \in Formats PROVE 2^Float!Width(f) \in Nat \ {0}
<1>1. PICK e \in Nat \ {0, 1} : e = 2^f.exp
  BY FormatIs, Zenon
<1>2. PICK k \in Nat \ {0} : k = 2^(f.frac - 1)
  BY FormatIs, Zenon
<1>3. 2^Float!Width(f) = 2 * (e * (2 * k))
  BY <1>1, <1>2, FormatIs, Zenon DEF FullOf
<1>4. PICK i \in Nat : i = (e - 1) * (2 * k)
  OBVIOUS
<1>5. e * (2 * k) = 2 * k + i
  BY <1>4
<1>6. 2 * (e * (2 * k)) \in Nat \ {0}
  BY <1>5
<1> QED BY <1>3, <1>6, Zenon

LEMMA FloatInitHolds == ASSUME Float!Init PROVE FloatInv
<1>1. format \in Formats /\ fa = 0
  BY Zenon DEF Float!Init, Formats
<1>2. fb \in Float!Values(format)
  <2>1. Float!SampleAssumption
    BY CpuThreadAssumptions, Zenon DEF CpuThreadAssumptions
  <2> QED BY <2>1, Zenon DEF Float!Init, Float!SampleAssumption
<1>3. fa \in Float!Values(format)
  <2>1. PICK w \in Nat \ {0} : w = 2^Float!Width(format)
    BY <1>1, FloatFull, Zenon
  <2>2. 0 \in 0 .. w - 1
    OBVIOUS
  <2> QED BY <1>1, <2>1, <2>2, Zenon DEF Float!Values
<1> QED BY <1>1, <1>2, <1>3, Zenon DEF FloatInv

LEMMA FloatStep == ASSUME FloatInv, Float!Next PROVE FloatInv'
<1>1. format' = format /\ fb' = fb /\ fa' = (fa + 1) % 2^Float!Width(format)
  BY Zenon DEF Float!Next
<1>2. PICK w \in Nat \ {0} : w = 2^Float!Width(format)
  BY FloatFull, Zenon DEF FloatInv
<1>3. fa + 1 \in Nat
  <2>1. fa \in 0 .. w - 1
    BY <1>2, Zenon DEF FloatInv, Float!Values
  <2> QED BY <2>1
<1>4. (fa + 1) % w \in 0 .. w - 1
  BY <1>3, SplitOf, Zenon
<1>5. fa' \in Float!Values(format)
  BY <1>1, <1>2, <1>4, Zenon DEF Float!Values
<1> QED BY <1>1, <1>5, Zenon DEF FloatInv

\* For every width of a register and of a word, every sample and every pair of
\* operands that are tried: the integer instructions keep the laws of division,
\* products, shifts, words, comparisons, jumps and AMOs, and the floating-point
\* ones those of boxing, order, classes and signs (core/execute.cpp, alu.hpp, float.hpp).
THEOREM LawsHold == Spec => []ArithmeticHolds
<1> DEFINE Inv == /\ part = "arith" => x1 \in Arith!Reg /\ x2 \in Arith!Reg
                  /\ part = "float" => FloatInv
<1>1. Init => Inv
  <2> SUFFICES ASSUME Init PROVE Inv
    OBVIOUS
  <2>1. x1 \in Arith!Reg /\ x2 \in Arith!Reg
    <3>1. x1 = 0 /\ x2 = 0
      BY Zenon DEF Init, Arith!Init
    <3>2. PICK w \in Nat \ {0} : Arith!Reg = 0 .. w - 1
      <4>1. XLEN \in 0 .. XLEN
        BY AluPowers
      <4> QED BY <4>1, AluPowers, Zenon DEF Arith!Reg
    <3>3. 0 \in 0 .. w - 1
      OBVIOUS
    <3> QED BY <3>1, <3>2, <3>3, Zenon
  <2>2. part = "float" => FloatInv
    <3>1. part = "float" => Float!Init
      BY Zenon DEF Init
    <3> QED BY <3>1, FloatInitHolds, Zenon
  <2> QED BY <2>1, <2>2, Zenon
<1>2. Inv /\ [Next]_vars => Inv'
  <2> SUFFICES ASSUME Inv, [Next]_vars PROVE Inv'
    OBVIOUS
  <2>0. UNCHANGED part
    BY Zenon DEF Next, vars
  <2>1. part = "arith" => (x1 \in Arith!Reg /\ x2 \in Arith!Reg)'
    <3> SUFFICES ASSUME part = "arith" PROVE x1' \in Arith!Reg /\ x2' \in Arith!Reg
      BY Zenon DEF Arith!Reg
    <3>1. CASE UNCHANGED aluVars
      BY <3>1, Zenon DEF aluVars
    <3>2. CASE Arith!Next
      BY <3>2, Zenon DEF Arith!Next
    <3> QED BY <3>1, <3>2, Zenon DEF Next, vars
  <2>2. part = "float" => FloatInv'
    <3> SUFFICES ASSUME part = "float" PROVE FloatInv'
      OBVIOUS
    <3>1. CASE UNCHANGED floatVars
      BY <3>1, Zenon DEF floatVars, FloatInv
    <3>2. CASE Float!Next
      BY <3>2, FloatStep, Zenon
    <3> QED BY <3>1, <3>2, Zenon DEF Next, vars
  <2> QED BY <2>0, <2>1, <2>2, Zenon
<1>3. Inv => ArithmeticHolds
  BY AluLaws, FloatBoxed, FloatEnds, FloatClasses, FloatSigns, Zenon DEF ArithmeticHolds
<1> QED BY <1>1, <1>2, <1>3, PTL DEF Spec
=============================================================================
