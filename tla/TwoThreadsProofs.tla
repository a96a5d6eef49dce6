-------------------------- MODULE TwoThreadsProofs --------------------------
(* Proofs about the devices on which two threads meet, for every size of   *)
(* their rings, queues, registers and frame buffer.  The devices have no   *)
(* variable in common, so each has an inductive invariant of its own, and  *)
(* that of the specification is their conjunction.                         *)
EXTENDS TwoThreads, TLAPS

-----------------------------------------------------------------------------
(* Numbers in two halves.                                                  *)

\* Quotient and remainder are unique.
LEMMA SplitIsUnique ==
    ASSUME NEW h \in Nat \ {0}, NEW q \in Nat, NEW r \in 0 .. h - 1,
           NEW d \in Nat, NEW m \in 0 .. h - 1, h * q + r = h * d + m
    PROVE  q = d /\ r = m
<1>1. CASE q > d
  <2>1. h * q >= h * (d + 1)
    BY <1>1
  <2> QED BY <2>1
<1>2. CASE q < d
  <2>1. h * d >= h * (q + 1)
    BY <1>2
  <2> QED BY <2>1
<1> QED BY <1>1, <1>2

LEMMA SplitOf ==
    ASSUME NEW h \in Nat \ {0}, NEW x \in Nat
    PROVE  x = h * (x \div h) + (x % h) /\ x \div h \in Nat /\ x % h \in 0 .. h - 1
OBVIOUS

\* Two halves make a number, of which they are the halves.
LEMMA Compose ==
    ASSUME NEW h \in Nat \ {0}, NEW q \in 0 .. h - 1, NEW r \in 0 .. h - 1
    PROVE  /\ h * q + r \in 0 .. h * h - 1
           /\ (h * q + r) % h = r /\ (h * q + r) \div h = q
<1> DEFINE x == h * q + r
<1>1. h * q <= h * (h - 1)
  OBVIOUS
<1>2. x \in 0 .. h * h - 1
  BY <1>1
<1>3. x \in Nat /\ x = h * q + r /\ q \in Nat
  BY <1>2
<1> HIDE DEF x
<1>4. x = h * (x \div h) + (x % h) /\ x \div h \in Nat /\ x % h \in 0 .. h - 1
  BY <1>3, SplitOf
<1>5. h * q + r = h * (x \div h) + (x % h)
  BY <1>3, <1>4
<1>6. r = x % h /\ q = x \div h
  BY <1>3, <1>4, <1>5, SplitIsUnique
<1> QED BY <1>2, <1>6 DEF x

\* The halves of a number are in range.
LEMMA HalvesOf ==
    ASSUME NEW h \in Nat \ {0}, NEW t \in 0 .. h * h - 1
    PROVE  t \div h \in 0 .. h - 1 /\ t % h \in 0 .. h - 1
<1>0. t \in Nat
  OBVIOUS
<1>1. t = h * (t \div h) + (t % h) /\ t \div h \in Nat /\ t % h \in 0 .. h - 1
  BY <1>0, SplitOf
<1>2. ASSUME t \div h >= h PROVE FALSE
  <2>1. h * (t \div h) >= h * h
    BY <1>1, <1>2
  <2> QED BY <1>1, <2>1
<1> QED BY <1>1, <1>2

\* A remainder by h of a number below 2h.
LEMMA ModTwice ==
    ASSUME NEW h \in Nat \ {0}, NEW n \in 0 .. 2 * h - 1
    PROVE  n % h = IF n < h THEN n ELSE n - h
<1>0. n \in Nat
  OBVIOUS
<1>1. n \in Nat /\ n = h * (n \div h) + (n % h) /\ n \div h \in Nat /\ n % h \in 0 .. h - 1
  BY <1>0, SplitOf
<1>2. CASE n < h
  <2>1. h * 0 + n = h * (n \div h) + (n % h) /\ n \in 0 .. h - 1
    BY <1>1, <1>2
  <2>2. n = n % h
    BY <1>1, <2>1, SplitIsUnique
  <2> QED BY <1>2, <2>2
<1>3. CASE ~(n < h)
  <2>1. h * 1 + (n - h) = h * (n \div h) + (n % h) /\ n - h \in 0 .. h - 1
    BY <1>1, <1>3
  <2>2. n - h = n % h
    BY <1>1, <2>1, SplitIsUnique
  <2> QED BY <1>3, <2>2
<1> QED BY <1>2, <1>3

\* One more, before or after an addition modulo h, is the same.
LEMMA CarryCommutes ==
    ASSUME NEW h \in Nat \ {0}, NEW q \in 0 .. h - 1, NEW c \in 0 .. h - 1
    PROVE  /\ (((q + 1) % h) + c) % h = (((q + c) % h) + 1) % h
           /\ (q + ((c + 1) % h)) % h = (((q + c) % h) + 1) % h
           /\ (q + 1) % h \in 0 .. h - 1 /\ (q + c) % h \in 0 .. h - 1
<1>1. ASSUME NEW n \in 0 .. 2 * h - 1
      PROVE  n % h = (IF n < h THEN n ELSE n - h) /\ n % h \in 0 .. h - 1
  <2>1. n % h = IF n < h THEN n ELSE n - h
    BY <1>1, ModTwice
  <2> QED BY <1>1, <2>1
<1>2. /\ q + 1 \in 0 .. 2 * h - 1 /\ c + 1 \in 0 .. 2 * h - 1
      /\ q + c \in 0 .. 2 * h - 1
  OBVIOUS
<1>3. /\ (q + 1) % h = (IF q + 1 < h THEN q + 1 ELSE q + 1 - h) /\ (q + 1) % h \in 0 .. h - 1
      /\ (c + 1) % h = (IF c + 1 < h THEN c + 1 ELSE c + 1 - h) /\ (c + 1) % h \in 0 .. h - 1
      /\ (q + c) % h = (IF q + c < h THEN q + c ELSE q + c - h) /\ (q + c) % h \in 0 .. h - 1
  <2>1. (q + 1) % h = (IF q + 1 < h THEN q + 1 ELSE q + 1 - h) /\ (q + 1) % h \in 0 .. h - 1
    BY <1>1, <1>2
  <2>2. (c + 1) % h = (IF c + 1 < h THEN c + 1 ELSE c + 1 - h) /\ (c + 1) % h \in 0 .. h - 1
    BY <1>1, <1>2
  <2>3. (q + c) % h = (IF q + c < h THEN q + c ELSE q + c - h) /\ (q + c) % h \in 0 .. h - 1
    BY <1>1, <1>2
  <2> QED BY ONLY <2>1, <2>2, <2>3, Zenon
<1> DEFINE a == (q + 1) % h
           b == (c + 1) % h
           s == (q + c) % h
<1>4. /\ a = (IF q + 1 < h THEN q + 1 ELSE q + 1 - h) /\ a \in 0 .. h - 1
      /\ b = (IF c + 1 < h THEN c + 1 ELSE c + 1 - h) /\ b \in 0 .. h - 1
      /\ s = (IF q + c < h THEN q + c ELSE q + c - h) /\ s \in 0 .. h - 1
  BY <1>3
<1> HIDE DEF a, b, s
<1>5. a + c \in 0 .. 2 * h - 1 /\ q + b \in 0 .. 2 * h - 1 /\ s + 1 \in 0 .. 2 * h - 1
  BY <1>4
<1>6. /\ (a + c) % h = IF a + c < h THEN a + c ELSE a + c - h
      /\ (q + b) % h = IF q + b < h THEN q + b ELSE q + b - h
      /\ (s + 1) % h = IF s + 1 < h THEN s + 1 ELSE s + 1 - h
  BY <1>1, <1>4, <1>5
<1>7. (a + c) % h = (s + 1) % h /\ (q + b) % h = (s + 1) % h
  <2> DEFINE u == (a + c) % h
             v == (q + b) % h
             w == (s + 1) % h
  <2>1. /\ u = (IF a + c < h THEN a + c ELSE a + c - h)
        /\ v = (IF q + b < h THEN q + b ELSE q + b - h)
        /\ w = (IF s + 1 < h THEN s + 1 ELSE s + 1 - h)
    BY <1>6
  <2> HIDE DEF u, v, w
  <2>2. u = w /\ v = w
    BY <1>4, <2>1
  <2> QED BY <2>2 DEF u, v, w
<1> QED BY <1>3, <1>7 DEF a, b, s

\* A clock that counts modulo the whole counts modulo its low half, and carries
\* into its high half.
LEMMA Advance ==
    ASSUME NEW h \in Nat \ {0}, NEW t \in 0 .. h * h - 1
    PROVE  /\ (t + 1) % (h * h) \in 0 .. h * h - 1
           /\ ((t + 1) % (h * h)) % h = ((t % h) + 1) % h
           /\ ((t + 1) % (h * h)) \div h =
                IF t % h = h - 1 THEN ((t \div h) + 1) % h ELSE t \div h
<1> DEFINE q == t \div h
           r == t % h
<1>0. t \in Nat
  OBVIOUS
<1>1. t = h * q + r /\ q \in 0 .. h - 1 /\ r \in 0 .. h - 1
  BY <1>0, SplitOf, HalvesOf
<1>2. h * h \in Nat \ {0} /\ t + 1 \in 0 .. h * h
  OBVIOUS
<1>3. (t + 1) % (h * h) = IF t + 1 = h * h THEN 0 ELSE t + 1
  <2> DEFINE n == h * h
  <2>1. n \in Nat \ {0} /\ t + 1 \in 0 .. n
    BY <1>2
  <2> HIDE DEF n
  <2>2. (t + 1) % n = IF t + 1 = n THEN 0 ELSE t + 1
    BY <2>1
  <2> QED BY <2>2 DEF n
<1> HIDE DEF q, r
<1>4. CASE r + 1 < h
  <2>1. /\ h * q + (r + 1) \in 0 .. h * h - 1 /\ (h * q + (r + 1)) % h = r + 1
        /\ (h * q + (r + 1)) \div h = q
    BY <1>1, <1>4, Compose
  <2>2. t + 1 = h * q + (r + 1) /\ (r + 1) % h = r + 1 /\ r # h - 1
    BY <1>1, <1>4
  <2> QED BY <1>2, <1>3, <2>1, <2>2 DEF q, r
<1>5. CASE r + 1 = h
  <2>1. t + 1 = h * (q + 1) /\ (r + 1) % h = 0 /\ r = h - 1
    BY <1>1, <1>5
  <2>2. CASE q + 1 = h
    <3>1. (q + 1) % h = 0 /\ 0 % h = 0 /\ 0 \div h = 0
      BY <1>1, <2>2
    <3> QED BY <1>2, <1>3, <2>1, <2>2, <3>1 DEF q, r
  <2>3. CASE q + 1 < h
    <3>1. /\ h * (q + 1) + 0 \in 0 .. h * h - 1 /\ (h * (q + 1) + 0) % h = 0
          /\ (h * (q + 1) + 0) \div h = q + 1
      BY <1>1, <2>3, Compose
    <3>2. (q + 1) % h = q + 1
      BY <1>1, <2>3
    <3> QED BY <1>2, <1>3, <2>1, <3>1, <3>2 DEF q, r
  <2> QED BY <1>1, <2>2, <2>3
<1> QED BY <1>1, <1>4, <1>5

-----------------------------------------------------------------------------
(* The real-time clock.                                                    *)

\* What the clock and the alarm show, against what the guest has set and asked
\* for.  Inside an 8-byte store the high half is still to come; the second half
\* of a store is never TIME_LOW or ALARM_LOW, so the low halves always agree.
RtcMeant ==
    /\ Rtc!LowOf(count) = Rtc!LowOf(set)
    /\ ((IF Rtc!Inside(1) THEN rest[2] ELSE Rtc!HighOf(count)) + carries) % RtcHalf
         = Rtc!HighOf(set)
    /\ Rtc!LowOf(alarm) = Rtc!LowOf(asked)
    /\ (IF Rtc!Inside(3) THEN rest[2] ELSE Rtc!HighOf(alarm)) = Rtc!HighOf(asked)

RtcInv ==
    /\ Rtc!TypeOK /\ Rtc!LineIsFlags
    /\ rest # <<>> => rest[1] \in {2, 4, 6}
    /\ RtcMeant

LEMMA RtcTypes ==
    ASSUME RtcInv
    PROVE  /\ count \in Rtc!Time /\ alarm \in Rtc!Time /\ set \in Rtc!Time
           /\ asked \in Rtc!Time /\ carries \in Rtc!Word
           /\ running \in BOOLEAN /\ pending \in BOOLEAN /\ enabled \in BOOLEAN
           /\ rtcLine \in BOOLEAN /\ high \in Rtc!Word
           /\ rest \in {<<>>} \cup (Rtc!Writable \X Rtc!Word)
           /\ (rtcLine <=> pending /\ enabled)
           /\ rest # <<>> => rest[1] \in {2, 4, 6}
BY DEF RtcInv, Rtc!TypeOK, Rtc!LineIsFlags

LEMMA RtcWritable == Rtc!Writable = {1, 2, 3, 4, 5, 6, 8}
BY DEF Rtc!Writable, Rtc!Registers

LEMMA RtcCompose ==
    ASSUME NEW q \in Rtc!Word, NEW r \in Rtc!Word
    PROVE  /\ RtcHalf * q + r \in Rtc!Time
           /\ Rtc!LowOf(RtcHalf * q + r) = r /\ Rtc!HighOf(RtcHalf * q + r) = q
<1>1. RtcHalf \in Nat \ {0}
  BY DeviceAssumptions DEF Rtc!RtcAssumption
<1> QED BY <1>1, Compose DEF Rtc!LowOf, Rtc!HighOf, Rtc!Time, Rtc!Word

LEMMA RtcHalves ==
    ASSUME NEW t \in Rtc!Time
    PROVE  /\ Rtc!HighOf(t) \in Rtc!Word /\ Rtc!LowOf(t) \in Rtc!Word
           /\ t = RtcHalf * Rtc!HighOf(t) + Rtc!LowOf(t)
<1>1. RtcHalf \in Nat \ {0}
  BY DeviceAssumptions DEF Rtc!RtcAssumption
<1>2. t \in Nat
  BY DEF Rtc!Time
<1> QED BY <1>1, <1>2, SplitOf, HalvesOf DEF Rtc!HighOf, Rtc!LowOf, Rtc!Time, Rtc!Word

\* A store of one half replaces that half.
LEMMA RtcReplace ==
    ASSUME NEW t \in Rtc!Time, NEW w \in Rtc!Word
    PROVE  /\ RtcHalf * Rtc!HighOf(t) + w \in Rtc!Time
           /\ Rtc!LowOf(RtcHalf * Rtc!HighOf(t) + w) = w
           /\ Rtc!HighOf(RtcHalf * Rtc!HighOf(t) + w) = Rtc!HighOf(t)
           /\ RtcHalf * w + Rtc!LowOf(t) \in Rtc!Time
           /\ Rtc!LowOf(RtcHalf * w + Rtc!LowOf(t)) = Rtc!LowOf(t)
           /\ Rtc!HighOf(RtcHalf * w + Rtc!LowOf(t)) = w
<1>1. Rtc!HighOf(t) \in Rtc!Word /\ Rtc!LowOf(t) \in Rtc!Word
  BY RtcHalves
<1> QED BY <1>1, RtcCompose

\* No carry.
LEMMA RtcNoCarry == 0 \in Rtc!Word /\ \A w \in Rtc!Word : (w + 0) % RtcHalf = w
<1>1. RtcHalf \in Nat \ {0}
  BY DeviceAssumptions DEF Rtc!RtcAssumption
<1>2. ASSUME NEW w \in Rtc!Word PROVE (w + 0) % RtcHalf = w
  <2>1. w \in 0 .. 2 * RtcHalf - 1 /\ w < RtcHalf /\ w + 0 = w
    BY <1>1, <1>2 DEF Rtc!Word
  <2>2. w % RtcHalf = w
    BY <1>1, <2>1, ModTwice
  <2> QED BY <2>1, <2>2
<1> QED BY <1>1, <1>2 DEF Rtc!Word

\* What a store to a register does to the clock, to the alarm and to the flags.
LEMMA RtcStore ==
    ASSUME RtcInv, NEW r \in Rtc!Writable, NEW v \in Rtc!Word, Rtc!Store(r, v)
    PROVE  /\ count' \in Rtc!Time /\ alarm' \in Rtc!Time
           /\ running' \in BOOLEAN /\ pending' \in BOOLEAN /\ enabled' \in BOOLEAN
           /\ rtcLine' \in BOOLEAN
           /\ rtcLine' <=> pending' /\ enabled'
           /\ Rtc!LowOf(count') = IF r = 1 THEN v ELSE Rtc!LowOf(count)
           /\ Rtc!HighOf(count') = IF r = 2 THEN v ELSE Rtc!HighOf(count)
           /\ Rtc!LowOf(alarm') = IF r = 3 THEN v ELSE Rtc!LowOf(alarm)
           /\ Rtc!HighOf(alarm') = IF r = 4 THEN v ELSE Rtc!HighOf(alarm)
           /\ running /\ ~running' /\ r # 6 => pending' /\ alarm' <= count
           /\ ~pending /\ pending' => alarm' <= count /\ ~running'
<1>1. r \in {1, 2, 3, 4, 5, 6, 8}
  BY RtcWritable
<1>2. ASSUME NEW t \in Rtc!Time
      PROVE  /\ RtcHalf * Rtc!HighOf(t) + v \in Rtc!Time
             /\ Rtc!LowOf(RtcHalf * Rtc!HighOf(t) + v) = v
             /\ Rtc!HighOf(RtcHalf * Rtc!HighOf(t) + v) = Rtc!HighOf(t)
             /\ RtcHalf * v + Rtc!LowOf(t) \in Rtc!Time
             /\ Rtc!LowOf(RtcHalf * v + Rtc!LowOf(t)) = Rtc!LowOf(t)
             /\ Rtc!HighOf(RtcHalf * v + Rtc!LowOf(t)) = v
  BY <1>2, RtcReplace
<1>3. /\ count \in Rtc!Time /\ alarm \in Rtc!Time
      /\ running \in BOOLEAN /\ pending \in BOOLEAN /\ enabled \in BOOLEAN
      /\ rtcLine \in BOOLEAN /\ (rtcLine <=> pending /\ enabled)
  BY RtcTypes
<1>4. CASE r \in {1, 2}
  <2>1. /\ count' = IF r = 1 THEN RtcHalf * Rtc!HighOf(count) + v
                             ELSE RtcHalf * v + Rtc!LowOf(count)
        /\ UNCHANGED <<alarm, running, pending, enabled, rtcLine>>
    <3>1. r # 3 /\ r # 4 /\ r # 5 /\ r # 6 /\ r # 8
      BY <1>4
    <3> QED BY <3>1, Zenon DEF Rtc!Store, Rtc!SetTime, Rtc!flags
  <2> QED BY <1>2, <1>3, <1>4, <2>1
<1>5. CASE r = 3
  <2>0. r \notin {1, 2} /\ r # 1 /\ r # 2 /\ r # 4 /\ r # 5 /\ r # 6 /\ r # 8
    BY <1>5
  <2>1. alarm' = RtcHalf * Rtc!HighOf(alarm) + v /\ count' = count /\ Rtc!SetAlarm
    BY <2>0, Zenon DEF Rtc!Store
  <2>2. /\ alarm' \in Rtc!Time
        /\ Rtc!LowOf(alarm') = v /\ Rtc!HighOf(alarm') = Rtc!HighOf(alarm)
    BY <1>2, <1>3, <2>1
  <2>3. CASE alarm' <= count
    <3>1. /\ running' = FALSE /\ pending' = TRUE
          /\ enabled' = enabled /\ rtcLine' = (TRUE /\ enabled)
      BY <2>1, <2>3, Zenon DEF Rtc!SetAlarm, Rtc!TriggerInterrupt, Rtc!UpdateIrq
    <3> QED BY <1>3, <1>5, <2>0, <2>1, <2>2, <2>3, <3>1, Zenon
  <2>4. CASE ~(alarm' <= count)
    <3>1. running' = TRUE /\ UNCHANGED <<pending, enabled, rtcLine>>
      BY <2>1, <2>4, Zenon DEF Rtc!SetAlarm
    <3> QED BY <1>3, <1>5, <2>0, <2>1, <2>2, <3>1, Zenon
  <2> QED BY <2>3, <2>4
<1>6. CASE r = 4
  <2>1. /\ alarm' = RtcHalf * v + Rtc!LowOf(alarm)
        /\ UNCHANGED <<count, running, pending, enabled, rtcLine>>
    BY <1>6 DEF Rtc!Store, Rtc!flags
  <2> QED BY <1>2, <1>3, <1>6, <2>1
<1>7. CASE r = 5
  <2>1. r \notin {1, 2} /\ r # 1 /\ r # 2 /\ r # 3 /\ r # 4 /\ r # 6 /\ r # 8
    BY <1>7
  <2>2. /\ pending' = pending /\ enabled' = (v % 2 = 1) /\ rtcLine' = (pending /\ v % 2 = 1)
        /\ UNCHANGED <<count, alarm, running>>
    BY <2>1, Zenon DEF Rtc!Store, Rtc!UpdateIrq
  <2> QED BY <1>3, <2>1, <2>2, Zenon
<1>8. CASE r = 6
  <2>1. running' = FALSE /\ UNCHANGED <<count, alarm, pending, enabled, rtcLine>>
    BY <1>8 DEF Rtc!Store
  <2>2. r # 1 /\ r # 2 /\ r # 3 /\ r # 4
    BY <1>8
  <2> QED BY <1>3, <1>8, <2>1, <2>2, Zenon
<1>9. CASE r = 8
  <2>1. r \notin {1, 2} /\ r # 1 /\ r # 2 /\ r # 3 /\ r # 4 /\ r # 5 /\ r # 6
    BY <1>9
  <2>2. /\ pending' = FALSE /\ enabled' = enabled /\ rtcLine' = (FALSE /\ enabled)
        /\ UNCHANGED <<count, alarm, running>>
    BY <2>1, Zenon DEF Rtc!Store, Rtc!UpdateIrq
  <2> QED BY <1>3, <2>1, <2>2, Zenon
<1> QED BY <1>1, <1>4, <1>5, <1>6, <1>7, <1>8, <1>9

LEMMA RtcInit == Rtc!Init => RtcInv
<1> SUFFICES ASSUME Rtc!Init PROVE RtcInv
  OBVIOUS
<1>1. 0 \in Rtc!Time /\ 0 \in Rtc!Word /\ RtcHalf \in Nat \ {0}
  <2>1. RtcHalf \in Nat \ {0}
    BY DeviceAssumptions DEF Rtc!RtcAssumption
  <2>2. RtcHalf * RtcHalf \in Nat \ {0}
    BY <2>1
  <2> QED BY <2>1, <2>2 DEF Rtc!Time, Rtc!Word
<1>2. Rtc!TypeOK /\ Rtc!LineIsFlags /\ rest = <<>>
  BY <1>1 DEF Rtc!Init, Rtc!TypeOK, Rtc!LineIsFlags
<1>3. RtcMeant
  <2>1. set = count /\ asked = alarm /\ carries = 0 /\ rest = <<>> /\ count \in Rtc!Time
    BY DEF Rtc!Init
  <2>2. (Rtc!HighOf(count) + 0) % RtcHalf = Rtc!HighOf(count)
    BY <2>1, RtcHalves, RtcNoCarry
  <2> QED BY <2>1, <2>2, Zenon DEF RtcMeant, Rtc!Inside
<1> QED BY <1>2, <1>3 DEF RtcInv

\* What every step of the clock does, one case per action: an alarm goes off
\* only when the device's own alarm has come.
RtcFires == (~pending /\ pending') \/ (running /\ ~running' /\ ~Rtc!ClearsAlarm)
RtcStep == /\ RtcInv'
           /\ RtcFires => alarm' <= count
           /\ ~pending /\ pending' => ~running'
           /\ running /\ ~running' => pending' \/ Rtc!ClearsAlarm

LEMMA RtcNext == ASSUME RtcInv, Rtc!Next PROVE RtcStep
<1>0. /\ count \in Rtc!Time /\ alarm \in Rtc!Time /\ set \in Rtc!Time
      /\ asked \in Rtc!Time /\ carries \in Rtc!Word
      /\ running \in BOOLEAN /\ pending \in BOOLEAN /\ enabled \in BOOLEAN
      /\ rtcLine \in BOOLEAN /\ high \in Rtc!Word
      /\ rest \in {<<>>} \cup (Rtc!Writable \X Rtc!Word)
      /\ (rtcLine <=> pending /\ enabled)
      /\ rest # <<>> => rest[1] \in {2, 4, 6}
  BY RtcTypes
<1>m. RtcMeant
  BY DEF RtcInv
<1> USE DEF RtcStep, RtcFires, RtcInv, Rtc!TypeOK, Rtc!LineIsFlags
<1>1. ASSUME NEW r \in Rtc!Writable, NEW v \in Rtc!Word, Rtc!Store4(r, v)
      PROVE  RtcStep
  <2>1. Rtc!Store(r, v) /\ Rtc!Means4(r, v) /\ rest = <<>> /\ rest' = <<>> /\ high' = high
    BY <1>1 DEF Rtc!Store4
  <2>2. /\ count' \in Rtc!Time /\ alarm' \in Rtc!Time
        /\ running' \in BOOLEAN /\ pending' \in BOOLEAN /\ enabled' \in BOOLEAN
        /\ rtcLine' \in BOOLEAN
        /\ rtcLine' <=> pending' /\ enabled'
        /\ Rtc!LowOf(count') = IF r = 1 THEN v ELSE Rtc!LowOf(count)
        /\ Rtc!HighOf(count') = IF r = 2 THEN v ELSE Rtc!HighOf(count)
        /\ Rtc!LowOf(alarm') = IF r = 3 THEN v ELSE Rtc!LowOf(alarm)
        /\ Rtc!HighOf(alarm') = IF r = 4 THEN v ELSE Rtc!HighOf(alarm)
        /\ running /\ ~running' /\ r # 6 => pending' /\ alarm' <= count
        /\ ~pending /\ pending' => alarm' <= count /\ ~running'
    BY <2>1, RtcStore
  <2>3. /\ Rtc!LowOf(count) = Rtc!LowOf(set) /\ Rtc!LowOf(alarm) = Rtc!LowOf(asked)
        /\ (Rtc!HighOf(count) + carries) % RtcHalf = Rtc!HighOf(set)
        /\ Rtc!HighOf(alarm) = Rtc!HighOf(asked)
    BY <1>m, <2>1 DEF RtcMeant, Rtc!Inside
  <2>4. /\ set' \in Rtc!Time /\ asked' \in Rtc!Time /\ carries' \in Rtc!Word
        /\ Rtc!LowOf(set') = IF r = 1 THEN v ELSE Rtc!LowOf(set)
        /\ Rtc!HighOf(set') = IF r = 2 THEN v ELSE Rtc!HighOf(set)
        /\ Rtc!LowOf(asked') = IF r = 3 THEN v ELSE Rtc!LowOf(asked)
        /\ Rtc!HighOf(asked') = IF r = 4 THEN v ELSE Rtc!HighOf(asked)
        /\ carries' = IF r = 2 THEN 0 ELSE carries
    <3>1. ASSUME NEW t \in Rtc!Time
          PROVE  /\ RtcHalf * Rtc!HighOf(t) + v \in Rtc!Time
                 /\ Rtc!LowOf(RtcHalf * Rtc!HighOf(t) + v) = v
                 /\ Rtc!HighOf(RtcHalf * Rtc!HighOf(t) + v) = Rtc!HighOf(t)
                 /\ RtcHalf * v + Rtc!LowOf(t) \in Rtc!Time
                 /\ Rtc!LowOf(RtcHalf * v + Rtc!LowOf(t)) = Rtc!LowOf(t)
                 /\ Rtc!HighOf(RtcHalf * v + Rtc!LowOf(t)) = v
      BY <3>1, RtcReplace
    <3>2. r \in {1, 2, 3, 4, 5, 6, 8}
      BY RtcWritable
    <3>3. CASE r = 1
      <4>1. set' = RtcHalf * Rtc!HighOf(set) + v /\ asked' = asked /\ carries' = carries
        BY <2>1, <3>3 DEF Rtc!Means4
      <4> QED BY <1>0, <3>1, <3>3, <4>1
    <3>4. CASE r = 2
      <4>1. set' = RtcHalf * v + Rtc!LowOf(set) /\ asked' = asked /\ carries' = 0
        BY <2>1, <3>4 DEF Rtc!Means4
      <4> QED BY <1>0, <3>1, <3>4, <4>1, RtcNoCarry
    <3>5. CASE r = 3
      <4>1. asked' = RtcHalf * Rtc!HighOf(asked) + v /\ set' = set /\ carries' = carries
        BY <2>1, <3>5 DEF Rtc!Means4
      <4> QED BY <1>0, <3>1, <3>5, <4>1
    <3>6. CASE r = 4
      <4>1. asked' = RtcHalf * v + Rtc!LowOf(asked) /\ set' = set /\ carries' = carries
        BY <2>1, <3>6 DEF Rtc!Means4
      <4> QED BY <1>0, <3>1, <3>6, <4>1
    <3>7. CASE r \in {5, 6, 8}
      <4>1. UNCHANGED <<set, asked, carries>>
        BY <2>1, <3>7 DEF Rtc!Means4
      <4> QED BY <1>0, <3>7, <4>1
    <3> QED BY <3>2, <3>3, <3>4, <3>5, <3>6, <3>7
  <2>5. (Rtc!HighOf(count') + carries') % RtcHalf = Rtc!HighOf(set')
    <3>1. CASE r = 2
      BY <2>2, <2>4, <3>1, RtcNoCarry
    <3>2. CASE r # 2
      BY <2>2, <2>3, <2>4, <3>2
    <3> QED BY <3>1, <3>2
  <2>6. RtcMeant'
    <3>1. /\ Rtc!LowOf(count') = Rtc!LowOf(set') /\ Rtc!LowOf(alarm') = Rtc!LowOf(asked')
          /\ Rtc!HighOf(alarm') = Rtc!HighOf(asked')
      BY <2>2, <2>3, <2>4
    <3> QED BY <2>1, <2>5, <3>1, Zenon DEF RtcMeant, Rtc!Inside, Rtc!LowOf, Rtc!HighOf
  <2>7. r = 6 => Rtc!ClearsAlarm
    BY <1>1, Zenon DEF Rtc!ClearsAlarm
  <2> QED BY <1>0, <2>1, <2>2, <2>4, <2>6, <2>7
<1>2. ASSUME NEW r \in Rtc!Writable, NEW lo \in Rtc!Word, NEW hi \in Rtc!Word,
             Rtc!Store8First(r, lo, hi)
      PROVE  RtcStep
  <2>1. /\ r \in {1, 3, 5} /\ Rtc!Store(r, lo) /\ rest' = <<r + 1, hi>> /\ high' = high
        /\ Rtc!Means8(r, lo, hi) /\ rest = <<>>
    BY <1>2 DEF Rtc!Store8First
  <2>2. /\ rest' \in Rtc!Writable \X Rtc!Word /\ rest'[1] \in {2, 4, 6}
        /\ rest'[1] = r + 1 /\ rest'[2] = hi /\ rest' # <<>>
    BY <2>1, RtcWritable
  <2>3. /\ RtcHalf * hi + lo \in Rtc!Time
        /\ Rtc!LowOf(RtcHalf * hi + lo) = lo /\ Rtc!HighOf(RtcHalf * hi + lo) = hi
    BY RtcCompose
  <2>4. /\ count' \in Rtc!Time /\ alarm' \in Rtc!Time
        /\ running' \in BOOLEAN /\ pending' \in BOOLEAN /\ enabled' \in BOOLEAN
        /\ rtcLine' \in BOOLEAN
        /\ rtcLine' <=> pending' /\ enabled'
        /\ Rtc!LowOf(count') = IF r = 1 THEN lo ELSE Rtc!LowOf(count)
        /\ Rtc!HighOf(count') = IF r = 2 THEN lo ELSE Rtc!HighOf(count)
        /\ Rtc!LowOf(alarm') = IF r = 3 THEN lo ELSE Rtc!LowOf(alarm)
        /\ Rtc!HighOf(alarm') = IF r = 4 THEN lo ELSE Rtc!HighOf(alarm)
        /\ running /\ ~running' /\ r # 6 => pending' /\ alarm' <= count
        /\ ~pending /\ pending' => alarm' <= count /\ ~running'
    BY <2>1, RtcStore
  <2>5. /\ Rtc!LowOf(count) = Rtc!LowOf(set) /\ Rtc!LowOf(alarm) = Rtc!LowOf(asked)
        /\ (Rtc!HighOf(count) + carries) % RtcHalf = Rtc!HighOf(set)
        /\ Rtc!HighOf(alarm) = Rtc!HighOf(asked)
    BY <1>m, <2>1 DEF RtcMeant, Rtc!Inside
  <2>6. /\ set' = IF r = 1 THEN RtcHalf * hi + lo ELSE set
        /\ carries' = IF r = 1 THEN 0 ELSE carries
        /\ asked' = IF r = 3 THEN RtcHalf * hi + lo ELSE asked
    BY <2>1 DEF Rtc!Means8
  <2>7. set' \in Rtc!Time /\ asked' \in Rtc!Time /\ carries' \in Rtc!Word
    BY <1>0, <2>3, <2>6, RtcNoCarry
  <2>8. RtcMeant'
    <3>1. Rtc!LowOf(count') = Rtc!LowOf(set') /\ Rtc!LowOf(alarm') = Rtc!LowOf(asked')
      BY <2>1, <2>3, <2>4, <2>5, <2>6
    <3>2. CASE r = 1
      <4>1. (rest'[2] + carries') % RtcHalf = Rtc!HighOf(set')
        BY <2>2, <2>3, <2>6, <3>2, RtcNoCarry
      <4>2. rest'[1] = 1 + 1 /\ rest'[1] # 3 + 1
        BY <2>2, <3>2
      <4>3. Rtc!HighOf(alarm') = Rtc!HighOf(asked')
        BY <2>4, <2>5, <2>6, <3>2
      <4> QED BY <2>2, <3>1, <4>1, <4>2, <4>3, Zenon DEF RtcMeant, Rtc!Inside, Rtc!LowOf, Rtc!HighOf
    <3>3. CASE r = 3
      <4>1. rest'[2] = Rtc!HighOf(asked')
        BY <2>2, <2>3, <2>6, <3>3
      <4>2. rest'[1] # 1 + 1 /\ rest'[1] = 3 + 1
        BY <2>2, <3>3
      <4>3. (Rtc!HighOf(count') + carries') % RtcHalf = Rtc!HighOf(set')
        BY <2>4, <2>5, <2>6, <3>3
      <4> QED BY <2>2, <3>1, <4>1, <4>2, <4>3, Zenon DEF RtcMeant, Rtc!Inside, Rtc!LowOf, Rtc!HighOf
    <3>4. CASE r = 5
      <4>1. rest'[1] # 1 + 1 /\ rest'[1] # 3 + 1
        BY <2>2, <3>4
      <4>2. /\ (Rtc!HighOf(count') + carries') % RtcHalf = Rtc!HighOf(set')
            /\ Rtc!HighOf(alarm') = Rtc!HighOf(asked')
        BY <2>4, <2>5, <2>6, <3>4
      <4> QED BY <2>2, <3>1, <4>1, <4>2, Zenon DEF RtcMeant, Rtc!Inside, Rtc!LowOf, Rtc!HighOf
    <3> QED BY <2>1, <3>2, <3>3, <3>4
  <2>9. r # 6
    BY <2>1
  <2> QED BY <1>0, <2>1, <2>2, <2>4, <2>7, <2>8, <2>9
<1>3. CASE Rtc!Store8Second
  <2>1. rest[1] \in Rtc!Writable /\ rest[2] \in Rtc!Word /\ rest[1] \in {2, 4, 6}
    BY <1>0, <1>3 DEF Rtc!Store8Second
  <2>2. /\ Rtc!Store(rest[1], rest[2]) /\ rest' = <<>> /\ rest # <<>>
        /\ UNCHANGED <<high, set, carries, asked>>
    BY <1>3 DEF Rtc!Store8Second, Rtc!meant
  <2>3. /\ count' \in Rtc!Time /\ alarm' \in Rtc!Time
        /\ running' \in BOOLEAN /\ pending' \in BOOLEAN /\ enabled' \in BOOLEAN
        /\ rtcLine' \in BOOLEAN
        /\ rtcLine' <=> pending' /\ enabled'
        /\ Rtc!LowOf(count') = IF rest[1] = 1 THEN rest[2] ELSE Rtc!LowOf(count)
        /\ Rtc!HighOf(count') = IF rest[1] = 2 THEN rest[2] ELSE Rtc!HighOf(count)
        /\ Rtc!LowOf(alarm') = IF rest[1] = 3 THEN rest[2] ELSE Rtc!LowOf(alarm)
        /\ Rtc!HighOf(alarm') = IF rest[1] = 4 THEN rest[2] ELSE Rtc!HighOf(alarm)
        /\ running /\ ~running' /\ rest[1] # 6 => pending' /\ alarm' <= count
        /\ ~pending /\ pending' => alarm' <= count /\ ~running'
    BY <2>1, <2>2, RtcStore
  <2>4. /\ Rtc!LowOf(count) = Rtc!LowOf(set) /\ Rtc!LowOf(alarm) = Rtc!LowOf(asked)
        /\ ((IF rest[1] = 2 THEN rest[2] ELSE Rtc!HighOf(count)) + carries) % RtcHalf
             = Rtc!HighOf(set)
        /\ (IF rest[1] = 4 THEN rest[2] ELSE Rtc!HighOf(alarm)) = Rtc!HighOf(asked)
    BY <1>m, <2>2 DEF RtcMeant, Rtc!Inside
  <2>5. RtcMeant'
    <3>1. /\ Rtc!LowOf(count') = Rtc!LowOf(set) /\ Rtc!LowOf(alarm') = Rtc!LowOf(asked)
          /\ (Rtc!HighOf(count') + carries) % RtcHalf = Rtc!HighOf(set)
          /\ Rtc!HighOf(alarm') = Rtc!HighOf(asked)
      BY <2>1, <2>3, <2>4
    <3> QED BY <2>2, <3>1, Zenon DEF RtcMeant, Rtc!Inside, Rtc!LowOf, Rtc!HighOf
  <2>6. rest[1] = 6 => Rtc!ClearsAlarm
    BY <2>2 DEF Rtc!ClearsAlarm, Rtc!Inside
  <2> QED BY <1>0, <2>2, <2>3, <2>5, <2>6
<1>4. CASE Rtc!LoadTimeLow
  <2>1. /\ UNCHANGED <<count, alarm, running, pending, enabled, rtcLine, rest, set, carries, asked>>
        /\ high' \in Rtc!Word
    BY <1>0, <1>4, RtcHalves DEF Rtc!LoadTimeLow, Rtc!flags, Rtc!meant
  <2>2. RtcMeant'
    BY <1>m, <2>1, Zenon DEF RtcMeant, Rtc!Inside, Rtc!LowOf, Rtc!HighOf
  <2> QED BY <1>0, <2>1, <2>2
<1>5. CASE Rtc!Tick
  <2>1. /\ UNCHANGED <<count, alarm, high, rest, set, carries, asked, enabled>>
        /\ running /\ count >= alarm /\ running' = FALSE /\ pending' = TRUE
        /\ rtcLine' = enabled
    BY <1>0, <1>5 DEF Rtc!Tick, Rtc!TriggerInterrupt, Rtc!UpdateIrq, Rtc!meant
  <2>2. RtcMeant'
    BY <1>m, <2>1, Zenon DEF RtcMeant, Rtc!Inside, Rtc!LowOf, Rtc!HighOf
  <2>3. alarm' <= count
    <3>1. alarm \in Nat /\ count \in Nat
      BY <1>0 DEF Rtc!Time
    <3> QED BY <2>1, <3>1
  <2> QED BY <1>0, <2>1, <2>2, <2>3
<1>6. CASE Rtc!TimePasses
  <2>1. RtcHalf \in Nat \ {0}
    BY DeviceAssumptions DEF Rtc!RtcAssumption
  <2>2. /\ count' = (count + 1) % (RtcHalf * RtcHalf)
        /\ set' = (set + 1) % (RtcHalf * RtcHalf)
        /\ carries' = IF Rtc!Inside(1) /\ Rtc!LowOf(count) = RtcHalf - 1
                      THEN (carries + 1) % RtcHalf ELSE carries
        /\ UNCHANGED <<alarm, running, pending, enabled, rtcLine, high, rest, asked>>
    BY <1>6 DEF Rtc!TimePasses, Rtc!flags
  <2>3. ASSUME NEW t \in Rtc!Time, NEW u, u = (t + 1) % (RtcHalf * RtcHalf)
        PROVE  /\ u \in Rtc!Time /\ Rtc!LowOf(u) = (Rtc!LowOf(t) + 1) % RtcHalf
               /\ Rtc!HighOf(u) = IF Rtc!LowOf(t) = RtcHalf - 1
                                  THEN (Rtc!HighOf(t) + 1) % RtcHalf ELSE Rtc!HighOf(t)
    BY <2>1, <2>3, Advance DEF Rtc!Time, Rtc!LowOf, Rtc!HighOf
  <2>4. /\ count' \in Rtc!Time /\ set' \in Rtc!Time
        /\ Rtc!LowOf(count') = (Rtc!LowOf(count) + 1) % RtcHalf
        /\ Rtc!LowOf(set') = (Rtc!LowOf(set) + 1) % RtcHalf
        /\ Rtc!HighOf(count') = IF Rtc!LowOf(count) = RtcHalf - 1
                                THEN (Rtc!HighOf(count) + 1) % RtcHalf ELSE Rtc!HighOf(count)
        /\ Rtc!HighOf(set') = IF Rtc!LowOf(set) = RtcHalf - 1
                              THEN (Rtc!HighOf(set) + 1) % RtcHalf ELSE Rtc!HighOf(set)
    BY <1>0, <2>2, <2>3
  <2>5. ASSUME NEW q \in Rtc!Word
        PROVE  /\ (((q + 1) % RtcHalf) + carries) % RtcHalf = (((q + carries) % RtcHalf) + 1) % RtcHalf
               /\ (q + ((carries + 1) % RtcHalf)) % RtcHalf = (((q + carries) % RtcHalf) + 1) % RtcHalf
               /\ (q + 1) % RtcHalf \in Rtc!Word
    BY <1>0, <2>1, <2>5, CarryCommutes DEF Rtc!Word
  <2>6. carries' \in Rtc!Word
    BY <1>0, <2>2, <2>5
  <2>7. /\ Rtc!LowOf(count) = Rtc!LowOf(set) /\ Rtc!LowOf(alarm) = Rtc!LowOf(asked)
        /\ ((IF Rtc!Inside(1) THEN rest[2] ELSE Rtc!HighOf(count)) + carries) % RtcHalf
             = Rtc!HighOf(set)
        /\ (IF Rtc!Inside(3) THEN rest[2] ELSE Rtc!HighOf(alarm)) = Rtc!HighOf(asked)
    BY <1>m DEF RtcMeant
  <2>8. Rtc!HighOf(count) \in Rtc!Word /\ (Rtc!Inside(1) => rest[2] \in Rtc!Word)
    BY <1>0, RtcHalves DEF Rtc!Inside
  <2>9. ((IF Rtc!Inside(1) THEN rest[2] ELSE Rtc!HighOf(count')) + carries') % RtcHalf
          = Rtc!HighOf(set')
    <3>1. CASE Rtc!LowOf(count) # RtcHalf - 1
      <4>1. carries' = carries /\ Rtc!HighOf(count') = Rtc!HighOf(count)
            /\ Rtc!HighOf(set') = Rtc!HighOf(set)
        BY <2>2, <2>4, <2>7, <3>1
      <4> QED BY <2>7, <4>1, Zenon
    <3>2. CASE Rtc!LowOf(count) = RtcHalf - 1 /\ Rtc!Inside(1)
      <4>1. carries' = (carries + 1) % RtcHalf /\ Rtc!HighOf(set') = (Rtc!HighOf(set) + 1) % RtcHalf
        BY <2>2, <2>4, <2>7, <3>2
      <4>2. (rest[2] + carries) % RtcHalf = Rtc!HighOf(set)
        BY <2>7, <3>2
      <4>3. (rest[2] + carries') % RtcHalf = Rtc!HighOf(set')
        BY <2>5, <2>8, <3>2, <4>1, <4>2
      <4> QED BY <3>2, <4>3
    <3>3. CASE Rtc!LowOf(count) = RtcHalf - 1 /\ ~Rtc!Inside(1)
      <4>1. carries' = carries /\ Rtc!HighOf(set') = (Rtc!HighOf(set) + 1) % RtcHalf
            /\ Rtc!HighOf(count') = (Rtc!HighOf(count) + 1) % RtcHalf
        BY <2>2, <2>4, <2>7, <3>3
      <4>2. (Rtc!HighOf(count) + carries) % RtcHalf = Rtc!HighOf(set)
        BY <2>7, <3>3
      <4>3. (Rtc!HighOf(count') + carries') % RtcHalf = Rtc!HighOf(set')
        BY <2>5, <2>8, <4>1, <4>2
      <4> QED BY <3>3, <4>3
    <3> QED BY <3>1, <3>2, <3>3
  <2>10. RtcMeant'
    <3>1. Rtc!LowOf(count') = Rtc!LowOf(set')
      BY <2>4, <2>7
    <3> QED BY <2>2, <2>7, <2>9, <3>1, Zenon DEF RtcMeant, Rtc!Inside, Rtc!LowOf, Rtc!HighOf
  <2> QED BY <1>0, <2>2, <2>4, <2>6, <2>10
<1> QED BY <1>1, <1>2, <1>3, <1>4, <1>5, <1>6 DEF Rtc!Next, Rtc!Guest

\* The device's alarm is the one asked for, unless its high half is missing: an
\* alarm that goes off is not early otherwise.
LEMMA RtcNotEarly ==
    ASSUME RtcStep, RtcFires
    PROVE  asked' <= count \/ Rtc!HighHalfMissing'
<1>1. /\ alarm' \in Rtc!Time /\ asked' \in Rtc!Time /\ alarm' <= count
      /\ Rtc!LowOf(alarm') = Rtc!LowOf(asked')
  BY DEF RtcStep, RtcInv, RtcMeant, Rtc!TypeOK, Rtc!LowOf
<1>2. Rtc!HighHalfMissing' \/ Rtc!HighOf(alarm') = Rtc!HighOf(asked')
  BY DEF RtcStep, RtcInv, RtcMeant, Rtc!HighHalfMissing, Rtc!Inside, Rtc!HighOf
<1>3. CASE Rtc!HighOf(alarm') = Rtc!HighOf(asked')
  BY <1>1, <1>3, RtcHalves
<1> QED BY <1>2, <1>3

-----------------------------------------------------------------------------
(* The timer.                                                              *)

\* The deadlines as the lines show them.  While the host thread is past its
\* sample, what it will drive answers the present deadline, unless the CPU
\* thread has stored another and will tick.  The time shown is not ahead of the
\* time that passes by more than the one tick of a store.
TimerLines ==
    /\ mtip <=> mtime >= mtimecmp
    /\ ~wild => mtime <= Timer!Ticks(elapsed) + fresh
    /\ clean => stce
    /\ host = "out" /\ cpu = "idle" /\ clean => (stip <=> mtime >= stimecmp)
    /\ host = "sampled" /\ cpu = "idle" /\ clean =>
         due # "none" /\ (due = "high" <=> mtime >= stimecmp)

TimerInv == Timer!TypeOK /\ TimerLines

LEMMA TimerTimeIsNat == Timer!Time \subseteq Nat /\ 0 \in Timer!Time
<1>1. ClintHalf \in Nat \ {0}
  BY DeviceAssumptions DEF Timer!ClintAssumption
<1>2. ClintHalf * ClintHalf \in Nat \ {0}
  BY <1>1
<1> QED BY <1>2 DEF Timer!Time

LEMMA TimerTypes ==
    ASSUME TimerInv
    PROVE  /\ elapsed \in 0 .. PerTick * Exact /\ mtime \in Timer!Time
           /\ mtimecmp \in Timer!Time /\ stimecmp \in Timer!Time
           /\ stce \in BOOLEAN /\ mtip \in BOOLEAN /\ stip \in BOOLEAN
           /\ msip \in BOOLEAN /\ clean \in BOOLEAN /\ wild \in BOOLEAN /\ fresh \in {0, 1}
           /\ mtime \in Nat /\ mtimecmp \in Nat /\ stimecmp \in Nat
           /\ ~wild => mtime <= Timer!Ticks(elapsed) + fresh
BY TimerTimeIsNat DEF TimerInv, Timer!TypeOK, TimerLines

LEMMA TimerConstants ==
    /\ PerTick \in Nat \ {0} /\ PerTick >= 2 /\ Exact \in Nat \ {0} /\ Exact \in Timer!Time
    /\ 0 \notin Short /\ 0 \notin Cut
<1>1. ClintHalf * ClintHalf \in Nat
  BY DeviceAssumptions DEF Timer!ClintAssumption
<1> QED BY <1>1, DeviceAssumptions DEF Timer!ClintAssumption, Timer!Time

\* A count of ticks, for a time between two whole ticks or on the dot of one.
LEMMA TicksOf ==
    ASSUME NEW q \in Nat, NEW r \in 0 .. PerTick - 1, NEW ns \in Nat, ns = PerTick * q + r
    PROVE  Timer!Ticks(ns) = IF r = 0 /\ q \in Short THEN q - 1 ELSE q
<1>1. PerTick \in Nat \ {0}
  BY TimerConstants
<1>2. /\ ns = PerTick * (ns \div PerTick) + (ns % PerTick)
      /\ ns \div PerTick \in Nat /\ ns % PerTick \in 0 .. PerTick - 1
  BY <1>1, SplitOf
<1>3. q = ns \div PerTick /\ r = ns % PerTick
  <2>1. PerTick * q + r = PerTick * (ns \div PerTick) + (ns % PerTick)
    BY <1>2
  <2> QED BY <1>1, <1>2, <2>1, SplitIsUnique
<1> QED BY <1>3 DEF Timer!Ticks

\* Ticks never decrease as time passes, and stay values of the register.
LEMMA TicksGoOn ==
    ASSUME NEW ns \in 0 .. PerTick * Exact
    PROVE  /\ Timer!Ticks(ns) \in Timer!Time /\ Timer!Ticks(ns) \in Nat
           /\ Timer!Ticks(ns) <= Timer!Ticks(ns + 1) /\ Timer!Ticks(ns + 1) \in Nat
<1>1. PerTick \in Nat \ {0} /\ PerTick >= 2 /\ Exact \in Nat \ {0} /\ Exact \in Timer!Time /\ 0 \notin Short
  BY TimerConstants
<1>2. PerTick * Exact \in Nat
  BY <1>1
<1>3. ns \in Nat /\ ns <= PerTick * Exact
  BY <1>2
<1>4. PICK q \in Nat, r \in 0 .. PerTick - 1 : ns = PerTick * q + r
  BY <1>1, <1>3, SplitOf
<1>5. Timer!Ticks(ns) = IF r = 0 /\ q \in Short THEN q - 1 ELSE q
  BY <1>3, <1>4, TicksOf
<1>6. Timer!Ticks(ns) \in Nat /\ Timer!Ticks(ns) <= q
  BY <1>1, <1>4, <1>5
<1>7. q <= Exact
  <2> SUFFICES ASSUME q > Exact PROVE FALSE
    BY <1>1, <1>4
  <2>1. PerTick * q >= PerTick * (Exact + 1)
    BY <1>1, <1>4
  <2> QED BY <1>1, <1>2, <1>3, <1>4, <2>1
<1>8. Timer!Ticks(ns) \in Timer!Time
  <2>1. ClintHalf * ClintHalf \in Nat
    BY DeviceAssumptions DEF Timer!ClintAssumption
  <2>2. Timer!Ticks(ns) <= Exact
    BY <1>1, <1>4, <1>6, <1>7
  <2> QED BY <1>1, <1>6, <2>1, <2>2 DEF Timer!Time
<1>9. Timer!Ticks(ns) <= Timer!Ticks(ns + 1) /\ Timer!Ticks(ns + 1) \in Nat
  <2>1. CASE r + 1 < PerTick
    <3>1. ns + 1 \in Nat /\ r + 1 \in 0 .. PerTick - 1 /\ ns + 1 = PerTick * q + (r + 1) /\ r + 1 # 0
      BY <1>1, <1>3, <1>4, <2>1
    <3>2. Timer!Ticks(ns + 1) = q
      BY <3>1, TicksOf
    <3> QED BY <1>4, <1>6, <3>2
  <2>2. CASE r + 1 = PerTick
    <3>1. ns + 1 \in Nat /\ 0 \in 0 .. PerTick - 1 /\ ns + 1 = PerTick * (q + 1) + 0 /\ q + 1 \in Nat
      BY <1>1, <1>3, <1>4, <2>2
    <3>2. Timer!Ticks(ns + 1) = IF q + 1 \in Short THEN q + 1 - 1 ELSE q + 1
      BY <3>1, TicksOf
    <3> QED BY <1>4, <1>6, <3>1, <3>2
  <2> QED BY <1>1, <1>4, <2>1, <2>2
<1> QED BY <1>6, <1>8, <1>9

\* A time that is stored comes back at the next tick, or one less.
LEMMA TicksAfterStore ==
    ASSUME NEW t \in Nat, t < Exact
    PROVE  /\ Timer!Nanoseconds(t) \in 0 .. PerTick * Exact
           /\ t <= Timer!Ticks(Timer!Nanoseconds(t)) + 1
<1>1. PerTick \in Nat \ {0} /\ PerTick >= 2 /\ Exact \in Nat \ {0} /\ 0 \notin Cut
  BY TimerConstants
<1>2. PerTick * t \in Nat /\ PerTick * Exact \in Nat /\ PerTick * t <= PerTick * Exact
  BY <1>1
<1>3. CASE t \in Cut
  <2>1. t \in Nat \ {0} /\ PerTick * t = PerTick * (t - 1) + PerTick
    BY <1>1, <1>3
  <2>2. /\ PerTick * (t - 1) \in Nat /\ t - 1 \in Nat
        /\ PerTick * t - 1 = PerTick * (t - 1) + (PerTick - 1)
    BY <1>1, <2>1
  <2>3. Timer!Nanoseconds(t) = PerTick * t - 1
    BY <1>3 DEF Timer!Nanoseconds
  <2>4. PerTick * t - 1 \in Nat /\ PerTick - 1 \in 0 .. PerTick - 1 /\ PerTick - 1 # 0
    BY <1>1, <1>2, <2>2
  <2>5. Timer!Ticks(PerTick * t - 1) = t - 1
    BY <2>2, <2>4, TicksOf
  <2> QED BY <1>2, <2>1, <2>3, <2>4, <2>5
<1>4. CASE t \notin Cut
  <2>1. Timer!Nanoseconds(t) = PerTick * t
    BY <1>4 DEF Timer!Nanoseconds
  <2>2. PerTick * t = PerTick * t + 0 /\ 0 \in 0 .. PerTick - 1
    BY <1>1, <1>2
  <2>3. Timer!Ticks(PerTick * t) = IF t \in Short THEN t - 1 ELSE t
    BY <1>2, <2>2, TicksOf
  <2> QED BY <1>2, <2>1, <2>3
<1> QED BY <1>3, <1>4

\* A store of a half, or of both, leaves a value of the register.
LEMMA TimerPatch ==
    ASSUME NEW old \in Timer!Time, NEW half \in Timer!Parts, NEW v \in Timer!Time
    PROVE  Timer!Patch(old, half, v) \in Timer!Time
<1>1. ClintHalf \in Nat \ {0}
  BY DeviceAssumptions DEF Timer!ClintAssumption
<1> DEFINE W == 0 .. ClintHalf - 1
<1>2. /\ old \div ClintHalf \in W /\ old % ClintHalf \in W
      /\ v % ClintHalf \in W
  BY <1>1, HalvesOf DEF Timer!Time
<1>3. ASSUME NEW q \in W, NEW r \in W
      PROVE  ClintHalf * q + r \in Timer!Time
  BY <1>1, Compose DEF Timer!Time
<1> HIDE DEF W
<1>4. CASE half = "low"
  BY <1>2, <1>3, <1>4 DEF Timer!Patch
<1>5. CASE half = "high"
  BY <1>2, <1>3, <1>5 DEF Timer!Patch
<1>6. CASE half = "both"
  BY <1>6 DEF Timer!Patch
<1> QED BY <1>4, <1>5, <1>6 DEF Timer!Parts

LEMMA TimerInit == Timer!Init => TimerInv
<1> SUFFICES ASSUME Timer!Init PROVE TimerInv
  OBVIOUS
<1>1. PerTick * Exact \in Nat
  BY TimerConstants
<1>2. Timer!TypeOK
  <2>1. 0 \in 0 .. PerTick * Exact /\ 0 \in Timer!Time
    BY <1>1, TimerTimeIsNat
  <2>2. /\ elapsed = 0 /\ mtime = 0 /\ mtimecmp = 0 /\ stimecmp = 0 /\ fresh = 0
        /\ stce = FALSE /\ mtip = TRUE /\ stip = FALSE /\ msip = FALSE /\ clean = FALSE
        /\ wild = FALSE /\ host = "out" /\ due = "none" /\ cpu = "idle"
    BY DEF Timer!Init
  <2>3. elapsed \in 0 .. PerTick * Exact
    BY <2>1, <2>2
  <2> QED BY <2>1, <2>2, <2>3 DEF Timer!TypeOK
<1>3. mtime >= mtimecmp /\ mtip = TRUE /\ clean = FALSE
  BY DEF Timer!Init
<1>4. mtime <= Timer!Ticks(elapsed) + fresh
  <2>1. elapsed \in 0 .. PerTick * Exact /\ mtime = 0 /\ fresh = 0
    BY <1>1 DEF Timer!Init
  <2>2. Timer!Ticks(elapsed) \in Nat
    BY <2>1, TicksGoOn
  <2> QED BY <2>1, <2>2
<1> QED BY <1>2, <1>3, <1>4, Zenon DEF TimerInv, TimerLines

\* handle_mtimecmp and handle_stimecmp on the CPU thread, with the lock: the lines
\* answer the deadlines.
LEMMA TimerHandle ==
    ASSUME TimerInv, NEW t \in Timer!Time, NEW cmp \in Timer!Time, Timer!Handle(t, cmp),
           host = "out", elapsed' \in 0 .. PerTick * Exact, wild' \in BOOLEAN, fresh' \in {0, 1},
           ~wild' => t <= Timer!Ticks(elapsed') + fresh',
           mtimecmp' = cmp, cpu' = "idle", UNCHANGED <<stimecmp, stce, msip, host, due>>
    PROVE  TimerInv'
<1>1. mtime' = t /\ mtip' = (t >= cmp) /\ clean' = stce
      /\ stip' = IF stce THEN t >= stimecmp ELSE stip
  BY DEF Timer!Handle
<1>2. mtip' \in BOOLEAN /\ stip' \in BOOLEAN /\ clean' \in BOOLEAN
  <2>1. /\ t \in Nat /\ cmp \in Nat /\ stimecmp \in Nat
        /\ stce \in BOOLEAN /\ stip \in BOOLEAN
    BY TimerTypes, TimerTimeIsNat
  <2>2. mtip' \in BOOLEAN
    BY <1>1, <2>1
  <2>3. stip' \in BOOLEAN
    <3>1. CASE stce
      <4>1. stip' = (t >= stimecmp)
        BY <1>1, <3>1
      <4> QED BY <2>1, <4>1
    <3>2. CASE ~stce
      BY <1>1, <2>1, <3>2
    <3> QED BY <3>1, <3>2
  <2> QED BY <1>1, <2>1, <2>2, <2>3
<1>3. Timer!TypeOK'
  BY <1>1, <1>2, TimerTypes DEF TimerInv, Timer!TypeOK
<1>4. mtip' <=> mtime' >= mtimecmp'
  BY <1>1
<1>5. clean' => (stip' <=> mtime' >= stimecmp')
  BY <1>1
<1>6. ~wild' => mtime' <= (Timer!Ticks(elapsed) + fresh)'
  BY <1>1 DEF Timer!Ticks
<1> QED BY <1>1, <1>3, <1>4, <1>5, <1>6 DEF TimerInv, TimerLines

\* Time goes back only where the guest stores it, by one tick right after, or
\* when the start time is not held.
TimerStep ==
    /\ TimerInv'
    /\ mtime' < mtime =>
         \/ \E half \in Timer!Parts, v \in Timer!Time : Timer!WriteMtime(half, v)
         \/ fresh = 1 /\ mtime' = mtime - 1
         \/ wild

\* What a tick may compute, and how far it may be behind.
LEMMA TimerNow ==
    ASSUME TimerInv, NEW t \in Timer!Now
    PROVE  /\ t \in Timer!Time
           /\ ~wild => t <= Timer!Ticks(elapsed) + 0
           /\ t < mtime => (fresh = 1 /\ t = mtime - 1) \/ wild
<1>1. /\ elapsed \in 0 .. PerTick * Exact /\ mtime \in Nat /\ fresh \in {0, 1}
      /\ ~wild => mtime <= Timer!Ticks(elapsed) + fresh
  BY TimerTypes
<1>2. Timer!Ticks(elapsed) \in Timer!Time /\ Timer!Ticks(elapsed) \in Nat
  BY <1>1, TicksGoOn
<1>3. CASE wild
  <2>1. t \in Timer!Time
    BY <1>3 DEF Timer!Now
  <2> QED BY <1>3, <2>1
<1>4. CASE ~wild
  <2>1. t = Timer!Ticks(elapsed)
    BY <1>4 DEF Timer!Now
  <2> QED BY <1>1, <1>2, <1>4, <2>1
<1> QED BY <1>3, <1>4

\* A tick on the CPU thread.
LEMMA TimerTick ==
    ASSUME TimerInv, NEW cmp \in Timer!Time, Timer!TickInternal(cmp),
           host = "out", mtimecmp' = cmp, cpu' = "idle",
           UNCHANGED <<stimecmp, stce, msip, host, due>>
    PROVE  TimerStep
<1>1. PICK t \in Timer!Now : Timer!Handle(t, cmp)
  BY DEF Timer!TickInternal
<1>2. elapsed' = elapsed /\ wild' = wild /\ fresh' = 0 /\ mtime' = t
  BY <1>1 DEF Timer!TickInternal, Timer!Handle
<1>3. /\ t \in Timer!Time
      /\ ~wild => t <= Timer!Ticks(elapsed) + 0
      /\ t < mtime => (fresh = 1 /\ t = mtime - 1) \/ wild
  BY <1>1, TimerNow
<1>4. /\ elapsed' \in 0 .. PerTick * Exact /\ wild' \in BOOLEAN /\ fresh' \in {0, 1}
      /\ ~wild' => t <= Timer!Ticks(elapsed') + fresh'
  BY <1>2, <1>3, TimerTypes
<1>5. TimerInv'
  BY <1>1, <1>3, <1>4, TimerHandle
<1> QED BY <1>2, <1>3, <1>5 DEF TimerStep

LEMMA TimerNext == ASSUME TimerInv, Timer!Next PROVE TimerStep
<1>0. /\ elapsed \in 0 .. PerTick * Exact /\ mtime \in Timer!Time
      /\ mtimecmp \in Timer!Time /\ stimecmp \in Timer!Time
      /\ stce \in BOOLEAN /\ mtip \in BOOLEAN /\ stip \in BOOLEAN
      /\ msip \in BOOLEAN /\ clean \in BOOLEAN /\ Timer!Time \subseteq Nat
      /\ wild \in BOOLEAN /\ fresh \in {0, 1} /\ mtime \in Nat
      /\ ~wild => mtime <= Timer!Ticks(elapsed) + fresh
  BY TimerTypes, TimerTimeIsNat
<1>1. CASE Timer!TimePasses
  <2>1. /\ elapsed' = elapsed + 1 /\ elapsed < PerTick * Exact
        /\ UNCHANGED <<mtime, mtimecmp, stimecmp, stce, mtip, stip, msip, host, due, cpu,
                       clean, wild, fresh>>
    BY <1>1 DEF Timer!TimePasses
  <2>2. PerTick * Exact \in Nat
    BY TimerConstants
  <2>3. elapsed' \in 0 .. PerTick * Exact
    BY <1>0, <2>1, <2>2
  <2>4. /\ Timer!Ticks(elapsed) <= Timer!Ticks(elapsed + 1)
        /\ Timer!Ticks(elapsed) \in Nat /\ Timer!Ticks(elapsed + 1) \in Nat
    BY <1>0, TicksGoOn
  <2>5. ~wild' => mtime' <= Timer!Ticks(elapsed') + fresh'
    BY <1>0, <2>1, <2>4
  <2>6. Timer!TypeOK'
    BY <2>1, <2>3 DEF TimerInv, Timer!TypeOK
  <2>7. TimerLines'
    BY <2>1, <2>5, Zenon DEF TimerInv, TimerLines, Timer!Ticks
  <2> QED BY <1>0, <2>1, <2>6, <2>7 DEF TimerStep, TimerInv
<1>2. CASE Timer!HostTick
  <2>1. PICK t \in Timer!Now : mtime' = t
    BY <1>2 DEF Timer!HostTick
  <2>2. /\ t \in Timer!Time
        /\ ~wild => t <= Timer!Ticks(elapsed) + 0
        /\ t < mtime => (fresh = 1 /\ t = mtime - 1) \/ wild
    BY TimerNow
  <2>3. /\ UNCHANGED <<elapsed, mtimecmp, stimecmp, stce, stip, msip, due, cpu, clean, wild>>
        /\ fresh' = 0 /\ host' = "compared" /\ mtip' = (mtime' >= mtimecmp)
    BY <1>2 DEF Timer!HostTick
  <2>4. mtip' \in BOOLEAN /\ (mtip' <=> mtime' >= mtimecmp')
    <3>1. mtime' \in Nat /\ mtimecmp \in Nat
      BY <1>0, <2>1, <2>2
    <3>2. mtip' \in BOOLEAN
      BY <2>3, <3>1
    <3>3. mtip' <=> mtime' >= mtimecmp
      BY <2>3, <3>1
    <3> QED BY <2>3, <3>2, <3>3, Zenon
  <2>5. Timer!TypeOK'
    BY <1>0, <2>1, <2>2, <2>3, <2>4 DEF TimerInv, Timer!TypeOK
  <2>6. ~wild' => mtime' <= (Timer!Ticks(elapsed) + fresh)'
    BY <2>1, <2>2, <2>3 DEF Timer!Ticks
  <2>7. TimerLines'
    BY <2>3, <2>4, <2>6 DEF TimerInv, TimerLines
  <2> QED BY <2>1, <2>2, <2>5, <2>7 DEF TimerStep, TimerInv
<1>3. CASE Timer!HostSample
  <2>1. /\ UNCHANGED <<elapsed, mtime, mtimecmp, stimecmp, stce, mtip, stip, msip, cpu, wild, fresh>>
        /\ host = "compared" /\ host' = "sampled" /\ clean' = stce
        /\ due' = IF ~stce THEN "none" ELSE IF mtime >= stimecmp THEN "high" ELSE "low"
    BY <1>3 DEF Timer!HostSample
  <2>2. ~wild' => mtime' <= (Timer!Ticks(elapsed) + fresh)'
    BY <1>0, <2>1 DEF Timer!Ticks
  <2> QED BY <1>0, <2>1, <2>2 DEF TimerStep, TimerInv, TimerLines, Timer!TypeOK
<1>4. CASE Timer!HostDrive
  <2>1. stip' \in BOOLEAN /\ (due # "none" => (stip' <=> due = "high"))
    BY <1>0, <1>4 DEF Timer!HostDrive
  <2>2. /\ UNCHANGED <<elapsed, mtime, mtimecmp, stimecmp, stce, mtip, msip, cpu, clean, wild, fresh>>
        /\ host = "sampled" /\ host' = "out" /\ due' = "none"
    BY <1>4 DEF Timer!HostDrive
  <2>3. ~wild' => mtime' <= (Timer!Ticks(elapsed) + fresh)'
    BY <1>0, <2>2 DEF Timer!Ticks
  <2> QED BY <1>0, <2>1, <2>2, <2>3 DEF TimerStep, TimerInv, TimerLines, Timer!TypeOK
<1>5. CASE Timer!TickAfterStore \/ Timer!ReadTime
  BY <1>0, <1>5, TimerTick DEF Timer!TickAfterStore, Timer!ReadTime, Timer!Free
<1>6. ASSUME NEW v \in Timer!Time, Timer!StoreStimecmp(v)
      PROVE  TimerStep
  <2>1. /\ UNCHANGED <<elapsed, mtime, mtimecmp, stce, mtip, stip, msip, host, due, clean, wild, fresh>>
        /\ stimecmp' = v /\ cpu' = "tick"
    BY <1>6 DEF Timer!StoreStimecmp
  <2>2. ~wild' => mtime' <= (Timer!Ticks(elapsed) + fresh)'
    BY <1>0, <2>1 DEF Timer!Ticks
  <2> QED BY <1>0, <2>1, <2>2 DEF TimerStep, TimerInv, TimerLines, Timer!TypeOK
<1>7. ASSUME NEW half \in Timer!Parts, NEW v \in Timer!Time, Timer!WriteMtimecmp(half, v)
      PROVE  TimerStep
  <2>1. mtimecmp' \in Timer!Time
    BY <1>0, <1>7, TimerPatch DEF Timer!WriteMtimecmp
  <2> QED BY <1>7, <2>1, TimerTick DEF Timer!WriteMtimecmp, Timer!Free
<1>8. ASSUME NEW half \in Timer!Parts, NEW v \in Timer!Time, Timer!WriteMtime(half, v)
      PROVE  TimerStep
  <2> DEFINE t == Timer!Patch(mtime, half, v)
  <2>1. t \in Timer!Time /\ t \in Nat
    BY <1>0, TimerPatch
  <2>2. /\ Timer!Handle(t, mtimecmp) /\ mtime' = t
        /\ wild' = (mtime' >= Exact) /\ fresh' = 1
        /\ elapsed' = IF wild' THEN elapsed ELSE Timer!Nanoseconds(mtime')
    BY <1>8 DEF Timer!WriteMtime, Timer!Handle
  <2> HIDE DEF t
  <2>3. wild' \in BOOLEAN /\ (~wild' => t < Exact)
    <3>1. Exact \in Nat
      BY TimerConstants
    <3>2. wild' = (t >= Exact)
      BY <2>2
    <3>3. wild' \in BOOLEAN
      BY <2>1, <3>1, <3>2
    <3>4. ~wild' => ~(t >= Exact)
      BY <3>2, Zenon
    <3>5. ~wild' => t < Exact
      BY <2>1, <3>1, <3>4
    <3> QED BY <3>3, <3>5
  <2>4. /\ elapsed' \in 0 .. PerTick * Exact
        /\ ~wild' => t <= Timer!Ticks(elapsed') + fresh'
    <3>1. CASE wild'
      BY <1>0, <2>2, <3>1
    <3>2. CASE ~wild'
      <4>1. elapsed' = Timer!Nanoseconds(t)
        BY <2>2, <3>2
      <4>2. /\ Timer!Nanoseconds(t) \in 0 .. PerTick * Exact
            /\ t <= Timer!Ticks(Timer!Nanoseconds(t)) + 1
        BY <2>1, <2>3, <3>2, TicksAfterStore
      <4> QED BY <2>2, <4>1, <4>2
    <3> QED BY <3>1, <3>2
  <2>5. TimerInv'
    BY <1>0, <1>8, <2>1, <2>2, <2>3, <2>4, TimerHandle DEF Timer!WriteMtime, Timer!Free
  <2> QED BY <1>8, <2>5 DEF TimerStep
<1>9. ASSUME NEW v \in BOOLEAN,
             Timer!WriteMsip(v) \/ Timer!WriteMenvcfg(v) \/ Timer!WriteMip(v)
      PROVE  TimerStep
  <2>1. Timer!TypeOK'
    <3> USE DEF TimerInv, Timer!TypeOK
    <3>1. CASE Timer!WriteMsip(v)
      BY <1>0, <3>1 DEF Timer!WriteMsip
    <3>2. CASE Timer!WriteMenvcfg(v)
      BY <1>0, <3>2 DEF Timer!WriteMenvcfg
    <3>3. CASE Timer!WriteMip(v)
      BY <1>0, <3>3 DEF Timer!WriteMip
    <3> QED BY <1>9, <3>1, <3>2, <3>3
  <2>2. TimerLines'
    <3> USE DEF TimerInv, TimerLines, Timer!Ticks
    <3>1. CASE Timer!WriteMsip(v)
      BY <3>1, Zenon DEF Timer!WriteMsip
    <3>2. CASE Timer!WriteMenvcfg(v)
      BY <3>2, Zenon DEF Timer!WriteMenvcfg
    <3>3. CASE Timer!WriteMip(v)
      BY <3>3, Zenon DEF Timer!WriteMip
    <3> QED BY <1>9, <3>1, <3>2, <3>3
  <2>3. mtime' = mtime
    BY <1>9 DEF Timer!WriteMsip, Timer!WriteMenvcfg, Timer!WriteMip
  <2> QED BY <1>0, <2>1, <2>2, <2>3 DEF TimerStep, TimerInv
<1> QED BY <1>1, <1>2, <1>3, <1>4, <1>5, <1>6, <1>7, <1>8, <1>9
        DEF Timer!Next, Timer!Host, Timer!Cpu

-----------------------------------------------------------------------------
(* The serial port.                                                        *)

\* The transmitter is always empty: tx_byte prints at once.
UartInv ==
    /\ Uart!TypeOK /\ temt = TRUE
    /\ Uart!DataReadyIsQueue /\ Uart!LineIsCause /\ Uart!ReceivedIsKept

LEMMA UartTypes ==
    ASSUME UartInv
    PROVE  /\ typed \in Seq(Char) /\ Len(typed) <= MaxTyped
           /\ queue \in Seq(Char) /\ Len(queue) <= QUEUE_SIZE
           /\ ier \subseteq {"RDI", "THRI"}
           /\ fifo \in BOOLEAN /\ dlab \in BOOLEAN /\ loop \in BOOLEAN /\ dr \in BOOLEAN
           /\ temt = TRUE /\ uartLine \in BOOLEAN /\ owed = queue
           /\ (dr <=> queue # <<>>)
BY DEF UartInv, Uart!TypeOK, Uart!DataReadyIsQueue, Uart!ReceivedIsKept

\* update_interrupt with the queue, the status and the enables of an access.
LEMMA UartUpdate ==
    ASSUME NEW q \in Seq(Char), Len(q) <= QUEUE_SIZE, NEW ready \in BOOLEAN,
           ready <=> q # <<>>, NEW te, te = TRUE, NEW e \in SUBSET {"RDI", "THRI"},
           NEW clear \in SUBSET {"RCVR", "XMIT"},
           Uart!UpdateInterrupt(q, ready, te, e, clear),
           ier' = e, typed' \in Seq(Char), Len(typed') <= MaxTyped,
           fifo' \in BOOLEAN, dlab' \in BOOLEAN, loop' \in BOOLEAN,
           owed' = IF "RCVR" \in clear THEN <<>> ELSE q
    PROVE  UartInv'
<1> DEFINE kept == IF "RCVR" \in clear THEN <<>> ELSE q
           d == ready /\ "RCVR" \notin clear
           cause == (IF "RDI" \in e /\ d THEN 4 ELSE 0) + (IF "THRI" \in e THEN 2 ELSE 0)
<1>1. /\ queue' = kept /\ dr' = d /\ temt' = TRUE
      /\ iir' = (IF cause = 0 THEN 1 ELSE cause) /\ uartLine' = (cause # 0)
  BY DEF Uart!UpdateInterrupt, Uart!IIR_NO_INT, Uart!IIR_RDI, Uart!IIR_THRI
<1>2. kept \in Seq(Char) /\ Len(kept) <= QUEUE_SIZE
  BY DeviceAssumptions DEF Uart!UartAssumption
<1>3. d \in BOOLEAN /\ (d <=> kept # <<>>)
  OBVIOUS
<1>4. /\ cause \in {0, 2, 4, 6}
      /\ cause # 0 <=> ("RDI" \in e /\ d) \/ "THRI" \in e
  OBVIOUS
<1> HIDE DEF kept, d, cause
<1>5. iir' \in {1, 2, 4, 6} /\ uartLine' \in BOOLEAN /\ (uartLine' <=> cause # 0)
      /\ (uartLine' <=> iir' # 1)
  <2>1. CASE cause = 0
    BY <1>1, <2>1
  <2>2. CASE cause \in {2, 4, 6}
    <3>1. iir' = cause /\ cause # 0 /\ cause # 1
      BY <1>1, <2>2
    <3>2. uartLine' = TRUE
      BY <1>1, <3>1
    <3> QED BY <2>2, <3>1, <3>2
  <2> QED BY <1>4, <2>1, <2>2
<1>6. Uart!TypeOK'
  BY <1>1, <1>2, <1>3, <1>5
     DEF Uart!TypeOK, Uart!IIR_NO_INT, Uart!IIR_RDI, Uart!IIR_THRI, Uart!IIR_RLSI, kept
<1>7. Uart!DataReadyIsQueue'
  BY <1>1, <1>3 DEF Uart!DataReadyIsQueue
<1>8. Uart!LineIsCause'
  BY <1>1, <1>3, <1>4, <1>5 DEF Uart!LineIsCause, Uart!IIR_NO_INT
<1>9. Uart!ReceivedIsKept'
  BY <1>1 DEF Uart!ReceivedIsKept, kept
<1> QED BY <1>1, <1>6, <1>7, <1>8, <1>9 DEF UartInv

LEMMA UartInit == Uart!Init => UartInv
<1> SUFFICES ASSUME Uart!Init PROVE UartInv
  OBVIOUS
<1> USE DEF Uart!Init
<1>1. Uart!TypeOK
  <2>1. <<>> \in Seq(Char) /\ Len(<<>>) <= MaxTyped /\ Len(<<>>) <= QUEUE_SIZE
    BY DeviceAssumptions DEF Uart!UartAssumption
  <2> QED BY <2>1 DEF Uart!TypeOK
<1>2. Uart!DataReadyIsQueue /\ Uart!ReceivedIsKept /\ temt = TRUE
  BY DEF Uart!DataReadyIsQueue, Uart!ReceivedIsKept
<1>3. Uart!LineIsCause
  BY Zenon DEF Uart!LineIsCause
<1> QED BY <1>1, <1>2, <1>3 DEF UartInv

LEMMA UartNext == ASSUME UartInv, Uart!Next PROVE UartInv'
<1>0. /\ typed \in Seq(Char) /\ Len(typed) <= MaxTyped
      /\ queue \in Seq(Char) /\ Len(queue) <= QUEUE_SIZE
      /\ ier \subseteq {"RDI", "THRI"}
      /\ fifo \in BOOLEAN /\ dlab \in BOOLEAN /\ loop \in BOOLEAN /\ dr \in BOOLEAN
      /\ temt = TRUE /\ uartLine \in BOOLEAN /\ owed = queue
      /\ (dr <=> queue # <<>>) /\ QUEUE_SIZE \in Nat \ {0} /\ MaxTyped \in Nat
  BY UartTypes, DeviceAssumptions DEF Uart!UartAssumption
<1>1. ASSUME NEW c \in Char, Uart!Type(c) PROVE UartInv'
  <2>1. typed' \in Seq(Char) /\ Len(typed') <= MaxTyped
    BY <1>0, <1>1 DEF Uart!Type
  <2> QED BY <1>1, <2>1 DEF UartInv, Uart!Type, Uart!TypeOK, Uart!mode,
             Uart!DataReadyIsQueue, Uart!LineIsCause, Uart!ReceivedIsKept
<1>2. CASE Uart!Tick
  <2> DEFINE q == Append(queue, Head(typed))
  <2>1. q \in Seq(Char) /\ Len(q) <= QUEUE_SIZE /\ q # <<>>
    BY <1>0, <1>2 DEF Uart!Tick
  <2>2. typed' \in Seq(Char) /\ Len(typed') <= MaxTyped
    BY <1>0, <1>2 DEF Uart!Tick
  <2>3. Uart!UpdateInterrupt(q, TRUE, temt, ier, {}) /\ UNCHANGED <<ier, fifo, dlab, loop>>
        /\ owed' = q
    BY <1>0, <1>2 DEF Uart!Tick, Uart!mode
  <2> HIDE DEF q
  <2> QED BY <1>0, <2>1, <2>2, <2>3, UartUpdate
<1>3. CASE Uart!ReadRX
  <2> DEFINE q == IF dlab \/ queue = <<>> THEN queue ELSE Tail(queue)
             ready == IF dlab THEN dr ELSE q # <<>>
  <2>1. q \in Seq(Char) /\ Len(q) <= QUEUE_SIZE
    BY <1>0
  <2>2. ready \in BOOLEAN /\ (ready <=> q # <<>>)
    BY <1>0
  <2>3. Uart!UpdateInterrupt(q, ready, temt, ier, {}) /\ UNCHANGED <<typed, ier, fifo, dlab, loop>>
        /\ owed' = q
    BY <1>0, <1>3 DEF Uart!ReadRX, Uart!mode
  <2> HIDE DEF q, ready
  <2> QED BY <1>0, <2>1, <2>2, <2>3, UartUpdate
<1>4. ASSUME NEW c \in Char, Uart!WriteTX(c) PROVE UartInv'
  <2> DEFINE back == ~dlab /\ loop /\ Len(queue) < QUEUE_SIZE
             q == IF back THEN Append(queue, c) ELSE queue
             ready == dr \/ back
             te == temt \/ (~dlab /\ ~loop)
  <2>1. q \in Seq(Char) /\ Len(q) <= QUEUE_SIZE
    BY <1>0
  <2>2. ready \in BOOLEAN /\ (ready <=> q # <<>>) /\ te = TRUE
    BY <1>0
  <2>3. Uart!UpdateInterrupt(q, ready, te, ier, {}) /\ UNCHANGED <<typed, ier, fifo, dlab, loop>>
        /\ owed' = q
    BY <1>0, <1>4 DEF Uart!WriteTX, Uart!mode
  <2> HIDE DEF q, ready, te, back
  <2> QED BY <1>0, <2>1, <2>2, <2>3, UartUpdate
<1>5. ASSUME NEW e \in SUBSET {"RDI", "THRI"}, Uart!WriteIER(e) PROVE UartInv'
  <2> DEFINE enables == IF dlab THEN ier ELSE e
  <2>1. enables \in SUBSET {"RDI", "THRI"}
    BY <1>0
  <2>2. Uart!UpdateInterrupt(queue, dr, temt, enables, {}) /\ ier' = enables
        /\ UNCHANGED <<typed, fifo, dlab, loop, owed>>
    BY <1>5 DEF Uart!WriteIER
  <2> HIDE DEF enables
  <2> QED BY <1>0, <2>1, <2>2, UartUpdate
<1>6. ASSUME NEW on \in BOOLEAN, NEW clear \in SUBSET {"RCVR", "XMIT"},
             Uart!WriteFCR(on, clear)
      PROVE  UartInv'
  BY <1>0, <1>6, UartUpdate DEF Uart!WriteFCR
<1>7. ASSUME NEW on \in BOOLEAN, Uart!WriteLCR(on) \/ Uart!WriteMCR(on) PROVE UartInv'
  BY <1>0, <1>7, UartUpdate DEF Uart!WriteLCR, Uart!WriteMCR
<1> QED BY <1>1, <1>2, <1>3, <1>4, <1>5, <1>6, <1>7 DEF Uart!Next, Uart!Guest

-----------------------------------------------------------------------------
(* The input ring.                                                         *)

\* As long as the ring was never full, nothing is unread in a device that has
\* seen no event.
KeyInv ==
    /\ Key!TypeOK /\ Key!RingIsFifo
    /\ Key!UnreadRaisesLine /\ Key!LineHasCause
    /\ "lapped" \notin odd /\ state = "INIT" => unread = <<>>

\* Indices go round.
LEMMA KeyPlus ==
    ASSUME NEW s \in Key!Slots, NEW n \in 0 .. MAX_EVENTS
    PROVE  /\ (s + n) % MAX_EVENTS = IF s + n < MAX_EVENTS THEN s + n ELSE s + n - MAX_EVENTS
           /\ (s + n) % MAX_EVENTS \in Key!Slots
<1>1. MAX_EVENTS \in Nat \ {0}
  BY DeviceAssumptions DEF Key!EventsAssumption
<1> QED BY <1>1 DEF Key!Slots

LEMMA KeyDistance ==
    ASSUME NEW f \in Key!Slots, NEW l \in Key!Slots
    PROVE  (MAX_EVENTS + l - f) % MAX_EVENTS = IF l >= f THEN l - f ELSE MAX_EVENTS + l - f
<1>1. MAX_EVENTS \in Nat \ {0}
  BY DeviceAssumptions DEF Key!EventsAssumption
<1> QED BY <1>1 DEF Key!Slots

LEMMA KeyTypes ==
    ASSUME KeyInv
    PROVE  /\ MAX_EVENTS \in Nat \ {0}
           /\ words \in [Key!Slots -> Key!Words \cup {Key!Blank}]
           /\ first \in Key!Slots /\ last \in Key!Slots
           /\ keyLine \in BOOLEAN /\ unread \in Seq(Key!Words)
           /\ odd \subseteq {"lapped", "hollow"}
           /\ "lapped" \notin odd =>
                /\ Len(unread) = Key!Enqueued
                /\ Len(unread) < MAX_EVENTS
                /\ unread = <<>> <=> first = last
                /\ \A n \in 1 .. Len(unread) : words[(first + n - 1) % MAX_EVENTS] = unread[n]
<1>1. MAX_EVENTS \in Nat \ {0}
  BY DeviceAssumptions DEF Key!EventsAssumption
<1>2. /\ words \in [Key!Slots -> Key!Words \cup {Key!Blank}]
      /\ first \in Key!Slots /\ last \in Key!Slots
      /\ keyLine \in BOOLEAN /\ unread \in Seq(Key!Words)
      /\ odd \subseteq {"lapped", "hollow"}
  BY DEF KeyInv, Key!TypeOK
<1>3. ASSUME "lapped" \notin odd
      PROVE  Len(unread) = IF last >= first THEN last - first ELSE MAX_EVENTS + last - first
  BY <1>2, <1>3, KeyDistance DEF KeyInv, Key!RingIsFifo
<1>4. ASSUME "lapped" \notin odd
      PROVE  Len(unread) = Key!Enqueued /\ Len(unread) < MAX_EVENTS
             /\ (Len(unread) = 0 <=> first = last)
  BY <1>1, <1>2, <1>3, <1>4 DEF Key!Enqueued, Key!Slots
<1>5. unread = <<>> <=> Len(unread) = 0
  BY <1>2
<1> QED BY <1>1, <1>2, <1>4, <1>5 DEF KeyInv, Key!RingIsFifo

LEMMA KeyInit == Key!Init => KeyInv
<1> SUFFICES ASSUME Key!Init PROVE KeyInv
  OBVIOUS
<1>1. MAX_EVENTS \in Nat \ {0}
  BY DeviceAssumptions DEF Key!EventsAssumption
<1>2. Key!TypeOK
  <2>1. 0 \in Key!Slots
    BY <1>1 DEF Key!Slots
  <2>2. unread \in Seq(Key!Words)
    BY DEF Key!Init
  <2> QED BY <2>1, <2>2 DEF Key!Init, Key!TypeOK
<1>3. Key!RingIsFifo
  <2>1. (MAX_EVENTS + last - first) % MAX_EVENTS = 0
    BY <1>1 DEF Key!Init
  <2> QED BY <2>1 DEF Key!Init, Key!RingIsFifo
<1> QED BY <1>2, <1>3 DEF Key!Init, KeyInv, Key!UnreadRaisesLine, Key!LineHasCause

\* An event that fits goes behind what is unread.
LEMMA KeyEnqueue ==
    ASSUME KeyInv, NEW k \in Presses, Key!EnqueueEvent(k)
    PROVE  Key!TypeOK' /\ Key!RingIsFifo' /\ ("lapped" \notin odd => unread' # <<>>)
<1>1. /\ MAX_EVENTS \in Nat \ {0}
      /\ words \in [Key!Slots -> Key!Words \cup {Key!Blank}]
      /\ first \in Key!Slots /\ last \in Key!Slots
      /\ keyLine \in BOOLEAN /\ unread \in Seq(Key!Words)
      /\ odd \subseteq {"lapped", "hollow"}
  BY KeyTypes
<1> DEFINE t == Key!Triple(k)
           n == MAX_EVENTS
<1>2. /\ t \in Seq(Key!Words) /\ Len(t) = 3
      /\ t[1] = <<"type", k>> /\ t[2] = <<"code", k>> /\ t[3] = <<"value", k>>
      /\ t[1] \in Key!Words /\ t[2] \in Key!Words /\ t[3] \in Key!Words
  <2>1. <<"type", k>> \in Key!Words /\ <<"code", k>> \in Key!Words
        /\ <<"value", k>> \in Key!Words
    BY DEF Key!Words
  <2> QED BY <2>1 DEF Key!Triple
<1> HIDE DEF t
<1>3. n >= 3
  BY <1>1 DEF Key!EnqueueEvent, Key!Enqueued, Key!Slots
<1> DEFINE l1 == (last + 1) % n
           l2 == (last + 2) % n
<1>4. /\ l1 \in Key!Slots /\ l2 \in Key!Slots /\ last' \in Key!Slots
      /\ l1 = IF last + 1 < n THEN last + 1 ELSE last + 1 - n
      /\ l2 = IF last + 2 < n THEN last + 2 ELSE last + 2 - n
      /\ last' = IF last + 3 < n THEN last + 3 ELSE last + 3 - n
  BY <1>1, <1>3, KeyPlus DEF Key!EnqueueEvent, Key!Plus
<1>5. words' = [words EXCEPT ![last] = t[1], ![l1] = t[2], ![l2] = t[3]]
  BY <1>2 DEF Key!EnqueueEvent, Key!Plus
<1> HIDE DEF l1, l2
<1>6. /\ words' \in [Key!Slots -> Key!Words \cup {Key!Blank}]
      /\ words'[last] = t[1] /\ words'[l1] = t[2] /\ words'[l2] = t[3]
      /\ \A s \in Key!Slots \ {last, l1, l2} : words'[s] = words[s]
  <2>1. last # l1 /\ last # l2 /\ l1 # l2
    BY <1>1, <1>3, <1>4 DEF Key!Slots
  <2> QED BY <1>1, <1>2, <1>4, <1>5, <2>1
<1>7. unread' = (IF "lapped" \in odd THEN unread ELSE unread \o t) /\ first' = first
      /\ odd' = IF Len(unread) + 3 = n THEN odd \cup {"lapped"} ELSE odd
  BY DEF Key!EnqueueEvent, Key!Track, t
<1>8. Key!TypeOK'
  <2>1. unread' \in Seq(Key!Words)
    BY <1>1, <1>2, <1>7
  <2>2. /\ page' \in {"NAME", "EVBITS", "ABSDATA", "OTHER"}
        /\ state' \in {"INIT", "BUFFERED", "LIVE"}
        /\ keyLine' \in BOOLEAN
    BY <1>1 DEF Key!EnqueueEvent, KeyInv, Key!TypeOK
  <2> QED BY <1>1, <1>4, <1>6, <1>7, <2>1, <2>2 DEF Key!TypeOK
<1>9. ASSUME "lapped" \notin odd'
      PROVE  Key!RingIsFifo'
  <2>1. "lapped" \notin odd /\ Len(unread) + 3 # n
    BY <1>7, <1>9
  <2>2. /\ Len(unread) = Key!Enqueued
        /\ \A i \in 1 .. Len(unread) : words[(first + i - 1) % n] = unread[i]
    BY <2>1, KeyTypes
  <2> DEFINE u == Len(unread)
  <2>3. u \in Nat /\ u + 3 < n
        /\ u = IF last >= first THEN last - first ELSE n + last - first
    BY <1>1, <2>1, <2>2 DEF Key!EnqueueEvent, Key!Enqueued
  <2>4. /\ unread' = unread \o t /\ Len(unread') = u + 3
        /\ \A i \in 1 .. u : unread'[i] = unread[i]
        /\ unread'[u + 1] = t[1] /\ unread'[u + 2] = t[2] /\ unread'[u + 3] = t[3]
    <3>1. unread' = unread \o t
      BY <1>7, <2>1
    <3>2. /\ Len(unread \o t) = Len(unread) + Len(t)
          /\ \A i \in 1 .. Len(unread) + Len(t) :
               (unread \o t)[i] = IF i <= Len(unread) THEN unread[i] ELSE t[i - Len(unread)]
      <4>1. unread \in Seq(Key!Words) /\ t \in Seq(Key!Words)
        BY <1>1, <1>2
      <4> QED BY <4>1
    <3> QED BY <1>1, <1>2, <3>1, <3>2
  <2> HIDE DEF u
  <2>5. u + 3 = (n + last' - first') % n
    <3>1. (n + last' - first) % n = IF last' >= first THEN last' - first ELSE n + last' - first
      BY <1>1, <1>4, KeyDistance
    <3> QED BY <1>1, <1>4, <1>7, <2>3, <3>1 DEF Key!Slots
  <2>6. ASSUME NEW i \in 1 .. u + 3
        PROVE  words'[(first + i - 1) % n] = unread'[i]
    <3> DEFINE s == (first + (i - 1)) % n
    <3>1. i - 1 \in 0 .. n /\ first + i - 1 = first + (i - 1)
      BY <1>1, <2>3 DEF Key!Slots
    <3>2. s \in Key!Slots
          /\ s = IF first + (i - 1) < n THEN first + (i - 1) ELSE first + (i - 1) - n
      BY <1>1, <3>1, KeyPlus
    <3> HIDE DEF s
    <3>3. CASE i <= u
      <4>1. s \notin {last, l1, l2}
        BY <1>1, <1>3, <1>4, <2>3, <3>2, <3>3 DEF Key!Slots
      <4>2. words'[s] = words[s]
        BY <1>6, <3>2, <4>1
      <4>3. i \in 1 .. u
        BY <2>3, <3>3
      <4>4. words[(first + i - 1) % n] = unread[i] /\ unread'[i] = unread[i]
        BY <2>2, <2>4, <4>3, Zenon DEF u
      <4> QED BY <3>1, <4>2, <4>4 DEF s
    <3>4. CASE i = u + 1
      <4>1. s = last
        BY <1>1, <1>3, <2>3, <3>2, <3>4 DEF Key!Slots
      <4> QED BY <1>6, <2>4, <3>1, <3>4, <4>1 DEF s
    <3>5. CASE i = u + 2
      <4>1. s = l1
        BY <1>1, <1>3, <1>4, <2>3, <3>2, <3>5 DEF Key!Slots
      <4> QED BY <1>6, <2>4, <3>1, <3>5, <4>1 DEF s
    <3>6. CASE i = u + 3
      <4>1. s = l2
        BY <1>1, <1>3, <1>4, <2>3, <3>2, <3>6 DEF Key!Slots
      <4> QED BY <1>6, <2>4, <3>1, <3>6, <4>1 DEF s
    <3> QED BY <2>3, <3>3, <3>4, <3>5, <3>6
  <2> QED BY <1>7, <2>4, <2>5, <2>6 DEF Key!RingIsFifo
<1>10. Key!RingIsFifo'
  BY <1>9 DEF Key!RingIsFifo
<1>11. ASSUME "lapped" \notin odd PROVE unread' # <<>>
  BY <1>1, <1>2, <1>7, <1>11
<1> QED BY <1>8, <1>10, <1>11

\* The guest takes the first unread word.
LEMMA KeyDequeue ==
    ASSUME KeyInv, Key!DequeueEvent
    PROVE  /\ Key!TypeOK' /\ Key!RingIsFifo'
           /\ "lapped" \notin odd => (unread' = <<>> <=> first' = last)
<1>1. /\ MAX_EVENTS \in Nat \ {0}
      /\ first \in Key!Slots /\ last \in Key!Slots
      /\ keyLine \in BOOLEAN /\ unread \in Seq(Key!Words)
      /\ odd \subseteq {"lapped", "hollow"}
  BY KeyTypes
<1> DEFINE n == MAX_EVENTS
<1>2. /\ first # last /\ first' = (first + 1) % n /\ UNCHANGED <<page, state, words, last>>
      /\ unread' = IF "lapped" \in odd THEN unread ELSE Tail(unread)
      /\ odd' \in {odd, odd \ {"hollow"}}
      /\ keyLine' = Key!LineAfterRead(first')
  BY DEF Key!DequeueEvent, Key!Plus, Key!Track
<1>3. first' \in Key!Slots /\ first' = IF first + 1 < n THEN first + 1 ELSE first + 1 - n
  BY <1>1, <1>2, KeyPlus
<1>4. keyLine' \in BOOLEAN
  BY <1>2 DEF Key!LineAfterRead
<1>5. ASSUME "lapped" \notin odd
      PROVE  /\ unread' = Tail(unread) /\ unread # <<>> /\ unread' \in Seq(Key!Words)
             /\ Len(unread') = Len(unread) - 1 /\ Len(unread) < n
             /\ \A i \in 1 .. Len(unread') : unread'[i] = unread[i + 1]
             /\ \A i \in 1 .. Len(unread) : words[(first + i - 1) % n] = unread[i]
             /\ Len(unread) = Key!Enqueued
  <2>1. unread # <<>> /\ Len(unread) < n /\ Len(unread) = Key!Enqueued
        /\ \A i \in 1 .. Len(unread) : words[(first + i - 1) % n] = unread[i]
    BY <1>2, <1>5, KeyTypes
  <2>2. unread' = Tail(unread)
    BY <1>2, <1>5
  <2> QED BY <1>1, <2>1, <2>2
<1>6. Key!TypeOK'
  <2>1. unread' \in Seq(Key!Words)
    BY <1>1, <1>2, <1>5
  <2> QED BY <1>2, <1>3, <1>4, <2>1 DEF KeyInv, Key!TypeOK
<1>7. ASSUME "lapped" \notin odd
      PROVE  /\ Len(unread') = (n + last' - first') % n
             /\ Len(unread') = 0 <=> first' = last
  <2>1. (n + last - first') % n = IF last >= first' THEN last - first' ELSE n + last - first'
    BY <1>1, <1>3, KeyDistance
  <2>2. Len(unread) = IF last >= first THEN last - first ELSE n + last - first
    BY <1>5, <1>7 DEF Key!Enqueued
  <2>3. Len(unread') = Len(unread) - 1
    BY <1>5, <1>7
  <2>4. Len(unread') = IF last >= first' THEN last - first' ELSE n + last - first'
    BY <1>1, <1>2, <1>3, <2>2, <2>3 DEF Key!Slots
  <2>5. Len(unread') = 0 <=> first' = last
    BY <1>1, <1>3, <2>4 DEF Key!Slots
  <2> QED BY <1>2, <2>1, <2>4, <2>5
<1>8. ASSUME "lapped" \notin odd, NEW i \in 1 .. Len(unread')
      PROVE  words'[(first' + i - 1) % n] = unread'[i]
  <2>1. Len(unread) \in Nat /\ i \in Nat /\ i >= 1 /\ i + 1 \in 1 .. Len(unread)
        /\ i - 1 \in 0 .. n /\ i \in 0 .. n
    BY <1>1, <1>5, <1>8
  <2>2. (first' + (i - 1)) % n = (first + i) % n
    <3>1. (first' + (i - 1)) % n =
            IF first' + (i - 1) < n THEN first' + (i - 1) ELSE first' + (i - 1) - n
      BY <1>3, <2>1, KeyPlus
    <3>2. (first + i) % n = IF first + i < n THEN first + i ELSE first + i - n
      BY <1>1, <2>1, KeyPlus
    <3>3. i < n
      BY <1>1, <1>5, <1>8, <2>1
    <3> QED BY <1>1, <1>3, <2>1, <3>1, <3>2, <3>3 DEF Key!Slots
  <2>3. first' + i - 1 = first' + (i - 1) /\ first + (i + 1) - 1 = first + i
    BY <1>1, <1>3, <2>1 DEF Key!Slots
  <2>4. unread'[i] = unread[i + 1] /\ words[(first + (i + 1) - 1) % n] = unread[i + 1]
    BY <1>5, <1>8, <2>1
  <2> QED BY <1>2, <2>2, <2>3, <2>4
<1>9. Key!RingIsFifo'
  BY <1>2, <1>7, <1>8 DEF Key!RingIsFifo
<1>10. ASSUME "lapped" \notin odd PROVE unread' = <<>> <=> first' = last
  BY <1>5, <1>7, <1>10
<1> QED BY <1>6, <1>9, <1>10

LEMMA KeyNext == ASSUME KeyInv, Key!Next PROVE KeyInv'
<1>0. /\ first \in Key!Slots /\ last \in Key!Slots /\ keyLine \in BOOLEAN
      /\ "lapped" \notin odd => (unread = <<>> <=> first = last)
      /\ state \in {"INIT", "BUFFERED", "LIVE"}
  BY KeyTypes DEF KeyInv, Key!TypeOK
<1>1. ASSUME NEW k \in Presses, Key!EnqueueEvent(k) PROVE KeyInv'
  <2>1. Key!TypeOK' /\ Key!RingIsFifo' /\ ("lapped" \notin odd => unread' # <<>>)
    BY <1>1, KeyEnqueue
  <2>2. /\ keyLine' = (keyLine \/ (first = last /\ state = "LIVE"))
        /\ state' = IF first = last /\ state # "LIVE" THEN "BUFFERED" ELSE state
        /\ "lapped" \notin odd' => "lapped" \notin odd
    BY <1>1 DEF Key!EnqueueEvent
  <2>3. ASSUME "lapped" \notin odd', state' = "LIVE" PROVE keyLine' = TRUE
    <3>1. state = "LIVE" /\ "lapped" \notin odd
      BY <2>2, <2>3
    <3>2. CASE first = last
      BY <2>2, <3>1, <3>2
    <3>3. CASE first # last
      <4>1. keyLine = TRUE
        BY <1>0, <3>1, <3>3 DEF KeyInv, Key!UnreadRaisesLine
      <4> QED BY <2>2, <4>1
    <3> QED BY <3>2, <3>3
  <2>4. ASSUME "lapped" \notin odd' PROVE state' # "INIT"
    BY <1>0, <2>2, <2>4 DEF KeyInv
  <2> QED BY <2>1, <2>2, <2>3, <2>4 DEF KeyInv, Key!UnreadRaisesLine, Key!LineHasCause
<1>2. CASE Key!DequeueEvent
  <2>1. /\ Key!TypeOK' /\ Key!RingIsFifo'
        /\ "lapped" \notin odd => (unread' = <<>> <=> first' = last)
    BY <1>2, KeyDequeue
  <2>2. /\ keyLine' = (first' # last /\ (keyLine \/ Key!Plus(first', 2) < last \/ first' > last))
        /\ odd' = IF first' = last THEN odd \ {"hollow"} ELSE odd
        /\ UNCHANGED <<state, last>> /\ first # last
    BY <1>2 DEF Key!DequeueEvent, Key!LineAfterRead
  <2>3. "lapped" \in odd' <=> "lapped" \in odd
    BY <2>2
  <2>4. Key!UnreadRaisesLine'
    BY <1>0, <2>1, <2>2, <2>3 DEF KeyInv, Key!UnreadRaisesLine
  <2>5. Key!LineHasCause'
    BY <2>1, <2>2, <2>3 DEF Key!LineHasCause
  <2>6. ASSUME "lapped" \notin odd', state' = "INIT" PROVE FALSE
    BY <1>0, <2>2, <2>3, <2>6 DEF KeyInv
  <2> QED BY <2>1, <2>4, <2>5, <2>6 DEF KeyInv
<1>3. ASSUME NEW p \in {"NAME", "EVBITS", "ABSDATA", "OTHER"}, Key!SetPage(p) PROVE KeyInv'
  BY <1>3 DEF Key!SetPage, KeyInv, Key!TypeOK, Key!RingIsFifo, Key!UnreadRaisesLine,
              Key!LineHasCause
<1>4. CASE Key!GoLive
  <2>1. /\ keyLine' = (keyLine \/ state = "BUFFERED") /\ state' = "LIVE"
        /\ odd' = IF state = "BUFFERED" /\ first = last THEN odd \cup {"hollow"} ELSE odd
        /\ UNCHANGED <<page, words, first, last, unread>>
    BY <1>4 DEF Key!GoLive
  <2>2. Key!TypeOK'
    BY <1>0, <2>1 DEF KeyInv, Key!TypeOK
  <2>3. Key!RingIsFifo'
    BY <2>1 DEF KeyInv, Key!RingIsFifo
  <2>4. Key!UnreadRaisesLine'
    BY <1>0, <2>1 DEF KeyInv, Key!UnreadRaisesLine
  <2>5. Key!LineHasCause'
    BY <1>0, <2>1 DEF KeyInv, Key!LineHasCause
  <2> QED BY <2>1, <2>2, <2>3, <2>4, <2>5 DEF KeyInv
<1> QED BY <1>1, <1>2, <1>3, <1>4 DEF Key!Next

-----------------------------------------------------------------------------
(* Display.  Whoever holds the mutex is between acquire and release, and   *)
(* while the CPU thread does not hold it the buffer is a whole picture.    *)

FbInv ==
    /\ Fb!TypeOK /\ Fb!FramesAreWhole /\ Fb!EventsInOrder
    /\ buffer \in pictures
    /\ mutex # "cpu" => vram \in pictures
    /\ ui = "copy" => mutex = "ui"
    /\ access \in [at : Nat, left : Nat, value : Pixels \cup {0}]
    /\ access.at + access.left <= SIZE
    /\ events \in Seq(Fb!Event) /\ arrived \in Seq(Fb!Event) /\ sink \in Seq(Fb!Event)
    /\ passed \in Seq(Nat)
    /\ exit \in BOOLEAN

\* The buffer starts black, and so do its copy and the picture on the screen.
LEMMA FbInit == Fb!Init => FbInv
<1> SUFFICES ASSUME Fb!Init PROVE FbInv
  OBVIOUS
<1>0. SIZE \in Nat /\ SIZE > 0 /\ Interval \in Nat
  BY DeviceAssumptions DEF Fb!DisplayAssumption
<1>1. Fb!TypeOK
  BY <1>0 DEF Fb!Init, Fb!TypeOK, Fb!Free
<1>2. Fb!EventsInOrder
  BY DEF Fb!Init, Fb!EventsInOrder, Fb!Polled
<1>3. /\ access \in [at : Nat, left : Nat, value : Pixels \cup {0}]
      /\ access.at + access.left <= SIZE
  BY <1>0 DEF Fb!Init, Fb!NoAccess
<1>4. /\ shown \in pictures /\ buffer \in pictures /\ vram \in pictures /\ ui # "copy"
      /\ exit \in BOOLEAN
  BY DEF Fb!Init
<1>5. /\ events \in Seq(Fb!Event) /\ arrived \in Seq(Fb!Event) /\ sink \in Seq(Fb!Event)
      /\ passed \in Seq(Nat)
  BY DEF Fb!Init
<1> QED BY <1>1, <1>2, <1>3, <1>4, <1>5 DEF FbInv, Fb!FramesAreWhole

\* An event that arrives is the last of the queue and of the history.
LEMMA FbArrive ==
    ASSUME FbInv, NEW e \in Fb!Event, Fb!Arrive(e)
    PROVE  /\ Fb!EventsInOrder'
           /\ events' \in Seq(Fb!Event) /\ arrived' \in Seq(Fb!Event)
<1> USE DEF FbInv
<1>1. /\ arrived' = Append(arrived, e) /\ events' = Append(events, e)
      /\ UNCHANGED <<sink, exit, passed>>
  BY DEF Fb!Arrive, Fb!uiVars
<1>2. /\ arrived' \in Seq(Fb!Event) /\ events' \in Seq(Fb!Event)
      /\ Len(arrived) \in Nat /\ Len(events) \in Nat
      /\ Len(arrived') = Len(arrived) + 1 /\ Len(events') = Len(events) + 1
      /\ \A n \in 1 .. Len(arrived) : arrived'[n] = arrived[n]
      /\ \A n \in 1 .. Len(events) : events'[n] = events[n]
      /\ arrived'[Len(arrived) + 1] = e /\ events'[Len(events) + 1] = e
  BY <1>1
<1>3. /\ Len(events) <= Len(arrived)
      /\ \A n \in 1 .. Len(events) : events[n] = arrived[Len(arrived) - Len(events) + n]
  BY DEF Fb!EventsInOrder
<1>4. /\ Fb!Polled' = Fb!Polled
      /\ \A i \in Fb!Polled : arrived'[i] = arrived[i]
  BY <1>2, <1>3 DEF Fb!Polled
<1>5. /\ Len(events') <= Len(arrived')
      /\ \A n \in 1 .. Len(events') : events'[n] = arrived'[Len(arrived') - Len(events') + n]
  <2>0. /\ Len(events') <= Len(arrived')
        /\ Len(arrived') - Len(events') = Len(arrived) - Len(events)
    BY <1>2, <1>3
  <2>1. ASSUME NEW n \in 1 .. Len(events')
        PROVE  events'[n] = arrived'[Len(arrived') - Len(events') + n]
    <3>1. CASE n = Len(events) + 1
      BY <1>2, <1>3, <2>0, <3>1
    <3>2. CASE n # Len(events) + 1
      <4>1. n \in 1 .. Len(events) /\ Len(arrived) - Len(events) + n \in 1 .. Len(arrived)
        BY <1>2, <1>3, <3>2
      <4> QED BY <1>2, <1>3, <2>0, <4>1
    <3> QED BY <3>1, <3>2
  <2> QED BY ONLY <2>0, <2>1, Zenon
<1>6. exit' <=> \E n \in Fb!Polled' : arrived'[n].type = "quit"
  BY <1>1, <1>4 DEF Fb!EventsInOrder
<1>7. /\ Len(sink') = Len(passed')
      /\ \A n \in 1 .. Len(sink') : passed'[n] \in Fb!Polled' /\ sink'[n] = arrived'[passed'[n]]
      /\ \A m, n \in 1 .. Len(passed') : m < n => passed'[m] < passed'[n]
      /\ \A i \in Fb!Polled' : Fb!Passes(arrived'[i]) <=> \E n \in 1 .. Len(passed') : passed'[n] = i
  BY <1>1, <1>4 DEF Fb!EventsInOrder
<1> QED BY <1>2, <1>5, <1>6, <1>7 DEF Fb!EventsInOrder

\* An event that is polled is the next of the history: it joins the sink,
\* behind what went there before, exactly if it is a key with a Linux code.
LEMMA FbPoll ==
    ASSUME FbInv, Fb!Poll
    PROVE  /\ Fb!EventsInOrder'
           /\ events' \in Seq(Fb!Event) /\ sink' \in Seq(Fb!Event)
           /\ passed' \in Seq(Nat) /\ exit' \in BOOLEAN
<1> DEFINE e == Head(events)
           k == Len(arrived) - Len(events) + 1
<1>0. /\ events \in Seq(Fb!Event) /\ arrived \in Seq(Fb!Event) /\ sink \in Seq(Fb!Event)
      /\ passed \in Seq(Nat) /\ exit \in BOOLEAN /\ Fb!EventsInOrder
  BY DEF FbInv
<1>1. /\ events # <<>> /\ events' = Tail(events) /\ arrived' = arrived
      /\ exit' = (exit \/ e.type = "quit")
      /\ sink' = IF Fb!Passes(e) THEN Append(sink, e) ELSE sink
      /\ passed' = IF Fb!Passes(e) THEN Append(passed, k) ELSE passed
  BY DEF Fb!Poll
<1>2. /\ Len(arrived) \in Nat /\ Len(events) \in Nat /\ Len(events) > 0
      /\ Len(events) <= Len(arrived)
      /\ \A n \in 1 .. Len(events) : events[n] = arrived[Len(arrived) - Len(events) + n]
  BY <1>0, <1>1 DEF Fb!EventsInOrder
<1>3. /\ events' \in Seq(Fb!Event) /\ Len(events') = Len(events) - 1
      /\ \A n \in 1 .. Len(events') : events'[n] = events[n + 1]
      /\ e \in Fb!Event /\ e = events[1]
  BY <1>0, <1>1, <1>2
<1>4. k \in Nat /\ k > 0 /\ k <= Len(arrived) /\ e = arrived[k]
  BY <1>2, <1>3
<1>5. Fb!Polled = 1 .. k - 1 /\ Fb!Polled' = 1 .. k
  BY <1>1, <1>2, <1>3 DEF Fb!Polled
<1>6. /\ Len(events') <= Len(arrived')
      /\ \A n \in 1 .. Len(events') : events'[n] = arrived'[Len(arrived') - Len(events') + n]
  BY <1>1, <1>2, <1>3
<1> HIDE DEF e, k
<1>7. exit' \in BOOLEAN /\ (exit' <=> \E n \in Fb!Polled' : arrived'[n].type = "quit")
  <2>1. exit <=> \E n \in Fb!Polled : arrived[n].type = "quit"
    BY <1>0 DEF Fb!EventsInOrder
  <2>2. /\ \A n \in Fb!Polled' : n \in Fb!Polled \/ n = k
        /\ \A n \in Fb!Polled : n \in Fb!Polled'
        /\ k \in Fb!Polled'
    BY <1>4, <1>5
  <2>3. exit' \in BOOLEAN /\ (exit' <=> exit \/ e.type = "quit")
    BY <1>0, <1>1
  <2> QED BY <1>1, <1>4, <2>1, <2>2, <2>3, Zenon
<1>8. /\ Len(sink) = Len(passed) /\ Len(sink) \in Nat
      /\ \A n \in 1 .. Len(sink) : passed[n] \in 1 .. k - 1 /\ sink[n] = arrived[passed[n]]
      /\ \A m, n \in 1 .. Len(passed) : m < n => passed[m] < passed[n]
      /\ \A i \in 1 .. k - 1 : Fb!Passes(arrived[i]) <=> \E n \in 1 .. Len(passed) : passed[n] = i
  BY <1>0, <1>5 DEF Fb!EventsInOrder
<1>9. CASE Fb!Passes(e)
  <2>1. sink' = Append(sink, e) /\ passed' = Append(passed, k)
    BY <1>1, <1>9
  <2>2. /\ sink' \in Seq(Fb!Event) /\ passed' \in Seq(Nat)
        /\ Len(sink') = Len(sink) + 1 /\ Len(passed') = Len(sink) + 1
        /\ \A n \in 1 .. Len(sink) : sink'[n] = sink[n] /\ passed'[n] = passed[n]
        /\ sink'[Len(sink) + 1] = e /\ passed'[Len(sink) + 1] = k
    BY <1>0, <1>3, <1>4, <1>8, <2>1
  <2>3. \A n \in 1 .. Len(sink') : n \in 1 .. Len(sink) \/ n = Len(sink) + 1
    BY <1>8, <2>2
  <2>4. \A n \in 1 .. Len(sink') : passed'[n] \in Fb!Polled' /\ sink'[n] = arrived'[passed'[n]]
    BY <1>1, <1>4, <1>5, <1>8, <2>2, <2>3
  <2>5. \A m, n \in 1 .. Len(passed') : m < n => passed'[m] < passed'[n]
    <3> SUFFICES ASSUME NEW m \in 1 .. Len(sink) + 1, NEW n \in 1 .. Len(sink) + 1, m < n
                 PROVE  passed'[m] < passed'[n]
      BY <2>2
    <3>0. m \in 1 .. Len(sink)
      BY <1>8
    <3>1. m \in 1 .. Len(sink) /\ passed'[m] = passed[m] /\ passed[m] \in 1 .. k - 1
      BY <1>8, <2>2, <3>0
    <3>2. CASE n = Len(sink) + 1
      BY <1>4, <2>2, <3>1, <3>2
    <3>3. CASE n # Len(sink) + 1
      <4>1. n \in 1 .. Len(sink)
        BY <1>8, <3>3
      <4>2. passed'[n] = passed[n]
        BY <2>2, <4>1
      <4> QED BY <1>8, <3>1, <4>1, <4>2
    <3> QED BY <3>2, <3>3
  <2>6. \A i \in Fb!Polled' : Fb!Passes(arrived'[i]) <=> \E n \in 1 .. Len(passed') : passed'[n] = i
    <3> SUFFICES ASSUME NEW i \in 1 .. k
                 PROVE  Fb!Passes(arrived[i]) <=> \E n \in 1 .. Len(sink) + 1 : passed'[n] = i
      BY <1>1, <1>5, <2>2
    <3>1. CASE i = k
      <4>1. Len(sink) + 1 \in 1 .. Len(sink) + 1
        BY <1>8
      <4> QED BY <1>4, <1>9, <2>2, <3>1, <4>1
    <3>2. CASE i # k
      <4>1. i \in 1 .. k - 1
        BY <1>4, <3>2
      <4>2. Fb!Passes(arrived[i]) <=> \E n \in 1 .. Len(sink) : passed[n] = i
        BY <1>8, <4>1
      <4>3. (\E n \in 1 .. Len(sink) + 1 : passed'[n] = i) <=> \E n \in 1 .. Len(sink) : passed[n] = i
        <5>1. \A n \in 1 .. Len(sink) : n \in 1 .. Len(sink) + 1
          BY <1>8
        <5> QED BY <2>2, <2>3, <3>2, <5>1
      <4> QED BY <4>2, <4>3
    <3> QED BY <3>1, <3>2
  <2> QED BY <1>3, <1>6, <1>7, <2>2, <2>4, <2>5, <2>6 DEF Fb!EventsInOrder
<1>10. CASE ~Fb!Passes(e)
  <2>1. sink' = sink /\ passed' = passed
    BY <1>1, <1>10
  <2>2. \A n \in 1 .. Len(sink') : passed'[n] \in Fb!Polled' /\ sink'[n] = arrived'[passed'[n]]
    BY <1>1, <1>4, <1>5, <1>8, <2>1
  <2>3. \A i \in Fb!Polled' : Fb!Passes(arrived'[i]) <=> \E n \in 1 .. Len(passed') : passed'[n] = i
    <3> SUFFICES ASSUME NEW i \in 1 .. k
                 PROVE  Fb!Passes(arrived[i]) <=> \E n \in 1 .. Len(passed) : passed[n] = i
      BY <1>1, <1>5, <2>1
    <3>1. CASE i = k
      <4>1. \A n \in 1 .. Len(passed) : passed[n] # k
        BY <1>4, <1>8
      <4> QED BY <1>4, <1>10, <3>1, <4>1
    <3>2. CASE i # k
      <4>1. i \in 1 .. k - 1
        BY <1>4, <3>2
      <4> QED BY <1>8, <4>1
    <3> QED BY <3>1, <3>2
  <2> QED BY <1>0, <1>3, <1>6, <1>7, <1>8, <2>1, <2>2, <2>3 DEF Fb!EventsInOrder
<1> QED BY <1>9, <1>10

\* The write of the guest holds the mutex from its first byte to its last, and
\* the host thread copies the buffer while it holds the mutex itself.
LEMMA FbNext == FbInv /\ Fb!Next => FbInv'
<1> SUFFICES ASSUME FbInv, Fb!Next PROVE FbInv'
  OBVIOUS
<1>0. /\ SIZE \in Nat /\ Interval \in Nat
      /\ access \in [at : Nat, left : Nat, value : Pixels \cup {0}]
      /\ access.at \in Nat /\ access.left \in Nat /\ access.value \in Pixels \cup {0}
      /\ access.at + access.left <= SIZE
      /\ vram \in [Fb!Address -> Pixels \cup {0}]
      /\ frameTime \in 0 .. Interval
  BY DeviceAssumptions DEF Fb!DisplayAssumption, FbInv, Fb!TypeOK
<1> DEFINE Queues == <<events, arrived, sink, passed, exit>>
<1>1. UNCHANGED Queues => Fb!EventsInOrder' /\ UNCHANGED <<events, arrived, sink, passed, exit>>
  BY DEF FbInv, Fb!EventsInOrder, Fb!Polled
<1>2. ASSUME NEW offset \in 0 .. SIZE, NEW size \in 1 .. AccessLimit + 1, NEW v \in Pixels,
             Fb!WriteBegin(offset, size, v)
      PROVE  FbInv'
  <2>1. UNCHANGED <<vram, ui, buffer, shown, pictures, frameTime, events, arrived, sink, passed, exit>>
    BY <1>2 DEF Fb!WriteBegin, Fb!uiVars
  <2>2. CASE Fb!Refused(offset, size)
    <3>1. UNCHANGED <<access, mutex>>
      BY <1>2, <2>2 DEF Fb!WriteBegin
    <3> QED BY <1>1, <2>1, <3>1 DEF FbInv, Fb!TypeOK, Fb!FramesAreWhole
  <2>3. CASE ~Fb!Refused(offset, size)
    <3>1. /\ mutex = "free" /\ mutex' = "cpu"
          /\ access' = [at |-> offset, left |-> size, value |-> v]
          /\ size \in Nat /\ size > 0 /\ offset \in Nat /\ offset + size <= SIZE
      BY <1>0, <1>2, <2>3, DeviceAssumptions
         DEF Fb!WriteBegin, Fb!Refused, Fb!Free, Fb!DisplayAssumption
    <3>2. /\ access' \in [at : Nat, left : Nat, value : Pixels \cup {0}]
          /\ access'.at + access'.left <= SIZE
          /\ access' # Fb!NoAccess
      BY <3>1 DEF Fb!NoAccess
    <3> QED BY <1>1, <2>1, <3>1, <3>2 DEF FbInv, Fb!TypeOK, Fb!FramesAreWhole
  <2> QED BY <2>2, <2>3
<1>3. CASE Fb!WriteByte
  <2>1. UNCHANGED <<mutex, ui, buffer, shown, pictures, frameTime, events, arrived, sink, passed, exit>>
    BY <1>3 DEF Fb!WriteByte, Fb!uiVars
  <2>2. /\ access.left > 0 /\ mutex = "cpu"
        /\ vram' = [vram EXCEPT ![access.at] = access.value]
        /\ access' = [access EXCEPT !.at = @ + 1, !.left = @ - 1]
    BY <1>3 DEF Fb!WriteByte
  <2>3. vram' \in [Fb!Address -> Pixels \cup {0}]
    <3>1. access.at \in Fb!Address
      BY <1>0, <2>2 DEF Fb!Address
    <3> QED BY ONLY <1>0, <2>2, <3>1
  <2>4. /\ access' \in [at : Nat, left : Nat, value : Pixels \cup {0}]
        /\ access'.at + access'.left <= SIZE
        /\ access' # Fb!NoAccess
    <3>1. access' = [at |-> access.at + 1, left |-> access.left - 1, value |-> access.value]
      BY <1>0, <2>2
    <3>2. access.at + 1 \in Nat /\ access.left - 1 \in Nat /\ access.at + 1 # 0
      BY <1>0, <2>2
    <3> QED BY <1>0, <3>1, <3>2 DEF Fb!NoAccess
  <2> QED BY <1>1, <2>1, <2>2, <2>3, <2>4 DEF FbInv, Fb!TypeOK, Fb!FramesAreWhole
<1>4. CASE Fb!WriteEnd
  <2>1. UNCHANGED <<vram, ui, buffer, shown, frameTime, events, arrived, sink, passed, exit>>
    BY <1>4 DEF Fb!WriteEnd, Fb!uiVars
  <2>2. /\ access # Fb!NoAccess /\ access' = Fb!NoAccess /\ mutex' = "free"
        /\ pictures' = pictures \cup {vram}
    BY <1>4 DEF Fb!WriteEnd, Fb!Free
  <2>3. ui # "copy"
    BY <2>2 DEF FbInv, Fb!TypeOK
  <2>4. /\ access' \in [at : Nat, left : Nat, value : Pixels \cup {0}]
        /\ access'.at + access'.left <= SIZE
    BY <1>0, <2>2 DEF Fb!NoAccess
  <2> QED BY <1>1, <2>1, <2>2, <2>3, <2>4 DEF FbInv, Fb!TypeOK, Fb!FramesAreWhole
<1>5. ASSUME NEW e \in Fb!Event, Fb!Arrive(e) PROVE FbInv'
  <2>1. UNCHANGED <<vram, mutex, access, ui, buffer, shown, pictures, frameTime, sink, passed, exit>>
    BY <1>5 DEF Fb!Arrive, Fb!uiVars, Fb!cpuVars
  <2> QED BY <1>5, <2>1, FbArrive DEF FbInv, Fb!TypeOK, Fb!FramesAreWhole
<1>6. CASE Fb!Tick
  <2>1. /\ UNCHANGED <<vram, mutex, access, ui, buffer, shown, pictures, events, arrived, sink, passed, exit>>
        /\ frameTime' \in 0 .. Interval
    BY <1>0, <1>6 DEF Fb!Tick, Fb!uiVars, Fb!cpuVars
  <2> QED BY <1>1, <2>1 DEF FbInv, Fb!TypeOK, Fb!FramesAreWhole
<1>7. CASE Fb!Poll
  <2>1. UNCHANGED <<vram, mutex, access, ui, buffer, shown, pictures, frameTime, arrived>>
    BY <1>7 DEF Fb!Poll, Fb!cpuVars
  <2> QED BY <1>7, <2>1, FbPoll DEF FbInv, Fb!TypeOK, Fb!FramesAreWhole
<1>8. CASE Fb!Early
  BY <1>1, <1>8 DEF Fb!Early, Fb!vars, FbInv, Fb!TypeOK, Fb!FramesAreWhole
<1>9. CASE Fb!Lock
  <2>1. /\ UNCHANGED <<vram, access, buffer, shown, pictures, frameTime, events, arrived, sink, passed, exit>>
        /\ mutex = "free" /\ mutex' = "ui" /\ ui' = "copy"
    BY <1>9 DEF Fb!Lock, Fb!cpuVars, Fb!Free
  <2> QED BY <1>1, <2>1 DEF FbInv, Fb!TypeOK, Fb!FramesAreWhole
<1>10. CASE Fb!Copy
  <2>1. /\ UNCHANGED <<vram, access, shown, pictures, frameTime, events, arrived, sink, passed, exit>>
        /\ ui = "copy" /\ buffer' = vram /\ ui' = "present"
        /\ mutex' = IF mutex = "ui" THEN "free" ELSE mutex
    BY <1>10 DEF Fb!Copy, Fb!cpuVars, Fb!Free
  <2> QED BY <1>1, <2>1 DEF FbInv, Fb!TypeOK, Fb!FramesAreWhole
<1>11. CASE Fb!Present
  <2>1. /\ UNCHANGED <<vram, access, mutex, buffer, pictures, events, arrived, sink, passed, exit>>
        /\ ui = "present" /\ shown' = buffer /\ ui' = "poll" /\ frameTime' \in 0 .. Interval
    BY <1>0, <1>11 DEF Fb!Present, Fb!cpuVars
  <2> QED BY <1>1, <2>1 DEF FbInv, Fb!TypeOK, Fb!FramesAreWhole
<1> QED BY <1>2, <1>3, <1>4, <1>5, <1>6, <1>7, <1>8, <1>9, <1>10, <1>11
        DEF Fb!Next, Fb!Cpu, Fb!Update

-----------------------------------------------------------------------------
(* The five devices together.  They have no variable in common, so a step  *)
(* of one of them leaves the invariants of the others alone.               *)

IInv == KeyInv /\ RtcInv /\ UartInv /\ TimerInv /\ FbInv

LEMMA InitIInv == Init => IInv
BY KeyInit, RtcInit, UartInit, TimerInit, FbInit DEF Init, IInv

LEMMA KeyRests == KeyInv /\ UNCHANGED keyVars => KeyInv'
BY DEF keyVars, KeyInv, Key!TypeOK, Key!RingIsFifo, Key!UnreadRaisesLine, Key!LineHasCause

LEMMA RtcRests == RtcInv /\ UNCHANGED rtcVars => RtcInv'
BY DEF rtcVars, RtcInv, RtcMeant, Rtc!TypeOK, Rtc!LineIsFlags, Rtc!Inside, Rtc!LowOf, Rtc!HighOf

LEMMA UartRests == UartInv /\ UNCHANGED uartVars => UartInv'
BY DEF uartVars, UartInv, Uart!TypeOK, Uart!DataReadyIsQueue, Uart!LineIsCause, Uart!ReceivedIsKept

LEMMA TimerRests == TimerInv /\ UNCHANGED clintVars => TimerInv'
BY DEF clintVars, TimerInv, TimerLines, Timer!TypeOK, Timer!Ticks

LEMMA FbRests == FbInv /\ UNCHANGED fbVars => FbInv'
BY DEF fbVars, FbInv, Fb!TypeOK, Fb!FramesAreWhole, Fb!EventsInOrder, Fb!Polled

\* What a step keeps, and what the clocks and the alarm do in it.
LEMMA NextIInv ==
    ASSUME IInv, [Next]_vars
    PROVE  /\ IInv'
           /\ RtcStep \/ UNCHANGED rtcVars
           /\ TimerStep \/ UNCHANGED clintVars
<1>1. CASE UNCHANGED vars
  BY <1>1, KeyRests, RtcRests, UartRests, TimerRests, FbRests DEF vars, IInv
<1>2. CASE Next
  <2>1. KeyInv'
    BY <1>2, KeyNext, KeyRests DEF Next, IInv
  <2>2. RtcInv' /\ (RtcStep \/ UNCHANGED rtcVars)
    BY <1>2, RtcNext, RtcRests DEF Next, IInv, RtcStep
  <2>3. UartInv'
    BY <1>2, UartNext, UartRests DEF Next, IInv
  <2>4. TimerInv' /\ (TimerStep \/ UNCHANGED clintVars)
    BY <1>2, TimerNext, TimerRests DEF Next, IInv, TimerStep
  <2>5. FbInv'
    BY <1>2, FbNext, FbRests DEF Next, IInv
  <2> QED BY <2>1, <2>2, <2>3, <2>4, <2>5 DEF IInv
<1> QED BY <1>1, <1>2

LEMMA IInvHolds == Spec => []IInv
<1>1. IInv /\ [Next]_vars => IInv'
  BY NextIInv
<1> QED BY InitIInv, <1>1, PTL DEF Spec

\* InputArrives: whole key events through the ring of goldfish_events.cpp,
\* characters through the queue of ns16550.cpp and events of the window system
\* through SDL3Backend::update reach the guest once and in order, for rings,
\* queues and buffers of every size.
THEOREM InputHolds == Spec => []InputArrives
<1>1. IInv => InputArrives
  BY DEF IInv, InputArrives, KeyInv, UartInv, FbInv
<1> QED BY <1>1, IInvHolds, PTL

\* LinesHaveCauses: the lines of the event device, the RTC, the UART and the
\* timers are high exactly while there is an enabled cause, in every
\* interleaving of the host thread's ticks with the guest's accesses.
THEOREM LinesHold == Spec => []LinesHaveCauses
<1>1. TimerInv => Timer!TypeOK /\ Timer!MachineLineIsCurrent /\ Timer!SupervisorLineIsCurrent
  BY DEF TimerInv, TimerLines, Timer!MachineLineIsCurrent, Timer!SupervisorLineIsCurrent, Timer!Free
<1>2. IInv => LinesHaveCauses
  BY <1>1 DEF IInv, LinesHaveCauses, KeyInv, RtcInv, UartInv
<1> QED BY <1>2, IInvHolds, PTL

\* FramesAreWhole: the mutex of simple_fb.cpp keeps every picture that
\* SDL3Backend::update presents between two accesses of the guest.
THEOREM FramesHold == Spec => []FramesAreWhole
<1>1. IInv => FramesAreWhole
  BY DEF IInv, FramesAreWhole, FbInv
<1> QED BY <1>1, IInvHolds, PTL

\* ClocksGoOn: the time of goldfish_rtc.cpp is the one the guest has set less the
\* carries inside an 8-byte store, its alarm goes off before the time asked for only
\* while the high half of one is missing and is disarmed only for a reason, and
\* mtime of clint.cpp goes back only when the guest writes it or, by one, at the tick
\* after, unless it was written beyond what a double holds: for halves of every
\* width, every frequency and whichever times the conversions miss by one.
THEOREM ClocksHold == Spec => ClocksGoOn
<1> DEFINE Early == (~pending /\ pending') \/ (running /\ ~running' /\ ~Rtc!ClearsAlarm)
                       => asked' <= count \/ Rtc!HighHalfMissing'
           Ends  == /\ running /\ ~running' => pending' \/ Rtc!ClearsAlarm
                    /\ ~pending /\ pending' => ~running'
           Goes  == mtime' < mtime =>
                        \/ \E half \in Timer!Parts : \E v \in Timer!Time : Timer!WriteMtime(half, v)
                        \/ fresh = 1 /\ mtime' = mtime - 1
                        \/ wild
<1>1. IInv => (part = "rtc" => Rtc!ClockIsAsSet)
  <2> SUFFICES ASSUME RtcInv PROVE Rtc!ClockIsAsSet
    BY DEF IInv
  <2>1. CASE rest = <<>>
    <3>1. /\ Rtc!LowOf(count) = Rtc!LowOf(set)
          /\ (Rtc!HighOf(count) + carries) % RtcHalf = Rtc!HighOf(set)
          /\ Rtc!LowOf(alarm) = Rtc!LowOf(asked) /\ Rtc!HighOf(alarm) = Rtc!HighOf(asked)
      BY <2>1 DEF RtcInv, RtcMeant, Rtc!Inside
    <3>2. alarm = asked
      BY <3>1, RtcTypes, RtcHalves
    <3> QED BY <3>1, <3>2 DEF Rtc!ClockIsAsSet
  <2> QED BY <2>1 DEF Rtc!ClockIsAsSet
<1>2. IInv /\ [Next]_vars => [Early]_(Rtc!vars) /\ [Ends]_(Rtc!vars)
  <2> SUFFICES ASSUME IInv, [Next]_vars PROVE [Early]_(Rtc!vars) /\ [Ends]_(Rtc!vars)
    OBVIOUS
  <2>1. CASE RtcStep
    <3>1. Early
      BY <2>1, RtcNotEarly DEF RtcFires
    <3>2. Ends
      BY <2>1 DEF RtcStep
    <3> QED BY <3>1, <3>2
  <2>2. CASE UNCHANGED rtcVars
    BY <2>2 DEF rtcVars, Rtc!vars
  <2> QED BY <2>1, <2>2, NextIInv
<1>3. IInv /\ [Next]_vars => [Goes]_(Timer!vars)
  <2> SUFFICES ASSUME IInv, [Next]_vars PROVE [Goes]_(Timer!vars)
    OBVIOUS
  <2>1. CASE TimerStep
    BY <2>1 DEF TimerStep
  <2>2. CASE UNCHANGED clintVars
    BY <2>2 DEF clintVars, Timer!vars
  <2> QED BY <2>1, <2>2, NextIInv
<1>4. Spec => [](part = "rtc" => Rtc!ClockIsAsSet)
  BY <1>1, IInvHolds, PTL
<1>5. Spec => Rtc!NoEarlyAlarm
  BY <1>2, IInvHolds, PTL DEF Spec, Rtc!NoEarlyAlarm
<1>6. Spec => Rtc!AlarmEndsForAReason
  BY <1>2, IInvHolds, PTL DEF Spec, Rtc!AlarmEndsForAReason
<1>7. Spec => Timer!TimeGoesOn
  BY <1>3, IInvHolds, PTL DEF Spec, Timer!TimeGoesOn
<1> QED BY <1>4, <1>5, <1>6, <1>7 DEF ClocksGoOn
=============================================================================
