---------------------------- MODULE GoldfishRtc -----------------------------
(* The real-time clock, src/device/goldfish_rtc.cpp: a 64-bit clock and a  *)
(* 64-bit alarm behind 32-bit registers.  An access of 8 bytes is two      *)
(* accesses of 4, each under goldfish_rtc_mutex_; the host thread may tick *)
(* the device, and time passes, between them.                              *)
EXTENDS Naturals, Sequences

CONSTANT Half    \* 2^32: the values of one 32-bit half

RtcAssumption == Half \in Nat \ {0}

VARIABLES
    count,       \* get_count(): host time plus tick_offset_
    alarm,       \* alarm_next_
    running,     \* alarm_running_
    pending,     \* irq_pending_
    enabled,     \* irq_enabled_
    high,        \* time_high_
    line,        \* the level last given to update_irq
    rest,        \* the second half of an 8-byte store in progress
    set,         \* history: the time the guest has set, going on since
    carries,     \* history: overflows of the low half inside the last store of the time
    asked        \* history: the alarm the guest has asked for

vars  == <<count, alarm, running, pending, enabled, high, line, rest, set, carries, asked>>
flags == <<running, pending, enabled, line>>
meant == <<set, carries, asked>>

Time == 0 .. Half * Half - 1
Word == 0 .. Half - 1

\* The registers that take a store, in the order of their offsets.
Registers == <<"TIME_LOW", "TIME_HIGH", "ALARM_LOW", "ALARM_HIGH",
               "IRQ_ENABLED", "CLEAR_ALARM", "ALARM_STATUS", "CLEAR_INTERRUPT">>
Writable  == {r \in 1 .. 8 : Registers[r] # "ALARM_STATUS"}

TypeOK ==
    /\ {count, alarm, set, asked} \subseteq Time
    /\ {running, pending, enabled, line} \subseteq BOOLEAN
    /\ {high, carries} \subseteq Word
    /\ rest \in {<<>>} \cup (Writable \X Word)

Init ==
    /\ count \in Time
    /\ alarm = 0 /\ high = 0
    /\ running = FALSE /\ pending = FALSE /\ enabled = FALSE
    /\ line = FALSE
    /\ rest = <<>>
    /\ set = count /\ carries = 0 /\ asked = 0

-----------------------------------------------------------------------------
\* The flags become p and e, and the line follows them.
UpdateIrq(p, e) == pending' = p /\ enabled' = e /\ line' = (p /\ e)

TriggerInterrupt == running' = FALSE /\ UpdateIrq(TRUE, enabled)

LowOf(t)  == t % Half
HighOf(t) == t \div Half

\* An 8-byte store to register r is half done.
Inside(r) == rest # <<>> /\ rest[1] = r + 1

TimePasses ==
    /\ count' = (count + 1) % (Half * Half)
    /\ set' = (set + 1) % (Half * Half)
    /\ carries' = IF Inside(1) /\ LowOf(count) = Half - 1 THEN (carries + 1) % Half
                                                         ELSE carries
    /\ UNCHANGED <<alarm, flags, high, rest, asked>>

(* Wrong variant: an armed alarm fires at the next tick. *)
TickIgnoresAlarm ==
    /\ running
    /\ TriggerInterrupt
    /\ UNCHANGED <<count, alarm, high, rest, meant>>

(* Wrong variant: the alarm must be met exactly. *)
TickExact ==
    /\ running /\ count = alarm
    /\ TriggerInterrupt
    /\ UNCHANGED <<count, alarm, high, rest, meant>>

\* The host thread.
Tick ==
    /\ running /\ count >= alarm
    /\ TriggerInterrupt
    /\ UNCHANGED <<count, alarm, high, rest, meant>>

-----------------------------------------------------------------------------
(* The guest.  A store of 4 bytes, or one half of a store of 8.            *)

\* tick_offset_ moves so that one half of the clock reads val.
SetTime(r, val) ==
    count' = IF r = 1 THEN Half * HighOf(count) + val ELSE Half * val + LowOf(count)

\* set_alarm, after the low half of the alarm was stored.
SetAlarm ==
    IF alarm' <= count THEN TriggerInterrupt
                       ELSE running' = TRUE /\ UNCHANGED <<pending, enabled, line>>

Store(r, val) ==
    \/ r \in {1, 2} /\ SetTime(r, val) /\ UNCHANGED <<alarm, flags>>
    \/ /\ r = 3
       /\ alarm' = Half * HighOf(alarm) + val
       /\ SetAlarm
       /\ UNCHANGED count
    \/ r = 4 /\ alarm' = Half * val + LowOf(alarm) /\ UNCHANGED <<count, flags>>
    \/ r = 5 /\ UpdateIrq(pending, val % 2 = 1) /\ UNCHANGED <<count, alarm, running>>
    \/ r = 6 /\ running' = FALSE /\ UNCHANGED <<count, alarm, pending, enabled, line>>
    \/ r = 8 /\ UpdateIrq(FALSE, enabled) /\ UNCHANGED <<count, alarm, running>>

\* What a store means: half of the time or of the alarm, ...
Means4(r, val) ==
    /\ set' = CASE r = 1 -> Half * HighOf(set) + val
                [] r = 2 -> Half * val + LowOf(set)
                [] OTHER -> set
    /\ carries' = IF r = 2 THEN 0 ELSE carries
    /\ asked' = CASE r = 3 -> Half * HighOf(asked) + val
                  [] r = 4 -> Half * val + LowOf(asked)
                  [] OTHER -> asked

\* ... or all of it.
Means8(r, lo, hi) ==
    /\ set' = IF r = 1 THEN Half * hi + lo ELSE set
    /\ carries' = IF r = 1 THEN 0 ELSE carries
    /\ asked' = IF r = 3 THEN Half * hi + lo ELSE asked

Store4(r, val) ==
    /\ rest = <<>>
    /\ Store(r, val)
    /\ Means4(r, val)
    /\ UNCHANGED <<high, rest>>

\* An aligned store of 8 bytes starts at the first, third, ... register.
Store8First(r, lo, hi) ==
    /\ rest = <<>>
    /\ r \in {1, 3, 5}
    /\ Store(r, lo)
    /\ rest' = <<r + 1, hi>>
    /\ Means8(r, lo, hi)
    /\ UNCHANGED high

Store8Second ==
    /\ rest # <<>>
    /\ Store(rest[1], rest[2])
    /\ rest' = <<>>
    /\ UNCHANGED <<high, meant>>

\* A load of TIME_LOW keeps the high half for the load of TIME_HIGH.
LoadTimeLow ==
    /\ rest = <<>>
    /\ high' = HighOf(count)
    /\ UNCHANGED <<count, alarm, flags, rest, meant>>

Guest ==
    \/ \E r \in Writable, val \in Word : Store4(r, val)
    \/ \E r \in Writable, lo \in Word, hi \in Word : Store8First(r, lo, hi)
    \/ Store8Second
    \/ LoadTimeLow

Next == Guest \/ Tick \/ TimePasses

Spec == Init /\ [][Next]_vars

\* The host thread ticks every device in each round of its loop.
FairSpec == Spec /\ WF_vars(Tick)

-----------------------------------------------------------------------------
(* Properties.                                                             *)

\* The line into the interrupt controller follows the two flags, whichever
\* register access or tick changed one of them last.
LineIsFlags == line <=> pending /\ enabled

\* The high half of the alarm that is being stored has not arrived yet.
HighHalfMissing == Inside(3) /\ rest[2] # HighOf(alarm)

ClearsAlarm ==
    \/ \E v \in Word : Store4(6, v)
    \/ Inside(5) /\ rest' = <<>>

\* No alarm goes off before the time the guest has asked for, with one exception:
\* set_alarm runs when the low half arrives, so inside an 8-byte store at
\* ALARM_LOW the device arms, or sets off, the new low half with the old high
\* half.  A guest that clears the alarm and stores the high half first, in two
\* stores of 4 bytes, has no such moment.
NoEarlyAlarm ==
    [][(~pending /\ pending') \/ (running /\ ~running' /\ ~ClearsAlarm)
         => asked' <= count \/ HighHalfMissing']_vars

\* An armed alarm is disarmed only by going off or by CLEAR_ALARM; and an alarm
\* that goes off is not armed any more.
AlarmEndsForAReason ==
    [][/\ running /\ ~running' => pending' \/ ClearsAlarm
       /\ ~pending /\ pending' => ~running']_vars

\* An overdue alarm does not stay armed for ever, however the clock jumped
\* over it.
OverdueAlarmFires == running /\ count >= alarm ~> ~running \/ count < alarm

\* Between stores the alarm is the one asked for, and the clock shows the time
\* the guest has set with the time since, less the carries of the low half that
\* fell between the two halves of the last 8-byte store, which the second half
\* overwrote.
ClockIsAsSet ==
    rest = <<>> =>
        /\ alarm = asked
        /\ LowOf(count) = LowOf(set)
        /\ (HighOf(count) + carries) % Half = HighOf(set)
=============================================================================
