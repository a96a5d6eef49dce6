------------------------------- MODULE Clint --------------------------------
(* The timer and software interrupts of the hart, src/device/clint.cpp,    *)
(* with the stimecmp CSR that ticks it.  tick_internal runs under          *)
(* clint_mutex_, on the host thread and on the CPU thread; stimecmp and    *)
(* menvcfg are written by the CPU thread without that lock.                *)
EXTENDS Naturals

CONSTANTS
    Half,        \* 2^32: the values of one half of a 64-bit register
    PerTick,     \* nanoseconds of a tick: 10^9 / freq_hz_
    Exact,       \* 2^52 / PerTick: below, a double tells nanoseconds apart
    Short,       \* the ticks that the product in tick_internal misses by one, on the dot
    Cut          \* the times whose quotient in write_internal is a nanosecond less

ClintAssumption ==
    /\ Half \in Nat \ {0} /\ PerTick \in Nat \ {0, 1}
    /\ Exact \in 1 .. Half * Half - 1
    /\ Short \subseteq Nat \ {0} /\ Cut \subseteq Nat \ {0}

VARIABLES
    elapsed,     \* steady_clock::now() - start_time_, in nanoseconds
    mtime,       \* mtime_
    mtimecmp,    \* mtimecmp_
    stimecmp,    \* the CSR
    stce,        \* menvcfg.STCE
    mtip, stip, msip,   \* the lines in mip
    host,        \* where the host thread is in tick_internal
    due,         \* handle_stimecmp of the host thread: what it drives, or "none"
    cpu,         \* "tick": the CPU thread has stored stimecmp and will tick
    clean,       \* history: STCE has been on since a tick saw it
    wild,        \* start_time_ comes from a time no double can hold to the nanosecond
    fresh        \* history: 1 from a store to mtime to the next tick

vars  == <<elapsed, mtime, mtimecmp, stimecmp, stce, mtip, stip, msip, host, due, cpu,
           clean, wild, fresh>>
Time  == 0 .. Half * Half - 1
Free  == host = "out"

TypeOK ==
    /\ {mtime, mtimecmp, stimecmp} \subseteq Time
    /\ elapsed \in 0 .. PerTick * Exact
    /\ wild \in BOOLEAN /\ fresh \in {0, 1}
    /\ {stce, mtip, stip, msip, clean} \subseteq BOOLEAN
    /\ host \in {"out", "compared", "sampled"}
    /\ due \in {"none", "high", "low"}
    /\ cpu \in {"idle", "tick"}

Init ==
    /\ elapsed = 0 /\ mtime = 0 /\ mtimecmp = 0 /\ stimecmp = 0
    /\ stce = FALSE /\ mtip = TRUE /\ stip = FALSE /\ msip = FALSE
    /\ host = "out" /\ due = "none" /\ cpu = "idle" /\ clean = FALSE
    /\ wild = FALSE /\ fresh = 0

\* Time ends where the doubles do: at 10 MHz, 52 days after the start.
TimePasses ==
    /\ elapsed < PerTick * Exact
    /\ elapsed' = elapsed + 1
    /\ UNCHANGED <<wild, fresh, mtime, mtimecmp, stimecmp, stce, mtip, stip, msip, host, due, cpu, clean>>

-----------------------------------------------------------------------------
(* tick_internal on the host thread, with clint_mutex_ held.               *)

\* elapsed.count() * freq_hz_: seconds and ticks are doubles, and a product that
\* should be a whole number may lie just below it.
Ticks(ns) ==
    IF ns % PerTick = 0 /\ ns \div PerTick \in Short THEN (ns \div PerTick) - 1
                                                     ELSE ns \div PerTick

\* The values a tick may compute.  A start time that overflowed, or a negative
\* one, gives any.
Now == IF wild THEN Time ELSE {Ticks(elapsed)}

HostTick ==
    /\ Free
    /\ host' = "compared"
    /\ mtime' \in Now
    /\ mtip' = (mtime' >= mtimecmp)
    /\ fresh' = 0
    /\ UNCHANGED <<elapsed, mtimecmp, stimecmp, stce, stip, msip, due, cpu, clean, wild>>

HostSample ==
    /\ host = "compared"
    /\ host' = "sampled"
    /\ due' = IF ~stce THEN "none" ELSE IF mtime >= stimecmp THEN "high" ELSE "low"
    /\ clean' = stce
    /\ UNCHANGED <<elapsed, mtime, mtimecmp, stimecmp, stce, mtip, stip, msip, cpu, wild, fresh>>

HostDrive ==
    /\ host = "sampled"
    /\ host' = "out"
    /\ due' = "none"
    /\ stip' = IF due = "none" THEN stip ELSE due = "high"
    /\ UNCHANGED <<elapsed, mtime, mtimecmp, stimecmp, stce, mtip, msip, cpu, clean, wild, fresh>>

-----------------------------------------------------------------------------
(* The CPU thread.  It waits for the lock, and nothing of its own changes  *)
(* while it holds it, so an access under the lock is one step.             *)

\* handle_mtimecmp and handle_stimecmp at time t and deadline cmp.
Handle(t, cmp) ==
    /\ mtime' = t
    /\ mtip' = (t >= cmp)
    /\ stip' = IF stce THEN t >= stimecmp ELSE stip
    /\ clean' = stce

(* Wrong variant: the store alone, and the tick left to the host thread. *)
StoreStimecmpOnly(v) ==
    /\ cpu = "idle"
    /\ stimecmp' = v
    /\ UNCHANGED <<wild, fresh, elapsed, mtime, mtimecmp, stce, mtip, stip, msip, host, due, cpu, clean>>

\* STIMECMP::write_unchecked stores the value ...
StoreStimecmp(v) ==
    /\ cpu = "idle"
    /\ stimecmp' = v
    /\ cpu' = "tick"
    /\ UNCHANGED <<wild, fresh, elapsed, mtime, mtimecmp, stce, mtip, stip, msip, host, due, clean>>

\* tick_internal on this thread, with the deadline cmp.
TickInternal(cmp) ==
    /\ \E t \in Now : Handle(t, cmp)
    /\ fresh' = 0
    /\ UNCHANGED <<elapsed, wild>>

\* ... and then ticks.
TickAfterStore ==
    /\ cpu = "tick" /\ Free
    /\ cpu' = "idle"
    /\ TickInternal(mtimecmp)
    /\ UNCHANGED <<mtimecmp, stimecmp, stce, msip, host, due>>

\* A read of mtime or of the time CSR ticks: get_mtime.
ReadTime ==
    /\ cpu = "idle" /\ Free
    /\ TickInternal(mtimecmp)
    /\ UNCHANGED <<mtimecmp, stimecmp, stce, msip, host, due, cpu>>

\* write_little_endian: a store of the low half, of the high half, or of both.
Patch(old, part, v) ==
    CASE part = "low"  -> (Half * (old \div Half)) + (v % Half)
      [] part = "high" -> (Half * (v % Half)) + (old % Half)
      [] part = "both" -> v

WriteMtimecmp(part, v) ==
    /\ cpu = "idle" /\ Free
    /\ mtimecmp' = Patch(mtimecmp, part, v)
    /\ TickInternal(mtimecmp')
    /\ UNCHANGED <<stimecmp, stce, msip, host, due, cpu>>

\* duration_cast of mtime_ / freq_hz_ to nanoseconds cuts the quotient off.
Nanoseconds(t) == IF t \in Cut THEN PerTick * t - 1 ELSE PerTick * t

\* The part that is not stored keeps what the last tick computed; start_time_
\* moves so that time goes on from there.  From Exact on the conversion loses
\* nanoseconds, then overflows, and a time with the top bit is negative.
WriteMtime(part, v) ==
    /\ cpu = "idle" /\ Free
    /\ Handle(Patch(mtime, part, v), mtimecmp)
    /\ wild' = (mtime' >= Exact)
    /\ elapsed' = IF wild' THEN elapsed ELSE Nanoseconds(mtime')
    /\ fresh' = 1
    /\ UNCHANGED <<mtimecmp, stimecmp, stce, msip, host, due, cpu>>

WriteMsip(v) ==
    /\ cpu = "idle"
    /\ msip' = v
    /\ UNCHANGED <<wild, fresh, elapsed, mtime, mtimecmp, stimecmp, stce, mtip, stip, host, due, cpu, clean>>

\* A write of menvcfg does not tick.
WriteMenvcfg(v) ==
    /\ cpu = "idle"
    /\ stce' = v
    /\ clean' = FALSE
    /\ UNCHANGED <<wild, fresh, elapsed, mtime, mtimecmp, stimecmp, mtip, stip, msip, host, due, cpu>>

\* STIP belongs to software while STCE is off.
WriteMip(v) ==
    /\ cpu = "idle" /\ ~stce
    /\ stip' = v
    /\ UNCHANGED <<wild, fresh, elapsed, mtime, mtimecmp, stimecmp, stce, mtip, msip, host, due, cpu, clean>>

Parts == {"low", "high", "both"}

Cpu ==
    \/ TickAfterStore
    \/ ReadTime
    \/ \E v \in Time : StoreStimecmp(v)
    \/ \E part \in Parts, v \in Time : WriteMtimecmp(part, v)
    \/ \E part \in Parts, v \in Time : WriteMtime(part, v)
    \/ \E v \in BOOLEAN : WriteMsip(v) \/ WriteMenvcfg(v) \/ WriteMip(v)

Host == HostTick \/ HostSample \/ HostDrive

Next == TimePasses \/ Host \/ Cpu

Spec == Init /\ [][Next]_vars

\* The host thread ticks every device in each round of its loop.
FairSpec == Spec /\ WF_vars(Host)

-----------------------------------------------------------------------------
(* Properties.                                                             *)

\* Between accesses the machine timer line tells whether the deadline, in
\* whatever halves it was stored, has passed.
MachineLineIsCurrent == Free => (mtip <=> mtime >= mtimecmp)

\* Once a write of stimecmp is over, STIP is the answer to the new deadline,
\* although the host thread may have sampled the old one during the write.
SupervisorLineIsCurrent ==
    Free /\ cpu = "idle" /\ clean => (stip <=> mtime >= stimecmp)

\* Time goes back only where the guest stores it, and goes on from there: the
\* first tick after the store may show one tick less, by the rounding of the two
\* conversions, and only a time beyond Exact is not held.
TimeGoesOn ==
    [][mtime' < mtime =>
          \/ \E half \in Parts : \E v \in Time : WriteMtime(half, v)
          \/ fresh = 1 /\ mtime' = mtime - 1
          \/ wild]_vars

\* A deadline that has passed is signalled even if the guest never looks at
\* the clock.
DeadlineIsSignalled ==
    LET Passed(cmp) == ~wild /\ Ticks(elapsed) >= cmp
    IN  /\ Passed(mtimecmp) ~> mtip \/ ~Passed(mtimecmp)
        /\ stce /\ Passed(stimecmp) ~> stip \/ ~stce \/ ~Passed(stimecmp)
=============================================================================
