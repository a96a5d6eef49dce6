------------------------------ MODULE Counters ------------------------------
(* The cycle and instruction counters: MCOUNTINHIBIT, MCYCLE and MINSTRET   *)
(* of core/hart.hpp, advanced by each turn of ExecutionEngine::cpu_thread.  *)
(* One action is one turn of the loop, which ends with an instruction       *)
(* retired, waiting in WFI, or trapped.                                     *)
EXTENDS Naturals

CONSTANTS Width,        \* bits of a counter: 64 in the code
          WriteValues   \* values software writes to a counter
CountersAssumption ==
    /\ Width \in Nat \ {0} /\ 2^Width \in Nat \ {0}
    /\ WriteValues \subseteq 0 .. 2^Width - 1

VARIABLES mcycle, minstret, inhibit, increase_suppressed,
          since         \* history, modulo 2^Width: what minstret and mcycle
                        \* were last written with, and the instructions
                        \* retired and turns begun since
vars == <<mcycle, minstret, inhibit, increase_suppressed, since>>

CY == "CY"
IR == "IR"
Wrap(n) == n % 2^Width
One(c, stopped) == IF c \in stopped THEN 0 ELSE 1

Init ==
    /\ mcycle = 0 /\ minstret = 0 /\ inhibit = {} /\ increase_suppressed = FALSE
    /\ since = [instret |-> 0, retired |-> 0, cycle |-> 0, begun |-> 0]

\* MCYCLE::advance, at the top of the turn.
CycleAdvanced == IF CY \in inhibit THEN mcycle ELSE Wrap(mcycle + 1)

\* MINSTRET::advance, after an instruction that left value in the counter and
\* stopped in mcountinhibit; suppressed tells whether it wrote the counter.
Retire(value, stopped, suppressed) ==
    /\ minstret' = IF ~suppressed /\ IR \notin stopped THEN Wrap(value + 1) ELSE value
    /\ increase_suppressed' = FALSE

Counts(begun, retired) ==
    since' = [since EXCEPT !.begun = Wrap(@ + begun), !.retired = Wrap(@ + retired)]

\* An instruction that leaves the counters alone, WFI among them.
Execute ==
    /\ mcycle' = CycleAdvanced
    /\ Retire(minstret, inhibit, increase_suppressed)
    /\ UNCHANGED inhibit
    /\ Counts(One(CY, inhibit), One(IR, inhibit))
\* An interrupt, a fetch fault or an exception.
Trap ==
    /\ mcycle' = CycleAdvanced
    /\ UNCHANGED <<minstret, inhibit, increase_suppressed>>
    /\ Counts(One(CY, inhibit), 0)
\* CSR writes: of minstret (write_checked), mcycle and mcountinhibit, whose
\* new value already governs the write's own retirement.
WriteMinstret(v) ==
    /\ mcycle' = CycleAdvanced
    /\ Retire(v, inhibit, TRUE)
    /\ UNCHANGED inhibit
    /\ since' = [since EXCEPT !.instret = v, !.retired = 0,
                              !.begun = Wrap(@ + One(CY, inhibit))]
WriteMcycle(v) ==
    /\ mcycle' = v
    /\ Retire(minstret, inhibit, increase_suppressed)
    /\ UNCHANGED inhibit
    /\ since' = [since EXCEPT !.cycle = v, !.begun = 0,
                              !.retired = Wrap(@ + One(IR, inhibit))]
WriteMcountinhibit(stopped) ==
    /\ mcycle' = CycleAdvanced
    /\ Retire(minstret, stopped, increase_suppressed)
    /\ inhibit' = stopped
    /\ Counts(One(CY, inhibit), One(IR, stopped))

Next ==
    \/ Execute \/ Trap
    \/ \E v \in WriteValues : WriteMinstret(v) \/ WriteMcycle(v)
    \/ \E stopped \in SUBSET {CY, IR} : WriteMcountinhibit(stopped)
Spec == Init /\ [][Next]_vars

-----------------------------------------------------------------------------
\* The counters have Width bits.
TypeOK ==
    /\ mcycle \in 0 .. 2^Width - 1 /\ minstret \in 0 .. 2^Width - 1
    /\ inhibit \subseteq {CY, IR} /\ increase_suppressed \in BOOLEAN

\* minstret counts every instruction that retired while it was not inhibited
\* since it was last written, the writing one and those that trapped not
\* among them; mcycle counts every turn since its own last write.
CountsExactly ==
    /\ minstret = Wrap(since.instret + since.retired)
    /\ mcycle = Wrap(since.cycle + since.begun)
=============================================================================
