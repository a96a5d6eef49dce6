-------------------------------- MODULE Plic --------------------------------
(* The platform-level interrupt controller, src/device/plic.cpp.           *)
(*                                                                         *)
(* Devices raise and lower the level of their source (set_interrupt_level) *)
(* from two threads: the host thread (device ticks, user input) and the    *)
(* CPU thread (a guest store to a device register).  The guest programs    *)
(* the controller and claims and completes interrupts from the CPU thread. *)
(* Every register access and every level change runs under plic_mutex_,    *)
(* except one read: set_interrupt_level reads priority_[id] before it      *)
(* takes the lock.  Only the CPU thread writes priority_, so the read can  *)
(* be overtaken only on the host thread; there it is a step of its own.    *)
EXTENDS PlicBest

VARIABLES
    priority,   \* priority_: programmed priority of each source
    level,      \* level_: the sources whose line is high
    ctx,        \* contexts_: context 0 is M-mode, context 1 is S-mode
    eip,        \* eip[c]: the value context c last drove to mip.MEIP / mip.SEIP
    raising,    \* a host call of set_interrupt_level between its read and its lock
    skipped     \* history: sources whose last level change context 1 did not see

vars == <<priority, level, ctx, eip, raising, skipped>>

\* A call of set_interrupt_level that has read its priority; id 0 is no call.
Raise == [id : 0 .. NumIds - 1, lvl : BOOLEAN, prio : Priority]
None  == [id |-> 0, lvl |-> FALSE, prio |-> 0]

TypeOK ==
    /\ priority \in [Sources -> Priority]
    /\ level \in SUBSET Sources
    /\ ctx \in [Contexts -> Context]
    /\ eip \in [Contexts -> BOOLEAN]
    /\ raising \in Raise
    /\ skipped \in SUBSET Sources

Init ==
    /\ priority = [i \in Sources |-> 0]
    /\ level = {}
    /\ ctx = [c \in Contexts |->
                [enable |-> {}, pending |-> {}, claimed |-> {},
                 cached |-> [i \in Sources |-> 0], threshold |-> 0]]
    /\ eip = [c \in Contexts |-> FALSE]
    /\ raising = None
    /\ skipped = {}

-----------------------------------------------------------------------------
(* Wrong variant: the registers change and the hart's line is not driven. *)
ContextUpdateForgotten(c, k) ==
    /\ ctx' = [ctx EXCEPT ![c] = k]
    /\ UNCHANGED eip

(* Wrong variant: the hart's line is raised and never lowered. *)
ContextUpdateSticky(c, k) ==
    /\ ctx' = [ctx EXCEPT ![c] = k]
    /\ eip' = [eip EXCEPT ![c] = eip[c] \/ BestPending(k) # 0]

\* Context c becomes k; context_update drives mip.MEIP or mip.SEIP from it.
ContextUpdate(c, k) ==
    /\ ctx' = [ctx EXCEPT ![c] = k]
    /\ eip' = [eip EXCEPT ![c] = BestPending(k) # 0]

(* Wrong variant: raising a line again reopens a source in service. *)
LatchReopens(k, S, p) ==
    [k EXCEPT !.pending = k.pending \cup S,
              !.claimed = k.claimed \ S,
              !.cached  = [i \in Sources |-> IF i \in S THEN p[i] ELSE k.cached[i]]]

\* Latch the sources S with the priorities p.
Latch(k, S, p) ==
    [k EXCEPT !.pending = k.pending \cup S,
              !.cached  = [i \in Sources |-> IF i \in S THEN p[i] ELSE k.cached[i]]]

(* Wrong variant: a lowered source stays claimed. *)
DropKeepsClaim(k, S) ==
    [k EXCEPT !.pending = k.pending \ S,
              !.cached  = [i \in Sources |-> IF i \in S THEN 0 ELSE k.cached[i]]]

\* Forget the sources S: pending, latched priority and claim.
Drop(k, S) ==
    [k EXCEPT !.pending = k.pending \ S,
              !.claimed = k.claimed \ S,
              !.cached  = [i \in Sources |-> IF i \in S THEN 0 ELSE k.cached[i]]]

-----------------------------------------------------------------------------
(* set_interrupt_level.  An id outside Sources returns at once.            *)

\* The context the loop reaches before its break: the first that enables id.
FirstEnabled(c, id) ==
    /\ id \in ctx[c].enable
    /\ \A d \in Contexts : d < c => id \notin ctx[d].enable

\* The part under plic_mutex_, with the priority that was read before it.
SetLevelLocked(id, lvl, prio) ==
    /\ level' = IF lvl THEN level \cup {id} ELSE level \ {id}
    /\ \/ \E c \in Contexts :
             /\ FirstEnabled(c, id)
             /\ ContextUpdate(c, IF lvl
                                 THEN Latch(ctx[c], {id}, [i \in Sources |-> prio])
                                 ELSE Drop(ctx[c], {id}))
       \/ /\ \A c \in Contexts : id \notin ctx[c].enable
          /\ UNCHANGED <<ctx, eip>>
    /\ skipped' = IF id \in ctx[0].enable /\ id \in ctx[1].enable
                  THEN skipped \cup {id} ELSE skipped \ {id}
    /\ UNCHANGED priority

\* A guest store to a device register changes the level, on the CPU thread.
\* The device's mutex keeps the two threads apart on one source.
SetLevelFromCpu(id, lvl) ==
    /\ raising.id # id
    /\ SetLevelLocked(id, lvl, priority[id])
    /\ UNCHANGED raising

\* The host thread: the unlocked read of priority_[id] ...
SetLevelHostRead(id, lvl) ==
    /\ raising.id = 0
    /\ raising' = [id |-> id, lvl |-> lvl, prio |-> priority[id]]
    /\ UNCHANGED <<priority, level, ctx, eip, skipped>>

\* ... and the rest of the call.
SetLevelHostApply ==
    /\ raising.id # 0
    /\ SetLevelLocked(raising.id, raising.lvl, raising.prio)
    /\ raising' = None

-----------------------------------------------------------------------------
(* Register accesses of the guest, all on the CPU thread under the mutex.  *)

\* priority_write stores the low bits; what is latched keeps its old priority.
PriorityWrite(id, val) ==
    /\ priority' = [priority EXCEPT ![id] = val % 2^PrioBits]
    /\ UNCHANGED <<level, ctx, eip, raising, skipped>>

(* Wrong variant: enabling does not look at the levels already high. *)
ContextEnableWriteEdge(c, val) ==
    /\ ContextUpdate(c, Drop([ctx[c] EXCEPT !.enable = val \ {0}],
                             ctx[c].enable \ val))
    /\ skipped' = IF c = 1
                  THEN skipped \ ((val \ ctx[1].enable) \cup (ctx[1].enable \ val))
                  ELSE skipped
    /\ UNCHANGED <<priority, level, raising>>

\* One word of enable bits; bit 0 is masked out.  A source that becomes
\* enabled is latched when its line is high, a disabled one is forgotten.
ContextEnableWrite(c, val) ==
    LET new == val \ {0}
        on  == new \ ctx[c].enable
        off == ctx[c].enable \ new
        k   == Latch([ctx[c] EXCEPT !.enable = new], on \cap level, priority)
    IN  /\ ContextUpdate(c, Drop(k, off))
        /\ skipped' = IF c = 1 THEN skipped \ (on \cup off) ELSE skipped
        /\ UNCHANGED <<priority, level, raising>>

ThresholdWrite(c, val) ==
    /\ ContextUpdate(c, [ctx[c] EXCEPT !.threshold = val % 2^PrioBits])
    /\ UNCHANGED <<priority, level, raising, skipped>>

(* Wrong variant: completing forgets that the source is pending. *)
ContextCompleteDrops(c, val) ==
    /\ val \in ctx[c].enable
    /\ ContextUpdate(c, [ctx[c] EXCEPT !.claimed = ctx[c].claimed \ {val},
                                       !.pending = ctx[c].pending \ {val}])
    /\ UNCHANGED <<priority, level, raising, skipped>>

\* A write of the claim register completes val if the context enables it;
\* any other value changes nothing.
ContextComplete(c, val) ==
    /\ val \in ctx[c].enable
    /\ ContextUpdate(c, [ctx[c] EXCEPT !.claimed = ctx[c].claimed \ {val}])
    /\ UNCHANGED <<priority, level, raising, skipped>>

\* A read of the claim register returns BestPending(ctx[c]) and marks it.
ContextClaim(c) ==
    /\ ContextUpdate(c, [ctx[c] EXCEPT !.claimed =
                           ctx[c].claimed \cup ({BestPending(ctx[c])} \ {0})])
    /\ UNCHANGED <<priority, level, raising, skipped>>

\* What a read of the pending register reports: the union of the contexts.
PendingRead == ctx[0].pending \cup ctx[1].pending

-----------------------------------------------------------------------------
Device ==
    \/ \E id \in Sources, lvl \in BOOLEAN :
         \/ SetLevelFromCpu(id, lvl)
         \/ SetLevelHostRead(id, lvl)
    \/ SetLevelHostApply

\* One value past the register's width shows the masking of the writes.
Guest ==
    \/ \E id \in Sources, val \in 0 .. 2^PrioBits : PriorityWrite(id, val)
    \/ \E c \in Contexts :
         \/ \E val \in SUBSET (0 .. NumIds - 1) : ContextEnableWrite(c, val)
         \/ \E val \in 0 .. 2^PrioBits : ThresholdWrite(c, val)
         \/ \E val \in Sources : ContextComplete(c, val)
         \/ ContextClaim(c)

Next == Device \/ Guest

Spec == Init /\ [][Next]_vars

-----------------------------------------------------------------------------
(* Properties.                                                             *)

\* The bookkeeping of one context is nested: what is in service is pending,
\* what is pending is enabled, and a priority is latched only for a pending
\* source.  Every handler of plic.cpp edits two or three of these bit vectors
\* separately, from two threads.
ContextNesting ==
    \A c \in Contexts :
        /\ ctx[c].claimed \subseteq ctx[c].pending
        /\ ctx[c].pending \subseteq ctx[c].enable
        /\ \A i \in Sources \ ctx[c].pending : ctx[c].cached[i] = 0

\* The interrupt line into the hart is never stale: it is high exactly when
\* a claim would return a source, whichever thread changed the context last.
LineIsCurrent ==
    \A c \in Contexts : eip[c] <=> BestPending(ctx[c]) # 0

\* The sources that context c cannot have missed: context 0 is first in the
\* loop of set_interrupt_level, context 1 is served only when 0 is not.
Served(c) == IF c = 0 THEN Sources ELSE Sources \ skipped

\* No lost and no stuck interrupt: a source that the context serves is latched
\* in it exactly when the context enables it and its line is high, in every
\* interleaving of level changes and enable writes.
LatchFollowsLevel ==
    \A c \in Contexts : \A i \in Served(c) :
        i \in ctx[c].pending <=> i \in ctx[c].enable /\ i \in level

\* The interrupts a context owes to the hart: enabled, high, not in service
\* and latched with a priority above the threshold.
Owed(c) == {i \in (ctx[c].enable \cap level) \ ctx[c].claimed :
               ctx[c].cached[i] > ctx[c].threshold}

\* End to end: an interrupt owed by a context that cannot have missed it is
\* visible to the hart as a high line, and a high line has such a cause (or a
\* source whose last change the context missed).
DemandReachesHart ==
    \A c \in Contexts :
        /\ Owed(c) \cap Served(c) # {} => eip[c]
        /\ eip[c] => \E i \in ctx[c].pending \ ctx[c].claimed :
                        /\ ctx[c].cached[i] > ctx[c].threshold
                        /\ i \in Served(c) => i \in Owed(c)

\* In every context the loop of context_best_pending finds the best candidate: one
\* above the threshold that no other candidate outranks, of several the lowest id,
\* and 0 only if no candidate is above the threshold.
BestIsMaximal ==
    \A c \in Contexts :
        LET k    == ctx[c]
            best == BestPending(k)
            Open == k.pending \ k.claimed
        IN  /\ best # 0 => /\ best \in Open /\ k.cached[best] > k.threshold
                           /\ \A j \in Open : k.cached[j] <= k.cached[best]
                           /\ \A j \in Open : k.cached[j] = k.cached[best] => best <= j
            /\ best = 0 => \A j \in Open : k.cached[j] <= k.threshold
            /\ ScanBest(k) = best

\* A source in service leaves service only when its context completes it,
\* when the context disables it or when its line goes low: no other register
\* access and no other source's level change reopens it for a second claim.
ServiceEndsForAReason ==
    [][\A c \in Contexts : \A i \in ctx[c].claimed \ ctx'[c].claimed :
          \/ i \notin ctx'[c].enable
          \/ i \notin level'
          \/ ContextComplete(c, i)]_vars

\* plic.hpp:45 says that each source has a pending bit.  Then a source whose
\* pending bit reads 1 is pending in every context that enables it.
OnePendingBit ==
    \A i \in PendingRead : \A c \in Contexts :
        i \in ctx[c].enable => i \in ctx[c].pending
=============================================================================
