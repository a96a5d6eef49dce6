------------------------------ MODULE PlicBest ------------------------------
(* The registers of one PLIC context and the choice of the interrupt that  *)
(* it offers to the hart, context_best_pending in src/device/plic.cpp.     *)
EXTENDS Integers

CONSTANTS NumIds,    \* num_ids_: source ids are 1 .. NumIds-1, id 0 means "none"
          PrioBits   \* PRIO_BITS: width of a priority and of a threshold

ASSUME PlicAssumption ==
    /\ NumIds \in Nat \ {0}
    /\ PrioBits \in Nat
    /\ 2^PrioBits \in Nat \ {0}

Sources  == 1 .. NumIds - 1
Contexts == {0, 1}
Priority == 0 .. 2^PrioBits - 1

\* struct Context: the per-context registers and the latched interrupts.
Context == [enable    : SUBSET Sources,
            pending   : SUBSET Sources,
            claimed   : SUBSET Sources,
            cached    : [Sources -> Priority],    \* pending_priority
            threshold : Priority]                 \* priority_threshold

-----------------------------------------------------------------------------
(* context_best_pending as a set: among the pending, unclaimed sources    *)
(* those no other one beats; a higher latched priority wins, then a lower  *)
(* id.  ScanBest below is the loop of the source.                          *)

Candidates(k) == k.pending \ k.claimed

Beats(k, i, j) ==
    \/ k.cached[j] < k.cached[i]
    \/ k.cached[j] = k.cached[i] /\ i <= j

Best(k) == {i \in Candidates(k) : \A j \in Candidates(k) : Beats(k, i, j)}

BestPending(k) ==
    LET above == {i \in Best(k) : k.cached[i] > k.threshold}
    IN  IF above = {} THEN 0 ELSE CHOOSE i \in above : TRUE

(* Wrong variant: of two sources of one priority the later id wins. *)
ScanBestLater(k) ==
    LET scan[n \in 0 .. NumIds - 1] ==
          IF n = 0 THEN [id |-> 0, prio |-> 0]
          ELSE LET s == scan[n - 1] IN
               IF n \in Candidates(k) /\ (s.id = 0 \/ s.prio <= k.cached[n])
               THEN [id |-> n, prio |-> k.cached[n]] ELSE s
    IN  IF scan[NumIds - 1].prio <= k.threshold THEN 0 ELSE scan[NumIds - 1].id

\* The loop of context_best_pending over the ids in increasing order.
ScanBest(k) ==
    LET scan[n \in 0 .. NumIds - 1] ==
          IF n = 0 THEN [id |-> 0, prio |-> 0]
          ELSE LET s == scan[n - 1] IN
               IF n \in Candidates(k) /\ (s.id = 0 \/ s.prio < k.cached[n])
               THEN [id |-> n, prio |-> k.cached[n]] ELSE s
    IN  IF scan[NumIds - 1].prio <= k.threshold THEN 0 ELSE scan[NumIds - 1].id
=============================================================================
