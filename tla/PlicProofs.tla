----------------------------- MODULE PlicProofs -----------------------------
(* Proofs about the interrupt controller for every number of sources and   *)
(* every priority width.                                                   *)
EXTENDS Plic, WellFoundedInduction, TLAPS

\* The inductive invariant.  LatchFollowsLevel is what the code is for;
\* LineIsCurrent and ContextNesting are what it takes to carry it through
\* the handlers, which edit pending, claimed and the latched priority apart.
IInv == TypeOK /\ ContextNesting /\ LineIsCurrent /\ LatchFollowsLevel

-----------------------------------------------------------------------------
(* What the helpers on a context return.                                   *)

\* BestPending returns 0 or an eligible source, never an unknown id.
LEMMA BestPendingType ==
    ASSUME NEW k \in Context
    PROVE  /\ BestPending(k) \in Sources \cup {0}
           /\ BestPending(k) # 0 => /\ BestPending(k) \in Candidates(k)
                                    /\ k.cached[BestPending(k)] > k.threshold
<1> DEFINE above == {i \in Best(k) : k.cached[i] > k.threshold}
<1>1. above \subseteq Candidates(k) /\ Candidates(k) \subseteq Sources
  BY DEF Best, Candidates, Context
<1>2. CASE above = {}
  BY <1>2 DEF BestPending
<1>3. CASE above # {}
  <2>1. BestPending(k) = CHOOSE i \in above : TRUE
    BY <1>3 DEF BestPending
  <2>2. BestPending(k) \in above
    BY <1>3, <2>1
  <2> QED BY <1>1, <2>2
<1> QED BY <1>2, <1>3

\* Latch changes the pending set and the latched priorities only.
LEMMA LatchFields ==
    ASSUME NEW k \in Context, NEW S \in SUBSET Sources,
           NEW p \in [Sources -> Priority]
    PROVE  /\ Latch(k, S, p) \in Context
           /\ Latch(k, S, p).enable = k.enable
           /\ Latch(k, S, p).pending = k.pending \cup S
           /\ Latch(k, S, p).claimed = k.claimed
           /\ Latch(k, S, p).threshold = k.threshold
           /\ \A i \in Sources : Latch(k, S, p).cached[i] =
                                 IF i \in S THEN p[i] ELSE k.cached[i]
BY DEF Latch, Context

\* Drop removes the sources from service as well as from the pending set.
LEMMA DropFields ==
    ASSUME NEW k \in Context, NEW S \in SUBSET Sources
    PROVE  /\ Drop(k, S) \in Context
           /\ Drop(k, S).enable = k.enable
           /\ Drop(k, S).pending = k.pending \ S
           /\ Drop(k, S).claimed = k.claimed \ S
           /\ Drop(k, S).threshold = k.threshold
           /\ \A i \in Sources : Drop(k, S).cached[i] =
                                 IF i \in S THEN 0 ELSE k.cached[i]
<1>1. 0 \in Priority
  BY PlicAssumption DEF Priority
<1> QED BY <1>1 DEF Drop, Context

\* A context update leaves the other context alone and the line current.
LEMMA UpdateFrame ==
    ASSUME TypeOK, LineIsCurrent, NEW c \in Contexts, NEW k \in Context,
           ContextUpdate(c, k)
    PROVE  /\ ctx' \in [Contexts -> Context]
           /\ eip' \in [Contexts -> BOOLEAN]
           /\ ctx'[c] = k
           /\ \A d \in Contexts \ {c} : ctx'[d] = ctx[d]
           /\ LineIsCurrent'
<1>1. ctx' = [ctx EXCEPT ![c] = k] /\ eip' = [eip EXCEPT ![c] = BestPending(k) # 0]
  BY DEF ContextUpdate
<1>2. ctx'[c] = k /\ \A d \in Contexts \ {c} : ctx'[d] = ctx[d]
  BY <1>1 DEF TypeOK
<1>3. ctx' \in [Contexts -> Context] /\ eip' \in [Contexts -> BOOLEAN]
  BY <1>1 DEF TypeOK
<1>4. (eip'[c] <=> BestPending(ctx'[c]) # 0)
  BY <1>1, <1>2 DEF TypeOK
<1>5. \A d \in Contexts \ {c} : eip'[d] <=> BestPending(ctx'[d]) # 0
  BY <1>1, <1>2 DEF TypeOK, LineIsCurrent
<1> QED BY <1>2, <1>3, <1>4, <1>5 DEF LineIsCurrent

-----------------------------------------------------------------------------
(* The invariant is preserved by a level change ...                        *)

LEMMA SetLevelPreserves ==
    ASSUME IInv, NEW id \in Sources, NEW lvl \in BOOLEAN, NEW prio \in Priority,
           SetLevelLocked(id, lvl, prio), raising' \in Raise
    PROVE  IInv'
<1> USE DEF IInv
<1>1. /\ level' = (IF lvl THEN level \cup {id} ELSE level \ {id})
      /\ skipped' = (IF id \in ctx[0].enable /\ id \in ctx[1].enable
                     THEN skipped \cup {id} ELSE skipped \ {id})
      /\ priority' = priority
  BY DEF SetLevelLocked
<1>2. ASSUME NEW c \in Contexts, FirstEnabled(c, id),
             ContextUpdate(c, IF lvl
                              THEN Latch(ctx[c], {id}, [i \in Sources |-> prio])
                              ELSE Drop(ctx[c], {id}))
      PROVE  IInv'
  <2> DEFINE k == IF lvl THEN Latch(ctx[c], {id}, [i \in Sources |-> prio])
                         ELSE Drop(ctx[c], {id})
  <2>0. ctx[c] \in Context /\ ctx[0] \in Context /\ ctx[1] \in Context
    BY DEF TypeOK, Contexts
  <2>1. /\ k \in Context
        /\ k.enable = ctx[c].enable
        /\ k.pending = (IF lvl THEN ctx[c].pending \cup {id} ELSE ctx[c].pending \ {id})
        /\ k.claimed = (IF lvl THEN ctx[c].claimed ELSE ctx[c].claimed \ {id})
        /\ \A i \in Sources \ {id} : k.cached[i] = ctx[c].cached[i]
        /\ ~lvl => k.cached[id] = 0
    <3>1. CASE lvl
      <4> DEFINE flat == [i \in Sources |-> prio]
                 old == ctx[c]
                 one == {id}
      <4>1. /\ one \in SUBSET Sources /\ flat \in [Sources -> Priority]
            /\ old \in Context
        BY <2>0
      <4>2. k = Latch(old, one, flat)
        BY <3>1
      <4> HIDE DEF k, flat, old, one
      <4>3. Latch(old, one, flat) \in Context
        BY <4>1, LatchFields
      <4>4. Latch(old, one, flat).enable = old.enable
        BY <4>1, LatchFields
      <4>5. Latch(old, one, flat).pending = old.pending \cup one
        BY <4>1, LatchFields
      <4>6. Latch(old, one, flat).claimed = old.claimed
        BY <4>1, LatchFields
      <4>7. \A i \in Sources \ one : Latch(old, one, flat).cached[i] = old.cached[i]
        BY <4>1, LatchFields
      <4> QED BY <3>1, <4>2, <4>3, <4>4, <4>5, <4>6, <4>7 DEF old, one
    <3>2. CASE ~lvl
      <4>1. {id} \in SUBSET Sources /\ k = Drop(ctx[c], {id})
        BY <3>2
      <4> HIDE DEF k
      <4> QED BY <2>0, <3>2, <4>1, DropFields
    <3> QED BY <3>1, <3>2
  <2> HIDE DEF k
  <2>2. /\ ctx' \in [Contexts -> Context] /\ eip' \in [Contexts -> BOOLEAN]
        /\ ctx'[c] = k
        /\ \A d \in Contexts \ {c} : ctx'[d] = ctx[d]
        /\ LineIsCurrent'
    BY <1>2, <2>1, UpdateFrame DEF k
  <2>3. TypeOK'
    BY <1>1, <2>2 DEF TypeOK
  <2>4. id \in ctx[c].enable /\ (c = 1 => id \notin ctx[0].enable)
    BY <1>2 DEF FirstEnabled, Contexts
  <2>5. ContextNesting'
    BY <2>1, <2>2, <2>4 DEF ContextNesting
  <2>6. LatchFollowsLevel'
    <3>1. ASSUME NEW i \in Served(c)'
          PROVE  i \in k.pending <=> i \in k.enable /\ i \in level'
      <4>1. CASE i = id
        BY <1>1, <2>1, <2>4, <4>1
      <4>2. CASE i # id
        BY <1>1, <2>1, <3>1, <4>2 DEF LatchFollowsLevel, Served
      <4> QED BY <4>1, <4>2
    <3>2. ASSUME NEW d \in Contexts \ {c}, NEW i \in Served(d)'
          PROVE  i \in ctx[d].pending <=> i \in ctx[d].enable /\ i \in level'
      <4>1. CASE i = id
        <5>1. id \notin ctx[d].enable
          BY <1>1, <2>4, <3>2, <4>1 DEF Served, Contexts
        <5> QED BY <4>1, <5>1 DEF ContextNesting
      <4>2. CASE i # id
        BY <1>1, <3>2, <4>2 DEF LatchFollowsLevel, Served
      <4> QED BY <4>1, <4>2
    <3> QED BY <2>2, <3>1, <3>2 DEF LatchFollowsLevel
  <2> QED BY <2>2, <2>3, <2>5, <2>6
<1>3. ASSUME \A c \in Contexts : id \notin ctx[c].enable, UNCHANGED <<ctx, eip>>
      PROVE  IInv'
  <2>1. TypeOK'
    BY <1>1, <1>3 DEF TypeOK
  <2>2. ContextNesting' /\ LineIsCurrent'
    BY <1>3 DEF ContextNesting, LineIsCurrent
  <2>3. LatchFollowsLevel'
    BY <1>1, <1>3 DEF LatchFollowsLevel, ContextNesting, Served, Contexts
  <2> QED BY <2>1, <2>2, <2>3
<1> QED BY <1>2, <1>3 DEF SetLevelLocked

(* ... by a rewrite of one context that keeps its latches in step ...      *)

LEMMA RewritePreserves ==
    ASSUME IInv, NEW c \in Contexts, NEW k \in Context, ContextUpdate(c, k),
           k.claimed \subseteq k.pending, k.pending \subseteq k.enable,
           \A i \in Sources \ k.pending : k.cached[i] = 0,
           UNCHANGED <<priority, level, raising>>, skipped' \in SUBSET skipped,
           c = 0 => skipped' = skipped,
           \A i \in Served(c)' : i \in k.pending <=> i \in k.enable /\ i \in level
    PROVE  IInv'
<1> USE DEF IInv
<1>1. /\ ctx' \in [Contexts -> Context] /\ eip' \in [Contexts -> BOOLEAN]
      /\ ctx'[c] = k
      /\ \A d \in Contexts \ {c} : ctx'[d] = ctx[d]
      /\ LineIsCurrent'
  BY UpdateFrame
<1>2. TypeOK'
  BY <1>1 DEF TypeOK
<1>3. ContextNesting'
  BY <1>1 DEF ContextNesting
<1>4. \A d \in Contexts \ {c} : Served(d)' = Served(d)
  BY DEF Served, Contexts
<1>5. LatchFollowsLevel'
  BY <1>1, <1>4 DEF LatchFollowsLevel
<1> QED BY <1>1, <1>2, <1>3, <1>5

-----------------------------------------------------------------------------
(* ... and so by every step.                                               *)

LEMMA InitIInv == Init => IInv
<1> SUFFICES ASSUME Init PROVE IInv
  OBVIOUS
<1>1. 0 \in Priority
  BY PlicAssumption DEF Priority
<1>2. TypeOK
  BY <1>1, PlicAssumption DEF Init, TypeOK, Context, Raise, None
<1>3. \A c \in Contexts : Candidates(ctx[c]) = {} /\ ctx[c] \in Context
  BY <1>2 DEF Init, Candidates, TypeOK
<1>4. \A c \in Contexts : BestPending(ctx[c]) = 0
  BY <1>3, BestPendingType
<1>5. ContextNesting /\ LineIsCurrent /\ LatchFollowsLevel
  BY <1>4 DEF Init, ContextNesting, LineIsCurrent, LatchFollowsLevel
<1> QED BY <1>2, <1>5 DEF IInv

LEMMA NextIInv == IInv /\ [Next]_vars => IInv'
<1> SUFFICES ASSUME IInv, [Next]_vars PROVE IInv'
  OBVIOUS
<1> USE DEF IInv
<1>0. /\ \A c \in Contexts : ctx[c] \in Context
      /\ \A i \in Sources : priority[i] \in Priority
      /\ \A v \in Nat : v % 2^PrioBits \in Priority
  BY PlicAssumption DEF TypeOK, Priority
<1>1. ASSUME NEW id \in Sources, NEW lvl \in BOOLEAN, SetLevelFromCpu(id, lvl)
      PROVE  IInv'
  BY <1>0, <1>1, SetLevelPreserves DEF SetLevelFromCpu, TypeOK
<1>2. ASSUME NEW id \in Sources, NEW lvl \in BOOLEAN, SetLevelHostRead(id, lvl)
      PROVE  IInv'
  <2>1. raising' \in Raise
    BY <1>0, <1>2, PlicAssumption DEF SetLevelHostRead, Raise, Sources
  <2> QED BY <1>2, <2>1 DEF SetLevelHostRead, TypeOK, ContextNesting,
                            LineIsCurrent, LatchFollowsLevel, Served
<1>3. ASSUME SetLevelHostApply
      PROVE  IInv'
  <2>1. /\ raising.id \in Sources /\ raising.lvl \in BOOLEAN
        /\ raising.prio \in Priority
    BY <1>3, PlicAssumption DEF SetLevelHostApply, TypeOK, Raise, Sources
  <2>2. raising' \in Raise
    BY <1>3, PlicAssumption DEF SetLevelHostApply, Raise, None, Priority
  <2> QED BY <1>3, <2>1, <2>2, SetLevelPreserves DEF SetLevelHostApply
<1>4. ASSUME NEW id \in Sources, NEW val \in 0 .. 2^PrioBits, PriorityWrite(id, val)
      PROVE  IInv'
  <2>1. val % 2^PrioBits \in Priority
    BY <1>0, PlicAssumption
  <2> QED BY <1>4, <2>1 DEF PriorityWrite, TypeOK, ContextNesting, LineIsCurrent,
                            LatchFollowsLevel, Served
<1>5. ASSUME NEW c \in Contexts, NEW val \in SUBSET (0 .. NumIds - 1),
             ContextEnableWrite(c, val)
      PROVE  IInv'
  <2> DEFINE new == val \ {0}
             on  == new \ ctx[c].enable
             off == ctx[c].enable \ new
             k0  == [ctx[c] EXCEPT !.enable = new]
             k1  == Latch(k0, on \cap level, priority)
             k   == Drop(k1, off)
  <2>1. new \in SUBSET Sources /\ on \in SUBSET Sources /\ off \in SUBSET Sources
    <3>1. \A i \in new : i \in Sources
      BY PlicAssumption DEF Sources
    <3>2. ctx[c].enable \subseteq Sources
      BY <1>0 DEF Context
    <3> QED BY <3>1, <3>2
  <2>2. /\ k0 \in Context /\ k0.enable = new
        /\ k0.pending = ctx[c].pending /\ k0.claimed = ctx[c].claimed
        /\ k0.cached = ctx[c].cached
    BY <1>0, <2>1 DEF Context
  <2>3. /\ ContextUpdate(c, k)
        /\ skipped' = (IF c = 1 THEN skipped \ (on \cup off) ELSE skipped)
        /\ UNCHANGED <<priority, level, raising>>
    BY <1>5 DEF ContextEnableWrite
  <2> HIDE DEF k0
  <2>4. /\ k1 \in Context /\ k1.enable = new
        /\ k1.pending = ctx[c].pending \cup (on \cap level)
        /\ k1.claimed = ctx[c].claimed
        /\ \A i \in Sources \ (on \cap level) : k1.cached[i] = ctx[c].cached[i]
    <3> DEFINE S == on \cap level
    <3>1. S \in SUBSET Sources /\ priority \in [Sources -> Priority]
      BY <2>1 DEF TypeOK
    <3> HIDE DEF new, on, S
    <3>2. k1 = Latch(k0, S, priority)
      BY DEF S
    <3> HIDE DEF k1
    <3>3. /\ k1 \in Context /\ k1.enable = k0.enable
          /\ k1.pending = k0.pending \cup S /\ k1.claimed = k0.claimed
          /\ \A i \in Sources : k1.cached[i] = IF i \in S THEN priority[i] ELSE k0.cached[i]
      BY <2>2, <3>1, <3>2, LatchFields, SMTT(40)
    <3> QED BY <2>2, <3>3 DEF S
  <2> HIDE DEF k1
  <2>5. /\ k \in Context /\ k.enable = new
        /\ k.pending = (ctx[c].pending \cup (on \cap level)) \ off
        /\ k.claimed = ctx[c].claimed \ off
        /\ \A i \in Sources : k.cached[i] = IF i \in off THEN 0 ELSE k1.cached[i]
    BY <2>1, <2>4, DropFields
  <2> HIDE DEF k
  <2>6. /\ k.claimed \subseteq k.pending /\ k.pending \subseteq k.enable
        /\ \A i \in Sources \ k.pending : k.cached[i] = 0
    BY <2>4, <2>5 DEF ContextNesting
  <2>7. ASSUME NEW i \in Served(c)'
        PROVE  i \in k.pending <=> i \in k.enable /\ i \in level
    <3>1. i \in on \cup off \/ i \in Served(c)
      BY <2>3, <2>7 DEF Served, Contexts
    <3>2. i \in on => i \notin ctx[c].pending
      BY DEF ContextNesting
    <3> QED BY <2>5, <3>1, <3>2 DEF LatchFollowsLevel, ContextNesting
  <2> QED BY <2>3, <2>5, <2>6, <2>7, RewritePreserves
<1>6. ASSUME NEW c \in Contexts, NEW val \in 0 .. 2^PrioBits, ThresholdWrite(c, val)
      PROVE  IInv'
  <2> DEFINE k == [ctx[c] EXCEPT !.threshold = val % 2^PrioBits]
  <2>1. /\ k \in Context /\ k.enable = ctx[c].enable
        /\ k.pending = ctx[c].pending /\ k.claimed = ctx[c].claimed
        /\ k.cached = ctx[c].cached
    BY <1>0, PlicAssumption DEF Context
  <2>2. ContextUpdate(c, k) /\ UNCHANGED <<priority, level, raising, skipped>>
    BY <1>6 DEF ThresholdWrite
  <2> HIDE DEF k
  <2> QED BY <2>1, <2>2, RewritePreserves DEF ContextNesting, LatchFollowsLevel,
                                              Served, TypeOK
<1>7. ASSUME NEW c \in Contexts, NEW S, UNCHANGED <<priority, level, raising, skipped>>,
             S \subseteq ctx[c].pending,
             ContextUpdate(c, [ctx[c] EXCEPT !.claimed = S])
      PROVE  IInv'
  <2> DEFINE k == [ctx[c] EXCEPT !.claimed = S]
  <2>1. /\ k \in Context /\ k.enable = ctx[c].enable
        /\ k.pending = ctx[c].pending /\ k.claimed = S
        /\ k.cached = ctx[c].cached
    BY <1>0, <1>7 DEF Context
  <2> HIDE DEF k
  <2>2. ContextUpdate(c, k)
    BY <1>7 DEF k
  <2> QED BY <1>7, <2>1, <2>2, RewritePreserves DEF ContextNesting,
                                     LatchFollowsLevel, Served, TypeOK
<1>8. ASSUME NEW c \in Contexts, NEW val \in Sources, ContextComplete(c, val)
      PROVE  IInv'
  <2> DEFINE S == ctx[c].claimed \ {val}
  <2>1. S \subseteq ctx[c].pending
    BY DEF ContextNesting
  <2>2. /\ ContextUpdate(c, [ctx[c] EXCEPT !.claimed = S])
        /\ UNCHANGED <<priority, level, raising, skipped>>
    BY <1>8 DEF ContextComplete
  <2> HIDE DEF S
  <2> QED BY <1>7, <2>1, <2>2
<1>9. ASSUME NEW c \in Contexts, ContextClaim(c)
      PROVE  IInv'
  <2>1. BestPending(ctx[c]) # 0 => BestPending(ctx[c]) \in ctx[c].pending
    BY <1>0, BestPendingType DEF Candidates
  <2>2. ctx[c].claimed \cup ({BestPending(ctx[c])} \ {0}) \subseteq ctx[c].pending
    BY <2>1 DEF ContextNesting
  <2> QED BY <1>7, <1>9, <2>2 DEF ContextClaim
<1>10. CASE UNCHANGED vars
  BY <1>10 DEF vars, TypeOK, ContextNesting, LineIsCurrent, LatchFollowsLevel, Served
<1> QED BY <1>1, <1>2, <1>3, <1>4, <1>5, <1>6, <1>8, <1>9, <1>10
        DEF Next, Device, Guest

\* The invariant holds in every reachable state.
THEOREM IInvHolds == Spec => []IInv
BY InitIInv, NextIInv, PTL DEF Spec

-----------------------------------------------------------------------------
(* A nonempty set of candidates has a best one: well-founded minima, first *)
(* of the distance to the highest priority and then of the id.             *)

LEMMA NatSetHasMin ==
    ASSUME NEW T \in SUBSET Nat, T # {}
    PROVE  \E x \in T : \A y \in T : x <= y
<1>1. PICK x \in T : \A y \in T : ~(<<y, x>> \in OpToRel(<, Nat))
  BY NatLessThanWellFounded, WFMin
<1>2. \A y \in T : ~(y < x)
  BY <1>1 DEF OpToRel
<1> QED BY <1>2

LEMMA BestExists ==
    ASSUME NEW k \in Context, Candidates(k) # {}
    PROVE  Best(k) # {}
<1> DEFINE C == Candidates(k)
           top == 2^PrioBits - 1
           D == {top - k.cached[i] : i \in C}
<1>1. C \subseteq Sources /\ C \subseteq Nat
  BY PlicAssumption DEF Candidates, Context, Sources
<1>2. top \in Nat /\ \A i \in C : k.cached[i] \in Nat /\ k.cached[i] <= top
  BY <1>1, PlicAssumption DEF Context, Priority
<1>3. D \in SUBSET Nat /\ D # {}
  BY <1>2
<1>4. PICK d \in D : \A e \in D : d <= e
  BY <1>3, NatSetHasMin
<1>5. PICK m \in C : d = top - k.cached[m]
  BY <1>4
<1>6. \A j \in C : k.cached[j] <= k.cached[m]
  <2> SUFFICES ASSUME NEW j \in C PROVE k.cached[j] <= k.cached[m]
    OBVIOUS
  <2>1. d <= top - k.cached[j]
    BY <1>4
  <2> HIDE DEF C, top, D
  <2>2. top - k.cached[m] <= top - k.cached[j]
    BY <1>5, <2>1
  <2> QED BY <1>2, <2>2
<1> DEFINE T == {i \in C : k.cached[i] = k.cached[m]}
<1>7. T \in SUBSET Nat /\ T # {}
  BY <1>1
<1>8. PICK b \in T : \A j \in T : b <= j
  BY <1>7, NatSetHasMin
<1>9. \A j \in C : Beats(k, b, j)
  BY <1>2, <1>6, <1>8 DEF Beats
<1> QED BY <1>8, <1>9 DEF Best

LEMMA BestPendingIsZero ==
    ASSUME NEW k \in Context
    PROVE  BestPending(k) # 0 <=> \E i \in Candidates(k) : k.cached[i] > k.threshold
<1>1. ASSUME NEW i \in Candidates(k), k.cached[i] > k.threshold
      PROVE  BestPending(k) # 0
  <2>1. PICK b \in Best(k) : TRUE
    BY BestExists
  <2>2. /\ Candidates(k) \subseteq Sources /\ b \in Candidates(k)
        /\ Beats(k, b, i) /\ 0 \notin Sources
    BY <2>1 DEF Best, Candidates, Context, Sources
  <2>3. k.cached[i] \in Int /\ k.cached[b] \in Int /\ k.threshold \in Int
    BY <2>2, PlicAssumption DEF Context, Priority
  <2>4. k.cached[b] > k.threshold
    BY <1>1, <2>2, <2>3 DEF Beats
  <2> DEFINE above == {j \in Best(k) : k.cached[j] > k.threshold}
  <2>5. above # {} /\ 0 \notin above
    BY <2>1, <2>2, <2>4 DEF Best
  <2>6. BestPending(k) = CHOOSE j \in above : TRUE
    BY <2>5 DEF BestPending
  <2> QED BY <2>5, <2>6
<1> QED BY <1>1, BestPendingType

-----------------------------------------------------------------------------
(* The properties the runs check, for every number of sources.             *)

\* Every step of the controller, of either thread, keeps the state well typed.
THEOREM TypeCorrect == Spec => []TypeOK
BY IInvHolds, PTL DEF IInv

\* The bit vectors of a context stay nested although they are edited apart.
THEOREM NestingHolds == Spec => []ContextNesting
BY IInvHolds, PTL DEF IInv

\* No level change and no enable write is lost or sticks, except where the
\* source was enabled in both contexts when its level last changed.
THEOREM LatchHolds == Spec => []LatchFollowsLevel
BY IInvHolds, PTL DEF IInv

\* The line a context drives into the hart tells what a claim would return,
\* whichever thread changed the context last.
THEOREM LineHolds == Spec => []LineIsCurrent
BY IInvHolds, PTL DEF IInv

\* The end-to-end promise: what a context owes is signalled to the hart, and
\* what is signalled is owed.
THEOREM DemandHolds == Spec => []DemandReachesHart
<1>1. IInv => DemandReachesHart
  <2> SUFFICES ASSUME IInv, NEW c \in Contexts
               PROVE  /\ Owed(c) \cap Served(c) # {} => eip[c]
                      /\ eip[c] => \E i \in ctx[c].pending \ ctx[c].claimed :
                                      /\ ctx[c].cached[i] > ctx[c].threshold
                                      /\ i \in Served(c) => i \in Owed(c)
    BY DEF DemandReachesHart
  <2> USE DEF IInv
  <2>1. ctx[c] \in Context
    BY DEF TypeOK
  <2>2. eip[c] <=> \E i \in Candidates(ctx[c]) : ctx[c].cached[i] > ctx[c].threshold
    BY <2>1, BestPendingIsZero DEF LineIsCurrent
  <2>3. ASSUME NEW i \in Owed(c) \cap Served(c)
        PROVE  eip[c]
    BY <2>2, <2>3 DEF Owed, LatchFollowsLevel, Candidates
  <2>4. ASSUME NEW i \in Candidates(ctx[c]), ctx[c].cached[i] > ctx[c].threshold,
               i \in Served(c)
        PROVE  i \in Owed(c)
    BY <2>4 DEF Owed, LatchFollowsLevel, Candidates
  <2> QED BY <2>2, <2>3, <2>4 DEF Candidates
<1> QED BY <1>1, IInvHolds, PTL

\* A source in service leaves it only by completion, by being disabled or by its
\* line going low.
THEOREM ServiceHolds == Spec => ServiceEndsForAReason
<1> DEFINE Reason(c, i) == i \notin ctx'[c].enable \/ i \notin level' \/ ContextComplete(c, i)
           Step == \A c \in Contexts : \A i \in ctx[c].claimed \ ctx'[c].claimed :
                      \/ i \notin ctx'[c].enable
                      \/ i \notin level'
                      \/ ContextComplete(c, i)
<1>1. IInv /\ Next => Step
  <2> SUFFICES ASSUME IInv, Next,
                      NEW c \in Contexts, NEW i \in ctx[c].claimed \ ctx'[c].claimed
               PROVE  Reason(c, i)
    OBVIOUS
  <2>0. /\ ctx \in [Contexts -> Context] /\ ctx[c] \in Context
        /\ level \subseteq Sources /\ raising.prio \in Priority
        /\ priority \in [Sources -> Priority] /\ i \in Sources
    BY DEF IInv, TypeOK, Raise, Context
  <2>1. ASSUME NEW d \in Contexts, NEW k, ContextUpdate(d, k)
        PROVE  c = d /\ ctx'[c] = k
    BY <2>0, <2>1 DEF ContextUpdate
  <2>2. ASSUME NEW id \in Sources, NEW lvl \in BOOLEAN, NEW prio \in Priority,
               SetLevelLocked(id, lvl, prio)
        PROVE  Reason(c, i)
    <3>1. PICK d \in Contexts : ContextUpdate(d, IF lvl
                                 THEN Latch(ctx[d], {id}, [j \in Sources |-> prio])
                                 ELSE Drop(ctx[d], {id}))
      BY <2>2 DEF SetLevelLocked
    <3>2. CASE lvl
      BY <2>0, <2>1, <3>1, <3>2, LatchFields
    <3>3. CASE ~lvl
      BY <2>0, <2>1, <2>2, <3>1, <3>3, DropFields DEF SetLevelLocked
    <3> QED BY <3>2, <3>3
  <2>3. ASSUME NEW id \in Sources, NEW lvl \in BOOLEAN,
               SetLevelFromCpu(id, lvl) \/ SetLevelHostRead(id, lvl)
        PROVE  Reason(c, i)
    BY <2>0, <2>2, <2>3 DEF SetLevelFromCpu, SetLevelHostRead
  <2>4. ASSUME SetLevelHostApply
        PROVE  Reason(c, i)
    <3>1. /\ raising.id \in Sources /\ raising.lvl \in BOOLEAN
          /\ raising.prio \in Priority
      BY <2>4 DEF SetLevelHostApply, IInv, TypeOK, Raise, Sources
    <3> QED BY <2>2, <2>4, <3>1 DEF SetLevelHostApply
  <2>5. ASSUME NEW d \in Contexts, NEW val \in SUBSET (0 .. NumIds - 1),
               ContextEnableWrite(d, val)
        PROVE  Reason(c, i)
    <3> DEFINE new == val \ {0}
               k == Latch([ctx[d] EXCEPT !.enable = new],
                          (new \ ctx[d].enable) \cap level, priority)
    <3>1. c = d /\ ctx'[c] = Drop(k, ctx[d].enable \ new)
      BY <2>1, <2>5 DEF ContextEnableWrite
    <3>2. /\ [ctx[d] EXCEPT !.enable = new] \in Context
          /\ [ctx[d] EXCEPT !.enable = new].enable = new
          /\ [ctx[d] EXCEPT !.enable = new].claimed = ctx[d].claimed
          /\ ctx[d].enable \in SUBSET Sources
      BY <2>0, <3>1 DEF Context, Sources
    <3>3. k \in Context /\ k.claimed = ctx[d].claimed /\ k.enable = new
      <4> DEFINE old == [ctx[d] EXCEPT !.enable = new]
                 on  == (new \ ctx[d].enable) \cap level
      <4>1. on \in SUBSET Sources
        BY <2>0
      <4>2. old \in Context /\ old.enable = new /\ old.claimed = ctx[d].claimed
        BY <3>2
      <4>3. priority \in [Sources -> Priority] /\ k = Latch(old, on, priority)
        BY <2>0
      <4> HIDE DEF old, on, new, k
      <4>4. k \in Context /\ k.claimed = old.claimed /\ k.enable = old.enable
        BY <4>1, <4>2, <4>3, LatchFields
      <4> QED BY <4>2, <4>4
    <3> HIDE DEF k
    <3> QED BY <3>1, <3>2, <3>3, DropFields
  <2>6. ASSUME NEW d \in Contexts, NEW val, ThresholdWrite(d, val)
        PROVE  Reason(c, i)
    BY <2>0, <2>1, <2>6 DEF ThresholdWrite, Context
  <2>7. ASSUME NEW d \in Contexts, NEW val, ContextComplete(d, val)
        PROVE  Reason(c, i)
    <3>1. c = d /\ ctx'[c] = [ctx[d] EXCEPT !.claimed = ctx[d].claimed \ {val}]
      BY <2>1, <2>7 DEF ContextComplete
    <3>2. i = val
      BY <2>0, <3>1 DEF Context
    <3> QED BY <2>7, <3>1, <3>2
  <2>8. ASSUME NEW d \in Contexts, ContextClaim(d)
        PROVE  Reason(c, i)
    BY <2>0, <2>1, <2>8 DEF ContextClaim, Context
  <2>9. ASSUME NEW id, NEW val, PriorityWrite(id, val)
        PROVE  Reason(c, i)
    BY <2>9 DEF PriorityWrite
  <2> QED BY <2>3, <2>4, <2>5, <2>6, <2>7, <2>8, <2>9 DEF Next, Device, Guest
<1>2. IInv /\ [Next]_vars => [Step]_vars
  BY <1>1
<1> QED BY <1>2, IInvHolds, PTL DEF Spec, ServiceEndsForAReason

-----------------------------------------------------------------------------
(* The loop of context_best_pending.                                       *)

ScanIds == 0 .. NumIds - 1

\* Its body at id n, over the results scan of the ids before.
ScanBody(k, scan, n) ==
    IF n = 0 THEN [id |-> 0, prio |-> 0]
    ELSE LET s == scan[n - 1] IN
         IF n \in Candidates(k) /\ (s.id = 0 \/ s.prio < k.cached[n])
         THEN [id |-> n, prio |-> k.cached[n]] ELSE s
ScanSolves(k, scan) == scan = [n \in ScanIds |-> ScanBody(k, scan, n)]
ScanOf(k) == CHOOSE scan : ScanSolves(k, scan)

LEMMA ScanIs ==
    ASSUME NEW k
    PROVE  ScanBest(k) = IF ScanOf(k)[NumIds - 1].prio <= k.threshold
                         THEN 0 ELSE ScanOf(k)[NumIds - 1].id
BY DEF ScanBest, ScanOf, ScanSolves, ScanBody, ScanIds

\* The recursion has a solution: one up to n extends to n + 1.
LEMMA ScanExists == ASSUME NEW k PROVE \E scan : ScanSolves(k, scan)
<1> DEFINE Solved(n) == \E f : f = [j \in 0 .. n |-> ScanBody(k, f, j)]
           Open == {n \in ScanIds : ~Solved(n)}
<1>0. NumIds \in Nat \ {0}
  BY PlicAssumption
<1>1. Solved(0)
  <2> DEFINE f == [j \in 0 .. 0 |-> [id |-> 0, prio |-> 0]]
  <2>1. \A j \in 0 .. 0 : j = 0
    OBVIOUS
  <2>2. f = [j \in 0 .. 0 |-> ScanBody(k, f, j)]
    BY <2>1, Zenon DEF ScanBody
  <2> QED BY <2>2
<1>2. ASSUME NEW n \in Nat, Solved(n) PROVE Solved(n + 1)
  <2>1. PICK f : f = [j \in 0 .. n |-> ScanBody(k, f, j)]
    BY <1>2
  <2> DEFINE g == [j \in 0 .. n + 1 |-> ScanBody(k, f, j)]
  <2>2. ASSUME NEW j \in 0 .. n PROVE g[j] = f[j]
    <3>1. j \in 0 .. n + 1
      BY <1>2
    <3>2. f[j] = ScanBody(k, f, j)
      BY <2>1, Zenon
    <3> QED BY <3>1, <3>2, Zenon
  <2>3. ASSUME NEW j \in 0 .. n + 1 PROVE ScanBody(k, g, j) = ScanBody(k, f, j)
    <3>1. CASE j = 0
      BY <3>1, Zenon DEF ScanBody
    <3>2. CASE j # 0
      <4>1. j - 1 \in 0 .. n
        BY <1>2, <3>2
      <4>2. g[j - 1] = f[j - 1]
        BY <2>2, <4>1
      <4> HIDE DEF g
      <4> QED BY <3>2, <4>2, Zenon DEF ScanBody
    <3> QED BY <3>1, <3>2
  <2>4. g = [j \in 0 .. n + 1 |-> ScanBody(k, g, j)]
    BY <2>3, Zenon
  <2> QED BY <2>4
<1>3. Open = {}
  <2> SUFFICES ASSUME Open # {} PROVE FALSE
    OBVIOUS
  <2> HIDE DEF Solved
  <2>1. Open \in SUBSET Nat
    BY <1>0 DEF ScanIds
  <2>2. PICK n \in Open : \A j \in Open : n <= j
    BY <2>1, NatSetHasMin
  <2>3. n \in Nat \ {0} /\ n <= NumIds - 1 /\ ~Solved(n)
    BY <1>0, <1>1, <2>2 DEF ScanIds
  <2>4. PICK j \in Nat : n = j + 1
    BY <2>3
  <2>5. Solved(j)
    BY <1>0, <2>2, <2>3, <2>4 DEF ScanIds
  <2> QED BY <1>2, <2>3, <2>4, <2>5
<1>4. Solved(NumIds - 1)
  <2> HIDE DEF Solved
  <2> QED BY <1>0, <1>3 DEF ScanIds
<1> QED BY <1>4 DEF ScanSolves, ScanIds

LEMMA ScanStep ==
    ASSUME NEW k, NEW n \in ScanIds
    PROVE  ScanOf(k)[n] = ScanBody(k, ScanOf(k), n)
<1>1. ScanSolves(k, ScanOf(k))
  BY ScanExists, Zenon DEF ScanOf
<1> QED BY <1>1, Zenon DEF ScanSolves

\* What the loop has found after id n.
Found(k, n, s) ==
    /\ s.id = 0 => s.prio = 0 /\ \A j \in Candidates(k) : n < j
    /\ s.id # 0 => /\ s.id \in Candidates(k) /\ s.id <= n /\ s.prio = k.cached[s.id]
                   /\ \A j \in Candidates(k) : j <= n => Beats(k, s.id, j)

LEMMA ScanFinds ==
    ASSUME NEW k \in Context, NEW n \in ScanIds
    PROVE  Found(k, n, ScanOf(k)[n])
<1> DEFINE Missed == {j \in ScanIds : ~Found(k, j, ScanOf(k)[j])}
<1>0. /\ NumIds \in Nat \ {0} /\ Candidates(k) \subseteq Sources
      /\ \A j \in Sources : k.cached[j] \in Nat /\ j \in Nat \ {0}
  BY PlicAssumption DEF Context, Candidates, Sources, Priority
<1>1. Found(k, 0, ScanOf(k)[0])
  <2>1. 0 \in ScanIds
    BY <1>0 DEF ScanIds
  <2>2. ScanOf(k)[0] = [id |-> 0, prio |-> 0]
    BY <2>1, ScanStep, Zenon DEF ScanBody
  <2>3. ScanOf(k)[0].id = 0 /\ ScanOf(k)[0].prio = 0
    BY <2>2
  <2> HIDE DEF ScanOf
  <2> QED BY <1>0, <2>3 DEF Found
<1>2. ASSUME NEW i \in Nat, i + 1 \in ScanIds, Found(k, i, ScanOf(k)[i])
      PROVE  Found(k, i + 1, ScanOf(k)[i + 1])
  <2>1. PICK s : s = ScanOf(k)[i]
    OBVIOUS
  <2>2. PICK r : r = ScanOf(k)[i + 1]
    OBVIOUS
  <2>3. PICK m \in Nat \ {0} : m = i + 1
    OBVIOUS
  <2>4. m - 1 = i
    BY <2>3
  <2>5. r = ScanBody(k, ScanOf(k), m)
    BY <1>2, <2>2, <2>3, ScanStep
  <2>6. r = IF m \in Candidates(k) /\ (s.id = 0 \/ s.prio < k.cached[m])
            THEN [id |-> m, prio |-> k.cached[m]] ELSE s
    <3>1. m # 0
      OBVIOUS
    <3> QED BY <2>1, <2>4, <2>5, <3>1, Zenon DEF ScanBody
  <2>7. Found(k, i, s)
    BY <1>2, <2>1
  <2>8. CASE m \in Candidates(k) /\ (s.id = 0 \/ s.prio < k.cached[m])
    <3>1. r.id = m /\ r.prio = k.cached[m]
      BY <2>6, <2>8
    <3>2. ASSUME NEW j \in Candidates(k), j <= m PROVE Beats(k, m, j)
      <4>1. CASE j = m
        BY <1>0, <4>1 DEF Beats
      <4>2. CASE j # m /\ s.id = 0
        BY <1>0, <2>3, <2>7, <3>2, <4>2 DEF Found
      <4>3. CASE j # m /\ s.id # 0
        BY <1>0, <2>3, <2>7, <2>8, <3>2, <4>3 DEF Found, Beats
      <4> QED BY <4>1, <4>2, <4>3
    <3>3. m # 0 /\ m <= m
      OBVIOUS
    <3>4. Found(k, m, r)
      BY <2>8, <3>1, <3>2, <3>3, Zenon DEF Found
    <3> QED BY <2>2, <2>3, <3>4
  <2>9. CASE ~(m \in Candidates(k) /\ (s.id = 0 \/ s.prio < k.cached[m]))
    <3>1. r = s
      BY <2>6, <2>9, Zenon
    <3>2. Found(k, m, s)
      <4>1. CASE s.id = 0
        BY <1>0, <2>3, <2>7, <2>9, <4>1 DEF Found
      <4>2. CASE s.id # 0
        <5>1. ASSUME NEW j \in Candidates(k), j <= m PROVE Beats(k, s.id, j)
          <6>1. CASE j <= i
            BY <2>7, <4>2, <6>1 DEF Found
          <6>2. CASE j = m
            BY <1>0, <2>3, <2>7, <2>9, <4>2, <6>2 DEF Found, Beats
          <6> QED BY <1>0, <2>3, <5>1, <6>1, <6>2
        <5> QED BY <1>0, <2>3, <2>7, <4>2, <5>1 DEF Found
      <4> QED BY <4>1, <4>2
    <3> QED BY <2>2, <2>3, <3>1, <3>2
  <2> QED BY <2>8, <2>9
<1>3. Missed = {}
  <2> SUFFICES ASSUME Missed # {} PROVE FALSE
    OBVIOUS
  <2>1. Missed \in SUBSET Nat
    BY <1>0 DEF ScanIds
  <2>2. PICK j \in Missed : \A i \in Missed : j <= i
    BY <2>1, NatSetHasMin
  <2>3. j \in Nat \ {0} /\ j \in ScanIds /\ ~Found(k, j, ScanOf(k)[j])
    BY <1>0, <1>1, <2>2 DEF ScanIds
  <2>4. PICK i \in Nat : j = i + 1
    BY <2>3
  <2>5. i \in ScanIds /\ ~(j <= i)
    BY <1>0, <2>3, <2>4 DEF ScanIds
  <2>6. Found(k, i, ScanOf(k)[i])
    BY <2>2, <2>5
  <2> QED BY <1>2, <2>3, <2>4, <2>6
<1> QED BY <1>3

\* BestPending(k) is what the loop finds among the candidates of context k, and
\* the best of them.
ScanIsBest(k) ==
    /\ BestPending(k) # 0 =>
          LET best == BestPending(k)
          IN  /\ best \in Candidates(k) /\ k.cached[best] > k.threshold
              /\ \A j \in Candidates(k) : k.cached[j] <= k.cached[best]
              /\ \A j \in Candidates(k) : k.cached[j] = k.cached[best] => best <= j
    /\ BestPending(k) = 0 => \A j \in Candidates(k) : k.cached[j] <= k.threshold
    /\ ScanBest(k) = BestPending(k)

LEMMA ScanHolds == ASSUME NEW k \in Context PROVE ScanIsBest(k)
<1>0. /\ NumIds \in Nat \ {0} /\ Candidates(k) \subseteq Sources
      /\ \A j \in Sources : k.cached[j] \in Nat /\ j \in Nat \ {0}
      /\ k.threshold \in Nat
  BY PlicAssumption DEF Context, Candidates, Sources, Priority
<1>1. PICK s : s = ScanOf(k)[NumIds - 1]
  OBVIOUS
<1>2. Found(k, NumIds - 1, s)
  BY <1>0, <1>1, ScanFinds DEF ScanIds
<1>3. ScanBest(k) = IF s.prio <= k.threshold THEN 0 ELSE s.id
  BY <1>1, ScanIs
<1>4. \A j \in Candidates(k) : j <= NumIds - 1
  BY <1>0 DEF Sources
<1> DEFINE above == {i \in Best(k) : k.cached[i] > k.threshold}
<1>5. BestPending(k) = IF above = {} THEN 0 ELSE CHOOSE i \in above : TRUE
  BY DEF BestPending
<1>6. CASE s.id = 0
  <2>1. Candidates(k) = {}
    BY <1>0, <1>2, <1>4, <1>6 DEF Found
  <2>2. above = {}
    BY <2>1 DEF Best
  <2>3. BestPending(k) = 0 /\ ScanBest(k) = 0
    BY <1>0, <1>2, <1>3, <1>5, <1>6, <2>2 DEF Found
  <2> QED BY <2>1, <2>3 DEF ScanIsBest
<1>7. CASE s.id # 0
  <2>1. PICK b \in Candidates(k) : b = s.id /\ s.prio = k.cached[b]
    BY <1>2, <1>7 DEF Found
  <2>2. \A j \in Candidates(k) : Beats(k, b, j)
    BY <1>2, <1>4, <1>7, <2>1 DEF Found
  <2>3. Best(k) = {b}
    BY <1>0, <2>2 DEF Best, Beats
  <2>4. b \in Nat \ {0} /\ k.cached[b] \in Nat
    BY <1>0
  <2>5. CASE k.cached[b] <= k.threshold
    <3>1. above = {}
      BY <1>0, <2>3, <2>4, <2>5
    <3>2. BestPending(k) = 0 /\ ScanBest(k) = 0
      BY <1>3, <1>5, <2>1, <2>5, <3>1
    <3>3. \A j \in Candidates(k) : k.cached[j] <= k.threshold
      BY <1>0, <2>2, <2>5 DEF Beats
    <3> QED BY <3>2, <3>3 DEF ScanIsBest
  <2>6. CASE ~(k.cached[b] <= k.threshold)
    <3>1. above = {b}
      BY <1>0, <2>3, <2>4, <2>6
    <3>2. BestPending(k) = b
      <4>1. BestPending(k) \in above
        BY <1>5, <3>1
      <4> QED BY <3>1, <4>1
    <3>3. ScanBest(k) = b
      BY <1>3, <2>1, <2>6
    <3>4. /\ k.cached[b] > k.threshold
          /\ \A j \in Candidates(k) : k.cached[j] <= k.cached[b]
          /\ \A j \in Candidates(k) : k.cached[j] = k.cached[b] => b <= j
      BY <1>0, <2>2, <2>4, <2>6 DEF Beats
    <3> HIDE DEF above
    <3> QED BY <2>4, <3>2, <3>3, <3>4 DEF ScanIsBest
  <2> QED BY <2>5, <2>6
<1> QED BY <1>6, <1>7

\* For any number of sources, any priority width and whatever registers were
\* written, the loop of context_best_pending returns the one best source above
\* the threshold, of several the lowest id, and 0 only if there is none.
THEOREM BestHolds == Spec => []BestIsMaximal
<1>1. ASSUME TypeOK PROVE BestIsMaximal
  <2>1. ASSUME NEW c \in Contexts PROVE ScanIsBest(ctx[c])
    BY <1>1, ScanHolds DEF TypeOK
  <2> QED BY <2>1, Zenon DEF BestIsMaximal, ScanIsBest, Candidates
<1> QED BY <1>1, TypeCorrect, PTL
=============================================================================
