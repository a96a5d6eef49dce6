------------------------ MODULE InterruptPathProofs -------------------------
(* Proofs about the way of a device interrupt through the machine, for     *)
(* every number of sources, every priority width and every batch length.   *)
(* The composition implements both components, so that what PlicProofs and *)
(* HartProofs prove of them holds of it; the rest is the guest's part.     *)
EXTENDS InterruptPath, TLAPS

PP == INSTANCE PlicProofs
HP == INSTANCE HartProofs WITH
        Lines <- {"MEIP", "SEIP"}, Delegable <- {}, MstatusInputs <- H!Mstatus,
        Faults <- {"illegal", "ecallU", "ecallS", "ecallM"}

-----------------------------------------------------------------------------
(* The assumptions of the two proof modules, and their lemmas without them. *)

LEMMA PlicConstants ==
    NumIds \in Nat \ {0} /\ PrioBits \in Nat /\ 2^PrioBits \in Nat \ {0}
BY PathAssumption DEF P!PlicAssumption

LEMMA HartConstants ==
    /\ {"MEIP", "SEIP"} \subseteq HP!AllLines
    /\ PCs # {}
    /\ Batch \in Nat \ {0}
    /\ {"illegal"} \cup HP!Ecalls \subseteq {"illegal", "ecallU", "ecallS", "ecallM"}
    /\ {"illegal", "ecallU", "ecallS", "ecallM"} \cap HP!AllLines = {}
    /\ {} \subseteq {"illegal", "ecallU", "ecallS", "ecallM"}
    /\ H!Mstatus \subseteq HP!Mstatus
BY PathAssumption DEF PCs, Boot, HP!AllLines, HP!Ecalls, H!Mstatus, HP!Mstatus, HP!U, HP!S, H!U, H!S

\* What PlicProofs keeps through every step of the controller.
LEMMA PlicInductive ==
    /\ PP!Init => PP!IInv
    /\ PP!IInv /\ [PP!Next]_(PP!vars) => PP!IInv'
BY PlicConstants, PP!InitIInv, PP!NextIInv

\* What HartProofs keeps through every step of the hart.
LEMMA HartInductive ==
    /\ HP!Init => HP!IInv
    /\ HP!IInv /\ [HP!Next]_(HP!vars) => HP!IInv'
BY HartConstants, HP!InitIInv, HP!NextIInv

-----------------------------------------------------------------------------
(* P and PP are the same controller, H and HP the same hart.               *)

LEMMA SameBest == \A k : PP!BestPending(k) = P!BestPending(k)
BY DEF PP!BestPending, PP!Best, PP!Candidates, PP!Beats,
       P!BestPending, P!Best, P!Candidates, P!Beats

LEMMA SameUpdate == \A c, k : P!ContextUpdate(c, k) <=> PP!ContextUpdate(c, k)
BY SameBest DEF PP!ContextUpdate, P!ContextUpdate

LEMMA SameSources == PP!Sources = P!Sources
BY DEF PP!Sources, P!Sources

LEMMA SameLatch ==
    /\ \A k, s, p : PP!Latch(k, s, p) = P!Latch(k, s, p)
    /\ \A k, s : PP!Drop(k, s) = P!Drop(k, s)
BY DEF PP!Latch, P!Latch, PP!Drop, P!Drop, PP!Sources, P!Sources

LEMMA SameSetLevel ==
    ASSUME NEW id, NEW lvl, NEW prio, P!SetLevelLocked(id, lvl, prio)
    PROVE  PP!SetLevelLocked(id, lvl, prio)
BY SameUpdate, SameLatch, SameSources
   DEF PP!SetLevelLocked, P!SetLevelLocked, PP!FirstEnabled, P!FirstEnabled,
       P!Contexts, PP!Contexts

LEMMA SamePlic ==
    /\ P!Init => PP!Init
    /\ \A id, lvl : P!SetLevelHostRead(id, lvl) => PP!SetLevelHostRead(id, lvl)
    /\ P!SetLevelHostApply => PP!SetLevelHostApply
    /\ \A id, lvl : P!SetLevelFromCpu(id, lvl) => PP!SetLevelFromCpu(id, lvl)
    /\ \A id, v : P!PriorityWrite(id, v) => PP!PriorityWrite(id, v)
    /\ \A c, v : P!ContextEnableWrite(c, v) => PP!ContextEnableWrite(c, v)
    /\ \A c : P!ContextClaim(c) => PP!ContextClaim(c)
    /\ \A c, v : P!ContextComplete(c, v) => PP!ContextComplete(c, v)
<1>1. P!Init => PP!Init
  BY DEF P!Init, PP!Init, P!Sources, PP!Sources, P!Contexts, PP!Contexts, P!None, PP!None
<1>2. \A id, lvl : P!SetLevelHostRead(id, lvl) => PP!SetLevelHostRead(id, lvl)
  BY DEF P!SetLevelHostRead, PP!SetLevelHostRead
<1>3. P!SetLevelHostApply => PP!SetLevelHostApply
  BY SameSetLevel DEF P!SetLevelHostApply, PP!SetLevelHostApply, P!None, PP!None
<1>4. \A id, lvl : P!SetLevelFromCpu(id, lvl) => PP!SetLevelFromCpu(id, lvl)
  BY SameSetLevel DEF P!SetLevelFromCpu, PP!SetLevelFromCpu
<1>5. \A id, v : P!PriorityWrite(id, v) => PP!PriorityWrite(id, v)
  BY DEF P!PriorityWrite, PP!PriorityWrite
<1>6. \A c, v : P!ContextEnableWrite(c, v) => PP!ContextEnableWrite(c, v)
  BY SameUpdate, SameLatch DEF P!ContextEnableWrite, PP!ContextEnableWrite
<1>7. \A c : P!ContextClaim(c) => PP!ContextClaim(c)
  BY SameUpdate, SameBest DEF P!ContextClaim, PP!ContextClaim
<1>8. \A c, v : P!ContextComplete(c, v) => PP!ContextComplete(c, v)
  BY SameUpdate DEF P!ContextComplete, PP!ContextComplete
<1> QED BY <1>1, <1>2, <1>3, <1>4, <1>5, <1>6, <1>7, <1>8

LEMMA SameTrap ==
    /\ H!AnyDeliverable = HP!AnyDeliverable
    /\ H!AnyDeliverable' = HP!AnyDeliverable'
    /\ \A b : H!TakeInterrupt(b) <=> HP!TakeInterrupt(b)
    /\ \A c : H!Raise(c) <=> HP!Raise(c)
BY DEF H!TakeInterrupt, HP!TakeInterrupt, H!First, HP!First, H!Deliverable, HP!Deliverable,
       H!SEnabled, HP!SEnabled, H!MEnabled, HP!MEnabled, H!M, HP!M, H!S, HP!S, H!U, HP!U,
       H!Rank, HP!Rank, H!HandleTrap, HP!HandleTrap, H!Delegated, HP!Delegated,
       H!TrapToM, HP!TrapToM, H!TrapToS, HP!TrapToS, H!EndIteration, HP!EndIteration,
       H!AnyDeliverable, HP!AnyDeliverable, H!Raise, HP!Raise, H!masks, HP!masks

LEMMA SameHart ==
    /\ H!Init => HP!Init
    /\ H!MipMoves => HP!MipMoves
    /\ H!Top => HP!Top
    /\ H!WfiPoll => HP!WfiPoll
    /\ H!WfiCheck => HP!WfiCheck
    /\ H!Plain => HP!Plain
    /\ H!Mret => HP!Mret
    /\ H!Sret => HP!Sret
    /\ H!Wfi => HP!Wfi
    /\ \A v : H!CsrWrite(H!M, H!MidelegWrite(v)) => HP!CsrWrite(HP!M, HP!MidelegWrite(v))
    /\ \A v : H!CsrWrite(H!M, H!MepcWrite(v)) => HP!CsrWrite(HP!M, HP!MepcWrite(v))
    /\ \A v : H!CsrWrite(H!M, H!MstatusWrite(v)) => HP!CsrWrite(HP!M, HP!MstatusWrite(v))
    /\ \A v : H!CsrWrite(H!S, H!SieWrite(v)) => HP!CsrWrite(HP!S, HP!SieWrite(v))
    /\ \A v : H!CsrWrite(H!S, H!SstatusWrite(v)) => HP!CsrWrite(HP!S, HP!SstatusWrite(v))
<1> USE DEF H!M, HP!M, H!S, HP!S, H!U, HP!U, H!masks, HP!masks, H!state, HP!state,
            H!EndIteration, HP!EndIteration
<1>1. H!Init => HP!Init
  BY DEF H!Init, HP!Init
<1>2. H!MipMoves => HP!MipMoves
  BY SameTrap DEF H!MipMoves, HP!MipMoves
<1>3. (H!Top => HP!Top) /\ (H!WfiPoll => HP!WfiPoll) /\ (H!WfiCheck => HP!WfiCheck)
  BY SameTrap DEF H!Top, HP!Top, H!WfiPoll, HP!WfiPoll, H!WfiCheck, HP!WfiCheck,
                  H!CheckInterrupts, HP!CheckInterrupts, H!GoExecute, HP!GoExecute
<1> USE DEF H!CountInstruction, HP!CountInstruction, H!Privileged, HP!Privileged
<1>4. H!Plain => HP!Plain
  BY SameTrap DEF H!Plain, HP!Plain
<1>5. (H!Mret => HP!Mret) /\ (H!Sret => HP!Sret)
  BY SameTrap DEF H!Mret, HP!Mret, H!MretReturns, HP!MretReturns,
                  H!Sret, HP!Sret, H!SretReturns, HP!SretReturns
<1>6. H!Wfi => HP!Wfi
  BY SameTrap DEF H!Wfi, HP!Wfi, H!WfiWaits, HP!WfiWaits
<1> USE DEF H!CsrWrite, HP!CsrWrite, H!MaskWrite, HP!MaskWrite, H!MachineLines, HP!MachineLines
<1>7. \A v : H!CsrWrite(H!M, H!MidelegWrite(v)) => HP!CsrWrite(HP!M, HP!MidelegWrite(v))
  BY SameTrap DEF H!MidelegWrite, HP!MidelegWrite
<1>8. \A v : H!CsrWrite(H!M, H!MepcWrite(v)) => HP!CsrWrite(HP!M, HP!MepcWrite(v))
  BY SameTrap DEF H!MepcWrite, HP!MepcWrite
<1>9. \A v : H!CsrWrite(H!M, H!MstatusWrite(v)) => HP!CsrWrite(HP!M, HP!MstatusWrite(v))
  BY SameTrap DEF H!MstatusWrite, HP!MstatusWrite
<1>10. \A v : H!CsrWrite(H!S, H!SieWrite(v)) => HP!CsrWrite(HP!S, HP!SieWrite(v))
  BY SameTrap DEF H!SieWrite, HP!SieWrite
<1>11. \A v : H!CsrWrite(H!S, H!SstatusWrite(v)) => HP!CsrWrite(HP!S, HP!SstatusWrite(v))
  BY SameTrap DEF H!SstatusWrite, HP!SstatusWrite
<1> QED BY <1>1, <1>2, <1>3, <1>4, <1>5, <1>6, <1>7, <1>8, <1>9, <1>10, <1>11

-----------------------------------------------------------------------------
(* The invariant of the guest's part: where it is in its code decides its  *)
(* privilege, its masks and what it has claimed.                           *)

InM == {"mideleg", "mepc", "mstatus", "mret"}

\* irq holds a source from its claim to its completion, and what the PLIC has
\* in service for the guest is that source.
GuestInv ==
    /\ accessed \in BOOLEAN /\ irq \in 0 .. NumIds - 1 /\ lowered \in BOOLEAN
    /\ accessed => pc \in {"priority", "enable", "claim", "device", "complete"}
    /\ irq # 0 => \/ pc = "claim" /\ accessed
                  \/ pc = "device"
                  \/ pc = "complete" /\ ~accessed
    /\ pc = "device" => irq # 0
    /\ ctx[1].claimed \subseteq {irq}
    /\ ctx[1].threshold = 0

\* S-mode takes interrupts only in the idle loop, so that a handler returns
\* there.
ModeInv ==
    /\ priv = IF pc \in InM THEN 3 ELSE 1
    /\ pc = "mret" => ms.MPP = 1
    /\ mie = IF pc \in InM \cup {"sie"} THEN {} ELSE {"SEIP"}
    /\ pc # "mideleg" => mideleg = {"SEIP"}
    /\ ms.TSR = FALSE /\ ms.TW = FALSE
    /\ pc \notin Idle => ms.SIE = FALSE
    /\ pc \in Handler => ms.SPP = 1 /\ sepc \in Idle

\* The hart sees what the PLIC drives, and from the trap to the claim a request
\* is latched unless a device took one back.
CauseInv ==
    /\ mip = Pins(eip)
    /\ pc \in Idle \cup Handler \cup {"enable", "sstatus"} =>
         \A id \in P!Sources : priority[id] # 0
    /\ pc = "claim" /\ accessed = FALSE => lowered = TRUE \/ ctx[1].pending # {}

IInv == PP!IInv /\ HP!IInv /\ GuestInv /\ ModeInv /\ CauseInv

\* The types the steps below need.
LEMMA Types ==
    ASSUME IInv
    PROVE  /\ ms \in HP!Mstatus /\ pc \in PCs /\ mepc \in PCs /\ sepc \in PCs
           /\ ctx[1] \in PP!Context
           /\ priority \in [P!Sources -> PP!Priority]
           /\ \A id \in P!Sources : priority[id] \in Nat
           /\ raising.id # 0 => raising.id \in P!Sources
           /\ raising.lvl \in BOOLEAN /\ raising.prio \in PP!Priority
           /\ eip \in [{0, 1} -> BOOLEAN]
           /\ P!Sources \subseteq Nat /\ 0 \notin P!Sources
<1>1. ms \in HP!Mstatus /\ pc \in PCs /\ mepc \in PCs /\ sepc \in PCs
  BY DEF IInv, HP!IInv, HP!StateOK
<1>2. PP!TypeOK
  BY DEF IInv, PP!IInv
<1>3. ctx[1] \in PP!Context /\ eip \in [{0, 1} -> BOOLEAN]
  BY <1>2 DEF PP!TypeOK, PP!Contexts
<1>4. /\ priority \in [P!Sources -> PP!Priority]
      /\ \A id \in P!Sources : priority[id] \in Nat
  BY <1>2, PlicConstants, SameSources DEF PP!TypeOK, PP!Priority
<1>5. /\ raising.id # 0 => raising.id \in P!Sources
      /\ raising.lvl \in BOOLEAN /\ raising.prio \in PP!Priority
  BY <1>2, PlicConstants DEF PP!TypeOK, PP!Raise, P!Sources
<1>6. P!Sources \subseteq Nat /\ 0 \notin P!Sources
  BY PlicConstants DEF P!Sources
<1> QED BY <1>1, <1>3, <1>4, <1>5, <1>6

-----------------------------------------------------------------------------
(* What the steps of the PLIC do to the context of S-mode.                 *)

LEMMA SetLevelContext ==
    ASSUME IInv, NEW id \in P!Sources, NEW lvl \in BOOLEAN, NEW prio \in PP!Priority,
           P!SetLevelLocked(id, lvl, prio)
    PROVE  /\ ctx'[1].claimed \subseteq ctx[1].claimed
           /\ ctx'[1].threshold = ctx[1].threshold
           /\ lvl => ctx[1].pending \subseteq ctx'[1].pending
           /\ priority' = priority
<1>0. PP!TypeOK /\ PP!LineIsCurrent /\ \A c \in PP!Contexts : ctx[c] \in PP!Context
  BY DEF IInv, PP!IInv, PP!TypeOK
<1>1. PP!SetLevelLocked(id, lvl, prio)
  BY SameSetLevel
<1>2. ASSUME NEW c \in PP!Contexts,
             PP!ContextUpdate(c, IF lvl
                                 THEN PP!Latch(ctx[c], {id}, [i \in PP!Sources |-> prio])
                                 ELSE PP!Drop(ctx[c], {id}))
      PROVE  /\ ctx'[1].claimed \subseteq ctx[1].claimed
             /\ ctx'[1].threshold = ctx[1].threshold
             /\ lvl => ctx[1].pending \subseteq ctx'[1].pending
  <2> DEFINE flat == [i \in PP!Sources |-> prio]
             one == {id}
             old == ctx[c]
             k == IF lvl THEN PP!Latch(old, one, flat) ELSE PP!Drop(old, one)
  <2>1. /\ one \in SUBSET PP!Sources /\ flat \in [PP!Sources -> PP!Priority]
        /\ old \in PP!Context
    BY <1>0, SameSources
  <2>2. PP!ContextUpdate(c, k)
    BY <1>2
  <2> HIDE DEF flat, one, old
  <2>3. /\ k \in PP!Context /\ k.claimed \subseteq old.claimed
        /\ k.threshold = old.threshold
        /\ lvl => old.pending \subseteq k.pending
    <3>1. CASE lvl
      <4>1. k = PP!Latch(old, one, flat)
        BY <3>1
      <4> HIDE DEF k
      <4>2. /\ PP!Latch(old, one, flat) \in PP!Context
            /\ PP!Latch(old, one, flat).pending = old.pending \cup one
            /\ PP!Latch(old, one, flat).claimed = old.claimed
            /\ PP!Latch(old, one, flat).threshold = old.threshold
        BY <2>1, PlicConstants, PP!LatchFields
      <4> QED BY <4>1, <4>2
    <3>2. CASE ~lvl
      BY <2>1, <3>2, PlicConstants, PP!DropFields
    <3> QED BY <3>1, <3>2
  <2> HIDE DEF k
  <2>4. ctx'[c] = k /\ \A d \in PP!Contexts \ {c} : ctx'[d] = ctx[d]
    BY <1>0, <2>2, <2>3, PlicConstants, PP!UpdateFrame
  <2>5. CASE c = 1
    BY <2>3, <2>4, <2>5 DEF old
  <2>6. CASE c # 1
    BY <2>4, <2>6 DEF PP!Contexts
  <2> QED BY <2>5, <2>6
<1>3. CASE UNCHANGED <<ctx, eip>>
  BY <1>1, <1>3 DEF PP!SetLevelLocked
<1> QED BY <1>1, <1>2, <1>3 DEF PP!SetLevelLocked

\* The guest's own accesses: the enable write of the boot, claim, complete.
LEMMA RegisterContext ==
    ASSUME IInv
    PROVE  /\ P!ContextEnableWrite(1, P!Sources) =>
                 /\ ctx'[1].claimed \subseteq ctx[1].claimed
                 /\ ctx'[1].threshold = ctx[1].threshold
           /\ P!ContextClaim(1) =>
                 /\ ctx'[1].claimed \subseteq ctx[1].claimed \cup ({P!BestPending(ctx[1])} \ {0})
                 /\ ctx'[1].threshold = ctx[1].threshold
           /\ \A v : P!ContextComplete(1, v) =>
                 /\ ctx'[1].claimed = ctx[1].claimed \ {v}
                 /\ ctx'[1].threshold = ctx[1].threshold
<1>0. /\ ctx \in [{0, 1} -> PP!Context] /\ ctx[1] \in PP!Context
  BY DEF IInv, PP!IInv, PP!TypeOK, PP!Contexts
<1>1. \A k : P!ContextUpdate(1, k) => ctx'[1] = k
  BY <1>0 DEF P!ContextUpdate
<1>2. ASSUME P!ContextEnableWrite(1, P!Sources)
      PROVE  /\ ctx'[1].claimed \subseteq ctx[1].claimed
             /\ ctx'[1].threshold = ctx[1].threshold
  <2> DEFINE new == P!Sources \ {0}
             on  == (new \ ctx[1].enable) \cap level
             off == ctx[1].enable \ new
             k0  == [ctx[1] EXCEPT !.enable = new]
             k1  == PP!Latch(k0, on, priority)
             k2  == PP!Drop(k1, off)
  <2>1. ctx'[1] = k2
    BY <1>1, <1>2, SameLatch DEF P!ContextEnableWrite
  <2>2. /\ new \in SUBSET PP!Sources /\ on \in SUBSET PP!Sources /\ off \in SUBSET PP!Sources
        /\ priority \in [PP!Sources -> PP!Priority]
    BY <1>0, SameSources, Types DEF PP!Context
  <2>3. k0 \in PP!Context /\ k0.claimed = ctx[1].claimed /\ k0.threshold = ctx[1].threshold
    BY <1>0, <2>2 DEF PP!Context
  <2> HIDE DEF on, off, k0
  <2>4. k1 \in PP!Context /\ k1.claimed = k0.claimed /\ k1.threshold = k0.threshold
    BY <2>2, <2>3, PlicConstants, PP!LatchFields
  <2> HIDE DEF k1
  <2>5. k2.claimed = k1.claimed \ off /\ k2.threshold = k1.threshold
    BY <2>2, <2>4, PlicConstants, PP!DropFields
  <2> HIDE DEF k2
  <2> QED BY <2>1, <2>3, <2>4, <2>5
<1>3. ASSUME P!ContextClaim(1)
      PROVE  /\ ctx'[1].claimed \subseteq ctx[1].claimed \cup ({P!BestPending(ctx[1])} \ {0})
             /\ ctx'[1].threshold = ctx[1].threshold
  BY <1>0, <1>1, <1>3 DEF P!ContextClaim, PP!Context
<1>4. ASSUME NEW v, P!ContextComplete(1, v)
      PROVE  /\ ctx'[1].claimed = ctx[1].claimed \ {v}
             /\ ctx'[1].threshold = ctx[1].threshold
  BY <1>0, <1>1, <1>4 DEF P!ContextComplete, PP!Context
<1> QED BY <1>2, <1>3, <1>4

-----------------------------------------------------------------------------
(* Every step of the path is a step of the hart, and one of the PLIC or    *)
(* none.                                                                   *)

LEMMA HartStep == ASSUME IInv, Next PROVE HP!Next
<1>0. HP!Next <=> HP!Cpu \/ HP!MipMoves
  BY DEF HP!Next
<1>1. CASE Check
  BY <1>0, <1>1, SameHart DEF Check, HP!Cpu
<1>2. CASE BootInM
  <2>1. ASSUME NEW v \in SUBSET {"MEIP", "SEIP"}, H!CsrWrite(H!M, H!MidelegWrite(v)) PROVE HP!Csr
    BY <2>1, SameHart DEF HP!Csr
  <2>2. ASSUME H!CsrWrite(H!M, H!MepcWrite("sie")) PROVE HP!Csr
    <3>1. "sie" \in PCs
      BY DEF PCs, Boot
    <3> QED BY <2>2, <3>1, SameHart DEF HP!Csr
  <2>3. ASSUME H!CsrWrite(H!M, H!MstatusWrite([ms EXCEPT !.MPP = H!S])) PROVE HP!Csr
    <3> DEFINE v == [ms EXCEPT !.MPP = H!S]
    <3>1. v \in H!Mstatus
      BY Types DEF H!Mstatus, HP!Mstatus, H!S, HP!S, H!U, HP!U
    <3> HIDE DEF v
    <3>2. HP!CsrWrite(HP!M, HP!MstatusWrite(v))
      BY <2>3, SameHart DEF v
    <3> QED BY <3>1, <3>2 DEF HP!Csr
  <2>4. ASSUME H!Mret PROVE HP!Cpu
    BY <2>4, SameHart DEF HP!Cpu
  <2> QED BY <1>0, <1>2, <2>1, <2>2, <2>3, <2>4 DEF BootInM, Run, HP!Cpu
<1>3. ASSUME NEW p, NEW q, Retire(p, q) PROVE HP!Next
  BY <1>0, <1>3, SameHart DEF Retire, HP!Cpu
<1>4. H!MipMoves => HP!Next
  BY <1>0, SameHart
<1>5. CASE BootInS
  <2>1. ASSUME H!CsrWrite(H!S, H!SieWrite({"SEIP"})) PROVE HP!Csr
    <3>1. {"SEIP"} \in SUBSET {"MEIP", "SEIP"}
      OBVIOUS
    <3>2. HP!CsrWrite(HP!S, HP!SieWrite({"SEIP"}))
      BY <2>1, SameHart
    <3> QED BY <3>1, <3>2 DEF HP!Csr
  <2>2. ASSUME H!CsrWrite(H!S, H!SstatusWrite([ms EXCEPT !.SIE = TRUE])) PROVE HP!Csr
    <3> DEFINE v == [ms EXCEPT !.SIE = TRUE]
    <3>1. v \in H!Mstatus
      BY Types DEF H!Mstatus, HP!Mstatus, H!S, HP!S, H!U, HP!U
    <3> HIDE DEF v
    <3>2. HP!CsrWrite(HP!S, HP!SstatusWrite(v))
      BY <2>2, SameHart DEF v
    <3> QED BY <3>1, <3>2 DEF HP!Csr
  <2> QED BY <1>0, <1>3, <1>4, <1>5, <2>1, <2>2 DEF BootInS, Run, Access, Drive, HP!Cpu
<1>6. CASE IdleLoop
  BY <1>0, <1>6, SameHart DEF IdleLoop, Run, HP!Cpu
<1>7. CASE HandlerCode
  <2>1. H!Sret => HP!Next
    BY <1>0, SameHart DEF HP!Cpu
  <2> QED BY <1>3, <1>4, <1>7, <2>1 DEF HandlerCode, Run, Access, Drive
<1>8. CASE Host
  BY <1>4, <1>8 DEF Host, HostApply, HostRead, Drive
<1> QED BY <1>1, <1>2, <1>5, <1>6, <1>7, <1>8 DEF Next, Cpu

LEMMA PlicStep == ASSUME IInv, Next PROVE PP!Next \/ UNCHANGED PP!vars
<1>0. UNCHANGED plic => UNCHANGED PP!vars
  BY DEF plic, PP!vars
<1>1. CASE Check
  BY <1>0, <1>1 DEF Check
<1>2. CASE BootInM
  BY <1>0, <1>2 DEF BootInM, Run
<1>3. ASSUME NEW p, NEW q, Retire(p, q) PROVE UNCHANGED plic
  BY <1>3 DEF Retire
<1>4. CASE BootInS
  <2>1. ASSUME NEW id \in P!Sources, P!PriorityWrite(id, 1) PROVE PP!Next
    <3>1. 1 \in 0 .. 2^PrioBits
      BY PlicConstants
    <3> QED BY <2>1, <3>1, SamePlic, SameSources DEF PP!Next, PP!Guest
  <2>2. ASSUME P!ContextEnableWrite(1, P!Sources) PROVE PP!Next
    <3>1. P!Sources \in SUBSET (0 .. NumIds - 1) /\ 1 \in PP!Contexts
      BY PlicConstants DEF P!Sources, PP!Contexts
    <3>2. PP!ContextEnableWrite(1, P!Sources)
      BY <2>2, SamePlic
    <3> QED BY <3>1, <3>2 DEF PP!Next, PP!Guest
  <2> QED BY <1>0, <1>3, <1>4, <2>1, <2>2 DEF BootInS, Run, Access, Drive
<1>5. CASE IdleLoop
  BY <1>0, <1>5 DEF IdleLoop, Run
<1>6. CASE HandlerCode
  <2>0. 1 \in PP!Contexts
    BY DEF PP!Contexts
  <2>1. ASSUME P!ContextClaim(1) PROVE PP!Next
    BY <2>0, <2>1, SamePlic DEF PP!Next, PP!Guest
  <2>2. ASSUME pc = "device", P!SetLevelFromCpu(irq, FALSE) PROVE PP!Next
    <3>1. irq \in PP!Sources
      BY <2>2, PlicConstants DEF IInv, GuestInv, PP!Sources
    <3>2. PP!SetLevelFromCpu(irq, FALSE)
      BY <2>2, SamePlic
    <3> QED BY <3>1, <3>2 DEF PP!Next, PP!Device
  <2>3. ASSUME P!ContextComplete(1, irq) PROVE PP!Next
    <3>1. irq \in PP!Sources
      BY <2>3, Types DEF P!ContextComplete, PP!Context
    <3>2. PP!ContextComplete(1, irq)
      BY <2>3, SamePlic
    <3> QED BY <2>0, <3>1, <3>2 DEF PP!Next, PP!Guest
  <2> QED BY <1>0, <1>3, <1>6, <2>1, <2>2, <2>3 DEF HandlerCode, Run, Access, Drive
<1>7. CASE Host
  <2>1. ASSUME NEW id \in P!Sources, NEW lvl \in BOOLEAN, P!SetLevelHostRead(id, lvl) PROVE PP!Next
    BY <2>1, SamePlic, SameSources DEF PP!Next, PP!Device
  <2>2. ASSUME P!SetLevelHostApply PROVE PP!Next
    BY <2>2, SamePlic DEF PP!Next, PP!Device
  <2> QED BY <1>7, <2>1, <2>2 DEF Host, HostApply, HostRead, Drive
<1> QED BY <1>1, <1>2, <1>4, <1>5, <1>6, <1>7 DEF Next, Cpu

-----------------------------------------------------------------------------
(* What the steps of the hart do to the guest.                             *)

\* A line moves and nothing else of the hart.
LEMMA LinesMove ==
    ASSUME H!MipMoves
    PROVE  UNCHANGED <<priv, ms, pc, mepc, sepc, mie, mideleg>>
BY DEF H!MipMoves, H!state, H!masks

\* check_interrupts either goes on or takes SEIP from the idle loop into the
\* handler.
LEMMA CheckEffect ==
    ASSUME IInv, Check
    PROVE  /\ UNCHANGED <<plic, accessed, irq, mie, mideleg, mip>> /\ lowered' \in BOOLEAN
           /\ \/ UNCHANGED <<priv, ms, pc, mepc, sepc, lowered>>
              \/ /\ pc \in Idle /\ pc' = "claim" /\ priv' = 1 /\ sepc' = pc
                 /\ "SEIP" \in mip
                 /\ ms' = [ms EXCEPT !.SPIE = ms.SIE, !.SPP = 1, !.SIE = FALSE]
<1>1. /\ UNCHANGED <<plic, accessed, irq>>
      /\ ms' = ms \/ pc' = "claim"
      /\ lowered' = (lowered /\ ms' = ms)
      /\ lowered \in BOOLEAN
  BY DEF Check, IInv, GuestInv
<1>2. UNCHANGED <<mie, mideleg, mip>>
  BY DEF Check, H!Top, H!WfiPoll, H!WfiCheck, H!CheckInterrupts, H!masks
<1>3. \/ UNCHANGED <<priv, ms, pc, mepc, sepc>>
      \/ \E b \in {"MEIP", "SEIP"} : H!TakeInterrupt(b)
  BY DEF Check, H!Top, H!WfiPoll, H!WfiCheck, H!CheckInterrupts, H!state
<1>4. ASSUME NEW b \in {"MEIP", "SEIP"}, H!TakeInterrupt(b)
      PROVE  /\ pc \in Idle /\ pc' = "claim" /\ priv' = 1 /\ sepc' = pc /\ "SEIP" \in mip
             /\ ms' = [ms EXCEPT !.SPIE = ms.SIE, !.SPP = 1, !.SIE = FALSE]
  <2>1. /\ b \in mip /\ b \in mie
        /\ b \in mideleg => H!SEnabled
        /\ H!HandleTrap(pc, b, mideleg)
    BY <1>4 DEF H!TakeInterrupt, H!First, H!Deliverable
  <2>2. b = "SEIP" /\ pc \notin InM /\ pc # "mideleg"
    BY <2>1 DEF IInv, ModeInv, InM
  <2>3. priv = 1 /\ mideleg = {"SEIP"} /\ H!SEnabled
    BY <2>1, <2>2 DEF IInv, ModeInv
  <2>4. ms.SIE # FALSE /\ pc \in Idle
    <3>1. ms.SIE
      BY <2>3 DEF H!SEnabled, H!S
    <3>2. pc \notin Idle => ms.SIE = FALSE
      BY DEF IInv, ModeInv
    <3> QED BY <3>1, <3>2
  <2>5. H!TrapToS(pc)
    BY <2>1, <2>2, <2>3 DEF H!HandleTrap, H!Delegated, H!S
  <2>6. /\ priv' = 1 /\ sepc' = pc
        /\ ms' = [ms EXCEPT !.SPIE = ms.SIE, !.SPP = 1, !.SIE = FALSE]
    BY <2>3, <2>5 DEF H!TrapToS, H!S
  <2>7. ms'.SIE = FALSE
    BY <2>6, Types DEF HP!Mstatus
  <2> QED BY <1>1, <2>1, <2>2, <2>4, <2>6, <2>7
<1>5. UNCHANGED ms => UNCHANGED lowered
  BY <1>1
<1> QED BY <1>1, <1>2, <1>3, <1>4, <1>5

\* The instructions of the boot in M.
LEMMA BootInMEffect ==
    ASSUME IInv, BootInM
    PROVE  /\ UNCHANGED <<plic, guest, mie, mip, sepc>>
           /\ \/ pc = "mideleg" /\ pc' = "mepc" /\ mideleg' = {"SEIP"} /\ UNCHANGED <<priv, ms>>
              \/ pc = "mepc" /\ pc' = "mstatus" /\ UNCHANGED <<priv, ms, mideleg>>
              \/ /\ pc = "mstatus" /\ pc' = "mret" /\ UNCHANGED <<priv, mideleg>>
                 /\ ms' = [ms EXCEPT !.MPP = 1]
              \/ /\ pc = "mret" /\ pc' = "sie" /\ UNCHANGED mideleg /\ priv' = 1
                 /\ ms'.SIE = ms.SIE /\ ms'.TSR = ms.TSR /\ ms'.TW = ms.TW
<1>0. UNCHANGED <<plic, guest>> /\ pc \in InM /\ priv = 3
  BY DEF BootInM, Run, InM, IInv, ModeInv
<1> USE DEF H!CsrWrite, H!Privileged, H!M, H!S, H!MaskWrite, H!masks
<1>1. ASSUME Run("mideleg", H!CsrWrite(H!M, H!MidelegWrite({"SEIP"})), "mepc")
      PROVE  /\ UNCHANGED <<mie, mip, sepc, priv, ms>> /\ mideleg' = {"SEIP"}
             /\ pc = "mideleg" /\ pc' = "mepc"
  BY <1>0, <1>1 DEF Run, H!MidelegWrite, H!MachineLines
<1>2. ASSUME Run("mepc", H!CsrWrite(H!M, H!MepcWrite("sie")), "mstatus")
      PROVE  /\ UNCHANGED <<mie, mip, sepc, priv, ms, mideleg>>
             /\ pc = "mepc" /\ pc' = "mstatus"
  BY <1>0, <1>2 DEF Run, H!MepcWrite
<1>3. ASSUME Run("mstatus", H!CsrWrite(H!M, H!MstatusWrite([ms EXCEPT !.MPP = H!S])), "mret")
      PROVE  /\ UNCHANGED <<mie, mip, sepc, priv, mideleg>> /\ ms' = [ms EXCEPT !.MPP = 1]
             /\ pc = "mstatus" /\ pc' = "mret"
  BY <1>0, <1>3 DEF Run, H!MstatusWrite
<1>4. ASSUME Run("mret", H!Mret, "sie")
      PROVE  /\ UNCHANGED <<mie, mip, sepc, mideleg>> /\ priv' = 1
             /\ ms'.SIE = ms.SIE /\ ms'.TSR = ms.TSR /\ ms'.TW = ms.TW
             /\ pc = "mret" /\ pc' = "sie"
  <2>1. pc = "mret" /\ pc' = "sie" /\ H!MretReturns
    BY <1>0, <1>4 DEF Run, H!Mret
  <2>2. ms.MPP = 1
    BY <2>1 DEF IInv, ModeInv
  <2>3. ms'.SIE = ms.SIE /\ ms'.TSR = ms.TSR /\ ms'.TW = ms.TW
    BY <2>1, Types DEF H!MretReturns, HP!Mstatus
  <2> QED BY <2>1, <2>2, <2>3 DEF H!MretReturns
<1> QED BY <1>0, <1>1, <1>2, <1>3, <1>4 DEF BootInM

\* The other instructions that do not access a device.
LEMMA RunEffect ==
    ASSUME IInv
    PROVE  /\ Run("sie", H!CsrWrite(H!S, H!SieWrite({"SEIP"})), "priority") =>
                 UNCHANGED <<mip, sepc, priv, ms, mideleg>> /\ mie' = {"SEIP"}
           /\ Run("sstatus", H!CsrWrite(H!S, H!SstatusWrite([ms EXCEPT !.SIE = TRUE])), "wfi") =>
                 /\ UNCHANGED <<mip, sepc, priv, mideleg, mie>>
                 /\ ms'.TSR = ms.TSR /\ ms'.TW = ms.TW
           /\ IdleLoop => UNCHANGED <<mip, sepc, priv, mideleg, mie, ms>>
           /\ Run("sret", H!Sret, sepc) =>
                 /\ UNCHANGED <<mip, sepc, mideleg, mie>> /\ priv' = 1
                 /\ ms'.TSR = ms.TSR /\ ms'.TW = ms.TW
<1> USE DEF H!CsrWrite, H!Privileged, H!M, H!S, H!U, H!MaskWrite, H!masks
<1>0. pc \notin InM => priv = 1 /\ ms.TSR = FALSE /\ ms.TW = FALSE
  BY DEF IInv, ModeInv
<1>1. ASSUME Run("sie", H!CsrWrite(H!S, H!SieWrite({"SEIP"})), "priority")
      PROVE  UNCHANGED <<mip, sepc, priv, ms, mideleg>> /\ mie' = {"SEIP"}
  <2>1. pc = "sie" /\ priv = 1
    BY <1>0, <1>1 DEF Run, InM
  <2> QED BY <1>1, <2>1 DEF Run, H!SieWrite, H!MachineLines
<1>2. ASSUME Run("sstatus", H!CsrWrite(H!S, H!SstatusWrite([ms EXCEPT !.SIE = TRUE])), "wfi")
      PROVE  /\ UNCHANGED <<mip, sepc, priv, mideleg, mie>>
             /\ ms'.TSR = ms.TSR /\ ms'.TW = ms.TW
  <2>1. pc = "sstatus" /\ priv = 1
    BY <1>0, <1>2 DEF Run, InM
  <2>2. H!SstatusWrite([ms EXCEPT !.SIE = TRUE]) /\ UNCHANGED <<priv, mip>>
    BY <1>2, <2>1 DEF Run
  <2> QED BY <2>2, Types DEF H!SstatusWrite, HP!Mstatus
<1>3. ASSUME IdleLoop
      PROVE  UNCHANGED <<mip, sepc, priv, mideleg, mie, ms>>
  <2>1. pc \in Idle /\ priv = 1 /\ ms.TW = FALSE
    BY <1>0, <1>3 DEF IdleLoop, Run, InM, Idle
  <2> QED BY <1>3, <2>1 DEF IdleLoop, Run, H!Wfi, H!WfiWaits, H!Plain
<1>4. ASSUME Run("sret", H!Sret, sepc)
      PROVE  /\ UNCHANGED <<mip, sepc, mideleg, mie>> /\ priv' = 1
             /\ ms'.TSR = ms.TSR /\ ms'.TW = ms.TW
  <2>1. pc = "sret" /\ priv = 1 /\ ms.TSR = FALSE
    BY <1>0, <1>4 DEF Run, InM
  <2>2. H!SretReturns
    BY <1>4, <2>1 DEF Run, H!Sret
  <2>3. ms.SPP = 1
    BY <2>1 DEF IInv, ModeInv, Handler
  <2> QED BY <2>2, <2>3, Types DEF H!SretReturns, HP!Mstatus
<1> QED BY <1>1, <1>2, <1>3, <1>4

-----------------------------------------------------------------------------
(* ... and so the guest's invariant is kept.                               *)

LEMMA ModeRests ==
    ASSUME IInv, UNCHANGED <<priv, ms, pc, sepc, mie, mideleg>>
    PROVE  ModeInv'
BY DEF IInv, ModeInv

\* Device accesses and the host thread: the guest's code does not move on.
LEMMA DriveKeeps ==
    ASSUME IInv, \/ Host
                 \/ \E id \in P!Sources : /\ priority[id] = 0
                                          /\ Access("priority", P!PriorityWrite(id, 1))
                                          /\ UNCHANGED irq
                 \/ Access("enable", P!ContextEnableWrite(1, P!Sources)) /\ UNCHANGED irq
                 \/ Access("claim", P!ContextClaim(1)) /\ irq' = P!BestPending(ctx[1])
                 \/ Access("device", P!SetLevelFromCpu(irq, FALSE)) /\ UNCHANGED irq
                 \/ Access("complete", P!ContextComplete(1, irq)) /\ irq' = 0
    PROVE  GuestInv' /\ ModeInv' /\ CauseInv'
<1>0. UNCHANGED <<priv, ms, pc, sepc, mie, mideleg>> /\ mip' = Pins(eip')
  BY LinesMove DEF Host, HostRead, HostApply, Access, Drive
<1>1. ModeInv'
  BY <1>0, ModeRests
<1>2. GuestInv /\ CauseInv
  BY DEF IInv
<1> DEFINE Prios == pc \in Idle \cup Handler \cup {"enable", "sstatus"} =>
                      \A id \in P!Sources : priority'[id] # 0
<1>3. UNCHANGED priority => Prios
  BY <1>2 DEF CauseInv
<1>4. ASSUME NEW id \in P!Sources, NEW lvl \in BOOLEAN, HostRead(id, lvl)
      PROVE  GuestInv' /\ CauseInv'
  <2>1. UNCHANGED <<ctx, eip, priority, accessed, irq, lowered>>
    BY <1>4 DEF HostRead, Drive, P!SetLevelHostRead, guest
  <2> QED BY <1>0, <1>2, <2>1 DEF GuestInv, CauseInv
<1>5. CASE HostApply
  <2>1. /\ P!SetLevelLocked(raising.id, raising.lvl, raising.prio) /\ raising.id # 0
        /\ lowered' = (lowered \/ ~raising.lvl) /\ UNCHANGED <<accessed, irq>>
    BY <1>5 DEF HostApply, Drive, P!SetLevelHostApply
  <2>2. raising.id \in P!Sources /\ raising.lvl \in BOOLEAN /\ raising.prio \in PP!Priority
    BY <2>1, Types
  <2>3. /\ ctx'[1].claimed \subseteq ctx[1].claimed
        /\ ctx'[1].threshold = ctx[1].threshold
        /\ raising.lvl => ctx[1].pending \subseteq ctx'[1].pending
        /\ priority' = priority
    BY <2>1, <2>2, SetLevelContext
  <2>4. GuestInv'
    <3>1. lowered' \in BOOLEAN
      BY <2>1
    <3> QED BY <1>0, <1>2, <2>1, <2>3, <3>1 DEF GuestInv
  <2>5. pc = "claim" /\ accessed = FALSE => lowered' = TRUE \/ ctx'[1].pending # {}
    <3>1. CASE raising.lvl = TRUE
      BY <1>2, <2>1, <2>3, <3>1 DEF CauseInv
    <3>2. CASE raising.lvl = FALSE
      BY <2>1, <3>2
    <3> QED BY <2>2, <3>1, <3>2
  <2> QED BY <1>0, <1>1, <1>3, <2>1, <2>3, <2>4, <2>5 DEF CauseInv
<1>6. ASSUME NEW id \in P!Sources, Access("priority", P!PriorityWrite(id, 1)), UNCHANGED irq
      PROVE  GuestInv' /\ CauseInv'
  <2>1. pc = "priority" /\ accessed' = TRUE /\ UNCHANGED <<ctx, eip, lowered>>
    BY <1>6 DEF Access, Drive, P!PriorityWrite
  <2> QED BY <1>0, <1>2, <1>6, <2>1 DEF GuestInv, CauseInv, Idle, Handler
<1>7. ASSUME Access("enable", P!ContextEnableWrite(1, P!Sources)), UNCHANGED irq
      PROVE  GuestInv' /\ CauseInv'
  <2>1. /\ pc = "enable" /\ accessed' = TRUE /\ UNCHANGED <<priority, lowered>>
        /\ P!ContextEnableWrite(1, P!Sources)
    BY <1>7 DEF Access, Drive, P!ContextEnableWrite
  <2>2. ctx'[1].claimed \subseteq ctx[1].claimed /\ ctx'[1].threshold = ctx[1].threshold
    BY <2>1, RegisterContext
  <2> QED BY <1>0, <1>2, <1>3, <1>7, <2>1, <2>2 DEF GuestInv, CauseInv
<1>8. ASSUME Access("claim", P!ContextClaim(1)), irq' = P!BestPending(ctx[1])
      PROVE  GuestInv' /\ CauseInv'
  <2>1. /\ pc = "claim" /\ ~accessed /\ accessed' = TRUE /\ UNCHANGED <<priority, lowered>>
        /\ P!ContextClaim(1)
    BY <1>8 DEF Access, Drive, P!ContextClaim
  <2>2. /\ ctx'[1].claimed \subseteq ctx[1].claimed \cup ({irq'} \ {0})
        /\ ctx'[1].threshold = ctx[1].threshold
    BY <1>8, <2>1, RegisterContext
  <2>3. irq' \in 0 .. NumIds - 1
    <3>1. ctx[1] \in PP!Context /\ P!BestPending(ctx[1]) = PP!BestPending(ctx[1])
      BY Types, SameBest
    <3>2. PP!BestPending(ctx[1]) \in PP!Sources \cup {0}
      BY <3>1, PlicConstants, PP!BestPendingType
    <3> QED BY <1>8, <3>1, <3>2, PlicConstants DEF PP!Sources
  <2>4. irq = 0 /\ ctx[1].claimed = {}
    <3>1. irq = 0 /\ ctx[1].claimed \subseteq {0}
      BY <1>2, <2>1 DEF GuestInv
    <3>2. 0 \notin ctx[1].claimed
      BY SameSources, Types DEF PP!Context
    <3> QED BY <3>1, <3>2
  <2> QED BY <1>0, <1>2, <1>3, <2>1, <2>2, <2>3, <2>4 DEF GuestInv, CauseInv
<1>9. ASSUME Access("device", P!SetLevelFromCpu(irq, FALSE)), UNCHANGED irq
      PROVE  GuestInv' /\ CauseInv'
  <2>1. /\ pc = "device" /\ accessed' = TRUE /\ UNCHANGED lowered
        /\ P!SetLevelLocked(irq, FALSE, priority[irq])
    BY <1>9 DEF Access, Drive, P!SetLevelFromCpu
  <2>2. irq \in P!Sources /\ priority[irq] \in PP!Priority
    BY <1>2, <2>1, PlicConstants, Types DEF GuestInv, P!Sources
  <2>3. /\ ctx'[1].claimed \subseteq ctx[1].claimed
        /\ ctx'[1].threshold = ctx[1].threshold
        /\ priority' = priority
    BY <2>1, <2>2, SetLevelContext
  <2> QED BY <1>0, <1>2, <1>3, <1>9, <2>1, <2>3 DEF GuestInv, CauseInv
<1>10. ASSUME Access("complete", P!ContextComplete(1, irq)), irq' = 0
       PROVE  GuestInv' /\ CauseInv'
  <2>1. /\ pc = "complete" /\ accessed' = TRUE /\ UNCHANGED <<priority, lowered>>
        /\ P!ContextComplete(1, irq)
    BY <1>10 DEF Access, Drive, P!ContextComplete
  <2>2. ctx'[1].claimed = ctx[1].claimed \ {irq} /\ ctx'[1].threshold = ctx[1].threshold
    BY <2>1, RegisterContext
  <2> QED BY <1>0, <1>2, <1>3, <1>10, <2>1, <2>2, PlicConstants DEF GuestInv, CauseInv
<1> QED BY <1>1, <1>4, <1>5, <1>6, <1>7, <1>8, <1>9, <1>10 DEF Host

\* Instructions and checks.
LEMMA CodeKeeps ==
    ASSUME IInv, \/ Check \/ BootInM \/ IdleLoop
                 \/ Run("sie", H!CsrWrite(H!S, H!SieWrite({"SEIP"})), "priority")
                 \/ Retire("priority", IF \E id \in P!Sources : priority[id] = 0
                                       THEN "priority" ELSE "enable")
                 \/ Retire("enable", "sstatus")
                 \/ Run("sstatus", H!CsrWrite(H!S, H!SstatusWrite([ms EXCEPT !.SIE = TRUE])), "wfi")
                 \/ Retire("claim", IF irq = 0 THEN "sret" ELSE "device")
                 \/ Retire("device", "complete")
                 \/ Retire("complete", "sret")
                 \/ Run("sret", H!Sret, sepc)
    PROVE  GuestInv' /\ ModeInv' /\ CauseInv'
<1>0. /\ GuestInv /\ ModeInv /\ CauseInv
      /\ ms \in HP!Mstatus /\ pc \in PCs /\ sepc \in PCs
  BY Types DEF IInv
<1> USE DEF Idle, Handler, InM
<1>1. CASE Check
  <2>1. UNCHANGED <<priority, ctx, eip, accessed, irq, mie, mideleg, mip>> /\ lowered' \in BOOLEAN
    BY <1>1, CheckEffect DEF plic
  <2>2. CASE UNCHANGED <<priv, ms, pc, mepc, sepc, lowered>>
    BY <1>0, <2>1, <2>2 DEF GuestInv, ModeInv, CauseInv
  <2>3. CASE /\ pc \in Idle /\ pc' = "claim" /\ priv' = 1 /\ sepc' = pc
             /\ "SEIP" \in mip
             /\ ms' = [ms EXCEPT !.SPIE = ms.SIE, !.SPP = 1, !.SIE = FALSE]
    <3>1. ms'.SIE = FALSE /\ ms'.SPP = 1 /\ ms'.TSR = ms.TSR /\ ms'.TW = ms.TW
      BY <1>0, <2>3 DEF HP!Mstatus
    <3>2. ModeInv'
      BY <1>0, <2>1, <2>3, <3>1 DEF ModeInv
    <3>3. GuestInv'
      BY <1>0, <2>1, <2>3 DEF GuestInv
    <3>4. ctx[1].pending # {}
      <4>1. eip[1]
        BY <1>0, <2>3 DEF CauseInv, Pins
      <4>2. PP!BestPending(ctx[1]) # 0
        BY <4>1 DEF IInv, PP!IInv, PP!LineIsCurrent, PP!Contexts
      <4>3. PP!BestPending(ctx[1]) \in PP!Candidates(ctx[1])
        BY <4>2, Types, PlicConstants, PP!BestPendingType
      <4> QED BY <4>3 DEF PP!Candidates
    <3> QED BY <1>0, <2>1, <2>3, <3>2, <3>3, <3>4 DEF CauseInv
  <2> QED BY <1>1, <2>2, <2>3, CheckEffect
<1>2. CASE BootInM
  <2>1. UNCHANGED <<priority, ctx, eip, accessed, irq, lowered, mie, mip, sepc>>
    BY <1>2, BootInMEffect DEF plic, guest
  <2>2. pc \in InM /\ pc' \in (InM \ {"mideleg"}) \cup {"sie"}
    BY <1>2, BootInMEffect
  <2>3. GuestInv' /\ CauseInv'
    BY <1>0, <2>1, <2>2 DEF GuestInv, CauseInv
  <2>4. ms'.SIE = ms.SIE /\ ms'.TSR = ms.TSR /\ ms'.TW = ms.TW
    BY <1>0, <1>2, BootInMEffect DEF HP!Mstatus
  <2>5. pc' = "mret" => ms'.MPP = 1
    BY <1>0, <1>2, BootInMEffect DEF HP!Mstatus
  <2>6. /\ priv' = IF pc' \in InM THEN 3 ELSE 1
        /\ mideleg' = {"SEIP"}
    BY <1>0, <1>2, BootInMEffect DEF ModeInv
  <2> QED BY <1>0, <2>1, <2>2, <2>3, <2>4, <2>5, <2>6 DEF ModeInv
<1>3. CASE IdleLoop
  <2>1. /\ UNCHANGED <<priority, ctx, eip, accessed, irq, lowered, mip, sepc, priv, mideleg, mie, ms>>
        /\ pc \in Idle /\ pc' \in Idle
    BY <1>3, RunEffect DEF IdleLoop, Run, plic, guest
  <2> QED BY <1>0, <2>1 DEF GuestInv, ModeInv, CauseInv
<1>4. CASE Run("sie", H!CsrWrite(H!S, H!SieWrite({"SEIP"})), "priority")
  <2>1. /\ UNCHANGED <<priority, ctx, eip, accessed, irq, lowered, mip, sepc, priv, ms, mideleg>>
        /\ pc = "sie" /\ pc' = "priority" /\ mie' = {"SEIP"}
    BY <1>4, RunEffect DEF Run, plic, guest
  <2> QED BY <1>0, <2>1 DEF GuestInv, ModeInv, CauseInv
<1>5. CASE Retire("priority", IF \E id \in P!Sources : priority[id] = 0
                              THEN "priority" ELSE "enable")
  <2>1. /\ UNCHANGED <<priority, ctx, eip, irq, lowered, mip, sepc, priv, mideleg, mie, ms>>
        /\ pc = "priority" /\ accessed /\ accessed' = FALSE
        /\ pc' = IF \E id \in P!Sources : priority[id] = 0 THEN "priority" ELSE "enable"
    BY <1>5 DEF Retire, H!Plain, H!masks, plic
  <2> QED BY <1>0, <2>1 DEF GuestInv, ModeInv, CauseInv
<1>6. CASE Retire("enable", "sstatus")
  <2>1. /\ UNCHANGED <<priority, ctx, eip, irq, lowered, mip, sepc, priv, mideleg, mie, ms>>
        /\ pc = "enable" /\ pc' = "sstatus" /\ accessed /\ accessed' = FALSE
    BY <1>6 DEF Retire, H!Plain, H!masks, plic
  <2> QED BY <1>0, <2>1 DEF GuestInv, ModeInv, CauseInv
<1>7. CASE Run("sstatus", H!CsrWrite(H!S, H!SstatusWrite([ms EXCEPT !.SIE = TRUE])), "wfi")
  <2>1. /\ UNCHANGED <<priority, ctx, eip, accessed, irq, lowered, mip, sepc, priv, mideleg, mie>>
        /\ pc = "sstatus" /\ pc' = "wfi" /\ ms'.TSR = ms.TSR /\ ms'.TW = ms.TW
    BY <1>7, RunEffect DEF Run, plic, guest
  <2> QED BY <1>0, <2>1 DEF GuestInv, ModeInv, CauseInv
<1>8. CASE Retire("claim", IF irq = 0 THEN "sret" ELSE "device")
  <2>1. /\ UNCHANGED <<priority, ctx, eip, irq, lowered, mip, sepc, priv, mideleg, mie, ms>>
        /\ pc = "claim" /\ accessed /\ accessed' = FALSE
        /\ pc' = IF irq = 0 THEN "sret" ELSE "device"
    BY <1>8 DEF Retire, H!Plain, H!masks, plic
  <2> QED BY <1>0, <2>1 DEF GuestInv, ModeInv, CauseInv
<1>9. CASE Retire("device", "complete")
  <2>1. /\ UNCHANGED <<priority, ctx, eip, irq, lowered, mip, sepc, priv, mideleg, mie, ms>>
        /\ pc = "device" /\ pc' = "complete" /\ accessed /\ accessed' = FALSE
    BY <1>9 DEF Retire, H!Plain, H!masks, plic
  <2> QED BY <1>0, <2>1 DEF GuestInv, ModeInv, CauseInv
<1>10. CASE Retire("complete", "sret")
  <2>1. /\ UNCHANGED <<priority, ctx, eip, irq, lowered, mip, sepc, priv, mideleg, mie, ms>>
        /\ pc = "complete" /\ pc' = "sret" /\ accessed /\ accessed' = FALSE
    BY <1>10 DEF Retire, H!Plain, H!masks, plic
  <2> QED BY <1>0, <2>1 DEF GuestInv, ModeInv, CauseInv
<1>11. CASE Run("sret", H!Sret, sepc)
  <2>1. /\ UNCHANGED <<priority, ctx, eip, accessed, irq, lowered, mip, sepc, mideleg, mie>>
        /\ pc = "sret" /\ pc' = sepc /\ priv' = 1 /\ ms'.TSR = ms.TSR /\ ms'.TW = ms.TW
    BY <1>11, RunEffect DEF Run, plic, guest
  <2>2. sepc \in Idle
    BY <1>0, <2>1 DEF ModeInv
  <2> QED BY <1>0, <2>1, <2>2 DEF GuestInv, ModeInv, CauseInv
<1> QED BY <1>1, <1>2, <1>3, <1>4, <1>5, <1>6, <1>7, <1>8, <1>9, <1>10, <1>11

-----------------------------------------------------------------------------
(* The path as a whole.                                                    *)

LEMMA InitIInv == Init => IInv /\ PP!Init /\ HP!Init
<1> SUFFICES ASSUME Init PROVE IInv /\ PP!Init /\ HP!Init
  OBVIOUS
<1>1. PP!Init /\ HP!Init /\ PP!IInv /\ HP!IInv
  BY SamePlic, SameHart, PlicInductive, HartInductive DEF Init
<1>2. GuestInv
  <2>1. ctx[1].claimed = {} /\ ctx[1].threshold = 0
    BY DEF Init, P!Init, P!Contexts
  <2>2. irq = 0 /\ irq \in 0 .. NumIds - 1 /\ pc = "mideleg" /\ accessed = FALSE /\ lowered = FALSE
    BY PlicConstants DEF Init
  <2> QED BY <2>1, <2>2 DEF GuestInv
<1>3. ModeInv
  BY DEF Init, H!Init, H!M, ModeInv, InM, Idle, Handler
<1>4. CauseInv
  BY DEF Init, P!Init, P!Contexts, H!Init, CauseInv, Pins, Idle, Handler
<1> QED BY <1>1, <1>2, <1>3, <1>4 DEF IInv

LEMMA NextIInv ==
    IInv /\ [Next]_vars => IInv' /\ [PP!Next]_(PP!vars) /\ [HP!Next]_(HP!vars)
<1> SUFFICES ASSUME IInv, [Next]_vars
             PROVE  IInv' /\ [PP!Next]_(PP!vars) /\ [HP!Next]_(HP!vars)
  OBVIOUS
<1>1. CASE Next
  <2>1. [PP!Next]_(PP!vars) /\ [HP!Next]_(HP!vars)
    BY <1>1, PlicStep, HartStep
  <2>2. PP!IInv' /\ HP!IInv'
    BY <2>1, PlicInductive, HartInductive DEF IInv
  <2>3. GuestInv' /\ ModeInv' /\ CauseInv'
    BY <1>1, DriveKeeps, CodeKeeps DEF Next, Cpu, BootInS, HandlerCode
  <2> QED BY <2>1, <2>2, <2>3 DEF IInv
<1>2. CASE UNCHANGED vars
  <2>1. UNCHANGED PP!vars /\ UNCHANGED HP!vars
    BY <1>2 DEF vars, plic, hart, PP!vars, HP!vars, HP!state, HP!masks
  <2>2. PP!IInv' /\ HP!IInv'
    BY <2>1, PlicInductive, HartInductive DEF IInv
  <2>3. GuestInv' /\ ModeInv' /\ CauseInv'
    BY <1>2 DEF vars, plic, hart, guest, IInv, GuestInv, ModeInv, CauseInv
  <2> QED BY <2>1, <2>2, <2>3 DEF IInv
<1> QED BY <1>1, <1>2

LEMMA IInvHolds == Spec => []IInv
BY InitIInv, NextIInv, PTL DEF Spec

\* The machine implements its parts: request_irq on two threads, the guest's
\* accesses and the loop of cpu_thread make no step of the PLIC that plic.cpp
\* does not allow, and none of the hart that hart.hpp does not.
THEOREM PathImplementsParts == Spec => PP!Spec /\ HP!Spec
BY InitIInv, NextIInv, IInvHolds, PTL DEF Spec, PP!Spec, HP!Spec

\* What is proved of the parts holds of the machine: the line into the hart is
\* current in mip, no level change is lost, and an interrupt that can be taken
\* waits for at most one batch of instructions.
THEOREM PartsHoldOnPath ==
    Spec => [](/\ mip = Pins(eip) /\ P!LineIsCurrent /\ P!LatchFollowsLevel
               /\ H!BoundedDelay /\ H!MprvOnlyInM)
<1>1. IInv => mip = Pins(eip)
  BY DEF IInv, CauseInv
<1>2. IInv => P!LineIsCurrent
  BY SameBest DEF IInv, PP!IInv, PP!LineIsCurrent, P!LineIsCurrent, P!Contexts, PP!Contexts
<1>3. IInv => P!LatchFollowsLevel
  BY SameSources DEF IInv, PP!IInv, PP!LatchFollowsLevel, P!LatchFollowsLevel, PP!Served, P!Served,
                     P!Contexts, PP!Contexts
<1>4. IInv => H!BoundedDelay /\ H!MprvOnlyInM
  BY PathAssumption DEF IInv, HP!IInv, HP!WaitBound, HP!StateOK, H!BoundedDelay, H!MprvOnlyInM,
                        HP!MprvOnlyInM, H!M, HP!M
<1> QED BY <1>1, <1>2, <1>3, <1>4, IInvHolds, PTL

\* InServiceIsHandled: a source is in service only while the handler that
\* claimed it runs, and no second interrupt enters the handler.
THEOREM ServiceHolds == Spec => []InServiceIsHandled
<1>1. IInv => InServiceIsHandled
  BY DEF IInv, GuestInv, ModeInv, InServiceIsHandled, Idle, Handler
<1> QED BY <1>1, IInvHolds, PTL

\* SpuriousHasReason: a claim finds nothing only after a device took a request
\* back or latched one with the priority that it read before the lock.
THEOREM SpuriousHolds == Spec => SpuriousHasReason
<1> DEFINE Step == pc = "claim" /\ accessed' /\ ~accessed =>
                     irq' # 0 \/ lowered \/ \E id \in P!Sources : Stale(id)
<1>1. IInv /\ [Next]_vars => [Step]_vars
  <2> SUFFICES ASSUME IInv, Next, pc = "claim", accessed', ~accessed,
                      ~lowered, \A id \in P!Sources : ~Stale(id)
               PROVE  irq' # 0
    OBVIOUS
  <2>1. irq' = P!BestPending(ctx[1])
    BY DEF Next, Cpu, Host, HostRead, HostApply, guest, Check, BootInM, BootInS, IdleLoop,
           HandlerCode, Run, Retire, Access
  <2>2. PICK id \in ctx[1].pending : TRUE
    BY DEF IInv, GuestInv, CauseInv
  <2>3. id \in P!Sources /\ ctx[1].cached[id] = priority[id]
    BY <2>2, SameSources, Types DEF Stale, PP!Context
  <2>4. priority[id] # 0 /\ priority[id] \in Nat /\ ctx[1].threshold = 0
    BY <2>3, Types DEF IInv, GuestInv, CauseInv, Handler
  <2>5. id \notin ctx[1].claimed
    BY <2>3, Types DEF IInv, GuestInv
  <2>6. id \in PP!Candidates(ctx[1]) /\ ctx[1].cached[id] > ctx[1].threshold
    BY <2>2, <2>3, <2>4, <2>5 DEF PP!Candidates
  <2>7. PP!BestPending(ctx[1]) # 0
    BY <2>6, Types, PlicConstants, PP!BestPendingIsZero
  <2> QED BY <2>1, <2>7, SameBest
<1> QED BY <1>1, IInvHolds, PTL DEF Spec, SpuriousHasReason
=============================================================================
