----------------------------- MODULE HartProofs -----------------------------
(* Proofs about the privileged state of the hart, for every set of lines,  *)
(* every batch length and every value the guest writes.                    *)
EXTENDS Hart, TLAPS

\* While a trap frame is valid the CSRs hold what the trap saved.
FramesIntact ==
    /\ mframe.valid => /\ ms.MPP = mframe.priv /\ ms.MPIE = mframe.ie
                       /\ mepc = mframe.pc
    /\ sframe.valid => /\ ms.SPP = sframe.priv /\ ms.SPIE = sframe.ie
                       /\ sepc = sframe.pc

\* What traps, returns and status writes preserve.
StateOK ==
    /\ priv \in 0 .. 3
    /\ ms \in Mstatus
    /\ pc \in PCs /\ mepc \in PCs /\ sepc \in PCs
    /\ mframe \in Frame /\ sframe \in Frame
    /\ MprvOnlyInM
    /\ FramesIntact

MasksOK ==
    /\ mip \in SUBSET Lines
    /\ mie \in SUBSET Lines
    /\ mideleg \in SUBSET (Lines \ MachineLines)
    /\ medeleg \in SUBSET (Faults \ {"ecallM"})
    /\ icp \in BOOLEAN

\* How long an interrupt has waited is bounded by the position in the batch:
\* a check with nothing deliverable starts it at zero, and the batch ends
\* with a check.
WaitBound ==
    /\ waited \in Nat
    /\ slot \in 0 .. Batch - 1
    /\ phase \in {"top", "exec", "wfi", "woken"}
    /\ ~AnyDeliverable => waited = 0
    /\ phase = "top" /\ slot = 0 => waited <= Batch
    /\ ~(phase = "top" /\ slot = 0) => waited <= slot

IInv == StateOK /\ MasksOK /\ WaitBound

-----------------------------------------------------------------------------
(* The steps of the state.                                                 *)

LEMMA TrapKeepsState ==
    ASSUME StateOK, NEW p \in PCs, NEW c, NEW deleg, HandleTrap(p, c, deleg)
    PROVE  StateOK'
<1> USE DEF StateOK
<1>1. CASE TrapToM(p)
  <2>1. /\ ms' \in Mstatus /\ ms'.MPP = priv /\ ms'.MPIE = ms.MIE
        /\ ms'.SPP = ms.SPP /\ ms'.SPIE = ms.SPIE
    BY <1>1 DEF TrapToM, Mstatus
  <2>2. mframe' \in Frame /\ mframe'.priv = priv /\ mframe'.ie = ms.MIE /\ mframe'.pc = p
    BY <1>1 DEF TrapToM, Frame, Mstatus
  <2>3. priv' = M /\ mepc' = p /\ sepc' = sepc /\ sframe' = sframe /\ pc' \in PCs
    BY <1>1 DEF TrapToM, HandleTrap
  <2>4. MprvOnlyInM'
    BY <2>3 DEF MprvOnlyInM
  <2>5. FramesIntact'
    BY <2>1, <2>2, <2>3 DEF FramesIntact
  <2> QED BY <2>1, <2>2, <2>3, <2>4, <2>5 DEF M
<1>2. CASE Delegated(c, deleg) /\ TrapToS(p)
  <2>0. priv \in {U, S}
    BY <1>2 DEF Delegated, U, S
  <2> DEFINE ms1 == [ms EXCEPT !.SPIE = ms.SIE, !.SPP = priv, !.SIE = FALSE]
  <2>a. (IF priv >= S THEN S ELSE U) = priv
    BY <2>0 DEF U, S
  <2>b. ms' = ms1
    BY <1>2, <2>a DEF TrapToS
  <2>1. /\ ms' \in Mstatus /\ ms'.SPP = priv /\ ms'.SPIE = ms.SIE
        /\ ms'.MPP = ms.MPP /\ ms'.MPIE = ms.MPIE /\ ms'.MPRV = ms.MPRV
    BY <2>0, <2>b DEF Mstatus
  <2>2. sframe' \in Frame /\ sframe'.priv = priv /\ sframe'.ie = ms.SIE /\ sframe'.pc = p
    BY <1>2 DEF TrapToS, Frame, Mstatus
  <2>3. priv' = S /\ sepc' = p /\ mepc' = mepc /\ mframe' = mframe /\ pc' \in PCs
    BY <1>2 DEF TrapToS, HandleTrap
  <2>4. MprvOnlyInM'
    BY <2>0, <2>1 DEF MprvOnlyInM, U, S, M
  <2>5. FramesIntact'
    BY <2>1, <2>2, <2>3 DEF FramesIntact
  <2> QED BY <2>1, <2>2, <2>3, <2>4, <2>5 DEF S
<1> QED BY <1>1, <1>2 DEF HandleTrap

LEMMA MretKeepsState ==
    ASSUME StateOK, priv = M, MretReturns
    PROVE  StateOK'
<1> USE DEF StateOK
<1> DEFINE ms1(b) == [ms EXCEPT !.MIE = ms.MPIE, !.MPIE = TRUE, !.MPP = U, !.MPRV = b]
<1>0. U \in 0 .. 3
  BY DEF U
<1>1. /\ ms' \in Mstatus /\ ms'.SPP = ms.SPP /\ ms'.SPIE = ms.SPIE
      /\ ms'.MPRV => ms.MPP = M
  <2>1. CASE ms.MPRV /\ ms.MPP = M
    <3>1. ms' = ms1(TRUE)
      BY <2>1 DEF MretReturns
    <3>2. ms' \in Mstatus
      BY <1>0, <3>1 DEF Mstatus
    <3>3. ms'.SPP = ms.SPP /\ ms'.SPIE = ms.SPIE
      BY <3>1 DEF Mstatus
    <3> QED BY <2>1, <3>2, <3>3
  <2>2. CASE ~(ms.MPRV /\ ms.MPP = M)
    <3>1. ms' = ms1(FALSE)
      BY <2>2 DEF MretReturns
    <3>2. ms' \in Mstatus
      BY <1>0, <3>1 DEF Mstatus
    <3>3. ms'.SPP = ms.SPP /\ ms'.SPIE = ms.SPIE /\ ms'.MPRV = FALSE
      BY <3>1 DEF Mstatus
    <3> QED BY <3>2, <3>3
  <2> QED BY <2>1, <2>2
<1>2. mframe' \in Frame /\ mframe'.valid = FALSE
  BY DEF MretReturns, Frame
<1>3. /\ priv' = ms.MPP /\ priv' \in 0 .. 3 /\ pc' = mepc
      /\ UNCHANGED <<mepc, sepc, sframe>>
  BY DEF MretReturns, Mstatus
<1>4. MprvOnlyInM' /\ FramesIntact'
  BY <1>1, <1>2, <1>3 DEF MprvOnlyInM, FramesIntact
<1> QED BY <1>1, <1>2, <1>3, <1>4

LEMMA SretKeepsState ==
    ASSUME StateOK, SretReturns
    PROVE  StateOK'
<1> USE DEF StateOK
<1>1. /\ ms' \in Mstatus /\ ms'.MPP = ms.MPP /\ ms'.MPIE = ms.MPIE /\ ms'.MPRV = FALSE
  BY DEF SretReturns, Mstatus, U
<1>2. sframe' \in Frame /\ sframe'.valid = FALSE
  BY DEF SretReturns, Frame
<1>3. /\ priv' \in 0 .. 3 /\ pc' = sepc
      /\ UNCHANGED <<mepc, sepc, mframe>>
  BY DEF SretReturns, Mstatus, U, S
<1>4. MprvOnlyInM' /\ FramesIntact'
  BY <1>1, <1>2, <1>3 DEF MprvOnlyInM, FramesIntact
<1> QED BY <1>1, <1>2, <1>3, <1>4

\* A frame that the guest's write invalidates.
LEMMA Invalidated ==
    ASSUME NEW f \in Frame
    PROVE  /\ [f EXCEPT !.valid = FALSE] \in Frame
           /\ [f EXCEPT !.valid = FALSE].valid = FALSE
BY DEF Frame

LEMMA StatusWriteKeepsState ==
    ASSUME StateOK, UNCHANGED priv, pc' \in PCs, NEW v \in Mstatus,
           (priv >= M /\ MstatusWrite(v)) \/ SstatusWrite(v)
    PROVE  StateOK'
<1> USE DEF StateOK
<1>1. CASE priv >= M /\ MstatusWrite(v)
  <2>1. priv' = M
    BY <1>1 DEF M
  <2>2. ms' = v /\ UNCHANGED <<mepc, sepc>>
    BY <1>1 DEF MstatusWrite
  <2>3. mframe' \in Frame /\ mframe'.valid = FALSE /\ sframe' \in Frame /\ sframe'.valid = FALSE
    BY <1>1, Invalidated DEF MstatusWrite
  <2>4. MprvOnlyInM' /\ FramesIntact'
    BY <2>1, <2>3 DEF MprvOnlyInM, FramesIntact
  <2> QED BY <2>1, <2>2, <2>3, <2>4
<1>2. CASE SstatusWrite(v)
  <2>1. v.SIE \in BOOLEAN /\ v.SPIE \in BOOLEAN /\ v.SPP \in {U, S}
    BY DEF Mstatus
  <2>2. ms' = [ms EXCEPT !.SIE = v.SIE, !.SPIE = v.SPIE, !.SPP = v.SPP]
    BY <1>2 DEF SstatusWrite
  <2>3. ms' \in Mstatus
    BY <2>1, <2>2 DEF Mstatus
  <2>4. ms'.MPP = ms.MPP /\ ms'.MPIE = ms.MPIE /\ ms'.MPRV = ms.MPRV
    BY <2>2 DEF Mstatus
  <2>5. sframe' \in Frame /\ sframe'.valid = FALSE /\ UNCHANGED <<mepc, sepc, mframe>>
    BY <1>2, Invalidated DEF SstatusWrite
  <2>6. MprvOnlyInM' /\ FramesIntact'
    BY <2>4, <2>5 DEF MprvOnlyInM, FramesIntact
  <2> QED BY <2>3, <2>5, <2>6
<1> QED BY <1>1, <1>2

LEMMA EpcWriteKeepsState ==
    ASSUME StateOK, UNCHANGED priv, pc' \in PCs, NEW p \in PCs,
           MepcWrite(p) \/ SepcWrite(p)
    PROVE  StateOK'
<1> USE DEF StateOK
<1>1. CASE MepcWrite(p)
  <2>1. /\ mframe' \in Frame /\ mframe'.valid = FALSE /\ mepc' = p
        /\ UNCHANGED <<ms, sepc, sframe>>
    BY <1>1, Invalidated DEF MepcWrite
  <2>2. MprvOnlyInM' /\ FramesIntact'
    BY <2>1 DEF MprvOnlyInM, FramesIntact
  <2> QED BY <2>1, <2>2
<1>2. CASE SepcWrite(p)
  <2>1. /\ sframe' \in Frame /\ sframe'.valid = FALSE /\ sepc' = p
        /\ UNCHANGED <<ms, mepc, mframe>>
    BY <1>2, Invalidated DEF SepcWrite
  <2>2. MprvOnlyInM' /\ FramesIntact'
    BY <2>1 DEF MprvOnlyInM, FramesIntact
  <2> QED BY <2>1, <2>2
<1> QED BY <1>1, <1>2

\* An instruction that only moves pc.
LEMMA PcMoveKeepsState ==
    ASSUME StateOK, pc' \in PCs, UNCHANGED <<priv, ms, mepc, sepc, mframe, sframe>>
    PROVE  StateOK'
BY DEF StateOK, MprvOnlyInM, FramesIntact

-----------------------------------------------------------------------------
(* The steps of the loop.                                                  *)

\* The end of an instruction.
LEMMA InstructionKeepsWait ==
    ASSUME WaitBound, phase = "exec", EndIteration, CountInstruction
    PROVE  WaitBound'
<1> USE DEF WaitBound
<1>1. waited' \in Nat /\ waited' <= slot + 1 /\ (~AnyDeliverable' => waited' = 0)
  BY DEF CountInstruction
<1>2. CASE slot = Batch - 1
  BY <1>1, <1>2, HartAssumption DEF EndIteration
<1>3. CASE slot # Batch - 1
  BY <1>1, <1>3, HartAssumption DEF EndIteration
<1> QED BY <1>2, <1>3

\* The end of an iteration in which nothing has waited.
LEMMA CheckKeepsWait ==
    ASSUME WaitBound, EndIteration, waited' = 0
    PROVE  WaitBound'
<1>1. phase' = "top" /\ slot' \in 0 .. Batch - 1
  BY HartAssumption DEF EndIteration, WaitBound
<1> QED BY <1>1, HartAssumption DEF WaitBound

LEMMA SameMeansSame ==
    ASSUME UNCHANGED <<priv, ms, mip, mie, mideleg>>
    PROVE  AnyDeliverable' = AnyDeliverable
BY DEF AnyDeliverable, Deliverable, SEnabled, MEnabled

-----------------------------------------------------------------------------
(* The actions.                                                            *)

\* check_interrupts, whatever the loop does when nothing is taken.
LEMMA CheckKeepsInv ==
    ASSUME IInv, CheckInterrupts(GoExecute) \/ CheckInterrupts(EndIteration)
    PROVE  IInv'
<1> USE DEF IInv
<1>1. MasksOK'
  BY DEF MasksOK, CheckInterrupts, masks
<1>2. ASSUME NEW b \in Lines, TakeInterrupt(b)
      PROVE  StateOK' /\ WaitBound'
  <2>1. HandleTrap(pc, b, mideleg) /\ EndIteration /\ waited' = 0
    BY <1>2 DEF TakeInterrupt
  <2>2. pc \in PCs
    BY DEF StateOK
  <2>3. StateOK'
    BY <2>1, <2>2, TrapKeepsState
  <2> QED BY <2>1, <2>3, CheckKeepsWait
<1>3. ASSUME ~AnyDeliverable, UNCHANGED <<state, masks, mip, waited>>,
             GoExecute \/ EndIteration
      PROVE  StateOK' /\ WaitBound'
  <2>1. StateOK'
    BY <1>3, PcMoveKeepsState DEF state, StateOK
  <2>2. waited' = 0
    BY <1>3 DEF WaitBound
  <2>3. CASE EndIteration
    BY <2>1, <2>2, <2>3, CheckKeepsWait
  <2>4. CASE GoExecute
    <3>1. phase' = "exec" /\ slot' = slot
      BY <2>4 DEF GoExecute
    <3> QED BY <2>1, <2>2, <3>1 DEF WaitBound
  <2> QED BY <1>3, <2>3, <2>4
<1> QED BY <1>1, <1>2, <1>3 DEF CheckInterrupts

LEMMA TopKeepsInv == ASSUME IInv, Top PROVE IInv'
<1>1. CASE CheckInterrupts(GoExecute)
  BY <1>1, CheckKeepsInv
<1>2. CASE slot # 0 /\ ~icp /\ GoExecute /\ UNCHANGED <<state, masks, mip, icp, waited>>
  <2>1. StateOK'
    BY <1>2, PcMoveKeepsState DEF IInv, state, StateOK
  <2>2. MasksOK'
    BY <1>2 DEF IInv, MasksOK, masks
  <2>3. AnyDeliverable' = AnyDeliverable
    BY <1>2, SameMeansSame DEF state, masks
  <2>4. WaitBound'
    BY <1>2, <2>3 DEF IInv, WaitBound, Top, GoExecute
  <2> QED BY <2>1, <2>2, <2>4 DEF IInv
<1> QED BY <1>1, <1>2 DEF Top

LEMMA WfiPollKeepsInv == ASSUME IInv, WfiPoll PROVE IInv'
<1>1. StateOK'
  BY PcMoveKeepsState DEF IInv, WfiPoll, state, StateOK
<1>2. MasksOK'
  BY DEF IInv, WfiPoll, MasksOK, masks
<1>3. AnyDeliverable' = AnyDeliverable
  BY SameMeansSame DEF WfiPoll, state, masks
<1>4. WaitBound'
  BY <1>3 DEF IInv, WaitBound, WfiPoll
<1> QED BY <1>1, <1>2, <1>4 DEF IInv

LEMMA WfiCheckKeepsInv == ASSUME IInv, WfiCheck PROVE IInv'
BY CheckKeepsInv DEF WfiCheck

LEMMA MipMovesKeepsInv == ASSUME IInv, MipMoves PROVE IInv'
<1>1. StateOK'
  BY PcMoveKeepsState DEF IInv, MipMoves, state, StateOK
<1>2. MasksOK'
  BY DEF IInv, MipMoves, MasksOK, masks
<1>3. WaitBound'
  <2>1. UNCHANGED <<phase, slot>>
    BY DEF MipMoves
  <2>2. waited' = IF AnyDeliverable' THEN waited ELSE 0
    BY DEF MipMoves
  <2>3. waited' \in {waited, 0} /\ (~AnyDeliverable' => waited' = 0)
    BY <2>2
  <2> QED BY <2>1, <2>3, HartAssumption DEF IInv, WaitBound
<1> QED BY <1>1, <1>2, <1>3 DEF IInv

LEMMA PlainKeepsInv == ASSUME IInv, Plain PROVE IInv'
<1>1. StateOK'
  BY PcMoveKeepsState DEF IInv, Plain
<1>2. MasksOK'
  BY DEF IInv, Plain, MasksOK, masks
<1>3. WaitBound'
  BY InstructionKeepsWait DEF IInv, Plain
<1> QED BY <1>1, <1>2, <1>3 DEF IInv

\* An exception, which requests a check or not.
LEMMA RaiseKeepsInv ==
    ASSUME IInv, NEW c, phase = "exec", Raise(c), icp' \in BOOLEAN, CountInstruction
    PROVE  IInv'
<1>1. StateOK'
  <2>1. pc \in PCs
    BY DEF IInv, StateOK
  <2> QED BY <2>1, TrapKeepsState DEF IInv, Raise
<1>2. MasksOK'
  BY DEF IInv, Raise, MasksOK, masks
<1>3. WaitBound'
  BY InstructionKeepsWait DEF IInv, Raise
<1> QED BY <1>1, <1>2, <1>3 DEF IInv

LEMMA MretKeepsInv == ASSUME IInv, Mret PROVE IInv'
<1>0. phase = "exec" /\ icp' = TRUE /\ CountInstruction
  BY DEF Mret, Privileged
<1>1. CASE Raise("illegal")
  BY <1>0, <1>1, RaiseKeepsInv
<1>2. CASE priv = M /\ MretReturns
  <2>1. StateOK'
    BY <1>2, MretKeepsState DEF IInv
  <2>2. MasksOK'
    BY <1>0, <1>2 DEF IInv, MretReturns, MasksOK, masks
  <2>3. WaitBound'
    BY <1>0, <1>2, InstructionKeepsWait DEF IInv, MretReturns
  <2> QED BY <2>1, <2>2, <2>3 DEF IInv
<1> QED BY <1>1, <1>2 DEF Mret, Privileged

LEMMA SretKeepsInv == ASSUME IInv, Sret PROVE IInv'
<1>0. phase = "exec" /\ icp' = TRUE /\ CountInstruction
  BY DEF Sret, Privileged
<1>1. CASE Raise("illegal")
  BY <1>0, <1>1, RaiseKeepsInv
<1>2. CASE SretReturns
  <2>1. StateOK'
    BY <1>2, SretKeepsState DEF IInv
  <2>2. MasksOK'
    BY <1>0, <1>2 DEF IInv, SretReturns, MasksOK, masks
  <2>3. WaitBound'
    BY <1>0, <1>2, InstructionKeepsWait DEF IInv, SretReturns
  <2> QED BY <2>1, <2>2, <2>3 DEF IInv
<1> QED BY <1>1, <1>2 DEF Sret, Privileged

\* A hart that goes to wait has no interrupt to wait for.
LEMMA WfiKeepsInv == ASSUME IInv, Wfi PROVE IInv'
<1>0. phase = "exec" /\ icp' = TRUE /\ CountInstruction
  BY DEF Wfi, Privileged
<1>1. CASE Raise("illegal")
  BY <1>0, <1>1, RaiseKeepsInv
<1>2. CASE WfiWaits
  <2>1. StateOK'
    BY <1>2, PcMoveKeepsState DEF IInv, WfiWaits
  <2>2. MasksOK'
    BY <1>0, <1>2 DEF IInv, WfiWaits, MasksOK, masks
  <2>3. CASE EndIteration
    BY <1>0, <2>1, <2>2, <2>3, InstructionKeepsWait DEF IInv
  <2>4. CASE mip \cap mie = {} /\ phase' = "wfi" /\ slot' = slot
    <3>1. ~AnyDeliverable
      BY <2>4 DEF AnyDeliverable, Deliverable
    <3>2. waited' = 0
      BY <1>0, <3>1 DEF CountInstruction
    <3> QED BY <2>1, <2>2, <2>4, <3>2 DEF IInv, WaitBound
  <2> QED BY <1>2, <2>3, <2>4 DEF WfiWaits
<1> QED BY <1>1, <1>2 DEF Wfi, Privileged

\* What the CSR instructions write keeps the state and the masks in order.
LEMMA EffectKeepsInv ==
    ASSUME IInv, phase = "exec", icp' = TRUE, CountInstruction, EndIteration,
           pc' \in PCs, UNCHANGED <<priv, mip>>, StateOK', MasksOK'
    PROVE  IInv'
BY InstructionKeepsWait DEF IInv

LEMMA MaskWriteKeepsState ==
    ASSUME StateOK, UNCHANGED priv, pc' \in PCs, NEW a, NEW b, NEW c, MaskWrite(a, b, c)
    PROVE  StateOK' /\ mie' = a /\ mideleg' = b /\ medeleg' = c
BY PcMoveKeepsState DEF MaskWrite

\* A CSR instruction is an exception or its effect.
LEMMA CsrKeepsInv == ASSUME IInv, Csr PROVE IInv'
<1> DEFINE Step == /\ phase = "exec" /\ icp' = TRUE /\ CountInstruction /\ EndIteration
                   /\ pc' \in PCs /\ UNCHANGED <<priv, mip>>
<1>0. StateOK /\ MasksOK
  BY DEF IInv
<1>1. ASSUME NEW v \in MstatusInputs, CsrWrite(M, MstatusWrite(v))
      PROVE  IInv'
  <2>1. CASE Raise("illegal")
    BY <1>1, <2>1, RaiseKeepsInv DEF CsrWrite, Privileged
  <2>2. CASE Step /\ priv >= M /\ MstatusWrite(v)
    <3>1. StateOK'
      BY <1>0, <2>2, StatusWriteKeepsState, HartAssumption
    <3>2. MasksOK'
      BY <1>0, <2>2 DEF MasksOK, MstatusWrite, masks
    <3> QED BY <2>2, <3>1, <3>2, EffectKeepsInv
  <2> QED BY <1>1, <2>1, <2>2 DEF CsrWrite, Privileged
<1>2. ASSUME NEW v \in MstatusInputs, CsrWrite(S, SstatusWrite(v))
      PROVE  IInv'
  <2>1. CASE Raise("illegal")
    BY <1>2, <2>1, RaiseKeepsInv DEF CsrWrite, Privileged
  <2>2. CASE Step /\ SstatusWrite(v)
    <3>1. StateOK'
      BY <1>0, <2>2, StatusWriteKeepsState, HartAssumption
    <3>2. MasksOK'
      BY <1>0, <2>2 DEF MasksOK, SstatusWrite, masks
    <3> QED BY <2>2, <3>1, <3>2, EffectKeepsInv
  <2> QED BY <1>2, <2>1, <2>2 DEF CsrWrite, Privileged
<1>3. ASSUME NEW p \in PCs, CsrWrite(M, MepcWrite(p)) \/ CsrWrite(S, SepcWrite(p))
      PROVE  IInv'
  <2>1. CASE phase = "exec" /\ icp' = TRUE /\ CountInstruction /\ Raise("illegal")
    BY <2>1, RaiseKeepsInv
  <2>2. CASE Step /\ (MepcWrite(p) \/ SepcWrite(p))
    <3>1. StateOK'
      BY <1>0, <2>2, EpcWriteKeepsState
    <3>2. MasksOK'
      BY <1>0, <2>2 DEF MasksOK, MepcWrite, SepcWrite, masks
    <3> QED BY <2>2, <3>1, <3>2, EffectKeepsInv
  <2> QED BY <1>3, <2>1, <2>2 DEF CsrWrite, Privileged
<1>4. ASSUME NEW a \in SUBSET Lines, NEW b \in SUBSET (Lines \ MachineLines),
             NEW c \in SUBSET (Faults \ {"ecallM"}), NEW level,
             CsrWrite(level, MaskWrite(a, b, c))
      PROVE  IInv'
  <2>1. CASE Raise("illegal")
    BY <1>4, <2>1, RaiseKeepsInv DEF CsrWrite, Privileged
  <2>2. CASE Step /\ MaskWrite(a, b, c)
    <3>1. StateOK' /\ mie' = a /\ mideleg' = b /\ medeleg' = c
      BY <1>0, <2>2, MaskWriteKeepsState
    <3>2. MasksOK'
      BY <1>0, <2>2, <3>1 DEF MasksOK
    <3> QED BY <2>2, <3>1, <3>2, EffectKeepsInv
  <2> QED BY <1>4, <2>1, <2>2 DEF CsrWrite, Privileged
<1>5. ASSUME NEW v \in SUBSET Lines,
             \/ CsrWrite(M, MieWrite(v)) \/ CsrWrite(S, SieWrite(v))
             \/ CsrWrite(M, MidelegWrite(v))
      PROVE  IInv'
  BY <1>0, <1>4, <1>5 DEF MieWrite, SieWrite, MidelegWrite, MasksOK
<1>6. ASSUME NEW v \in SUBSET Delegable, CsrWrite(M, MedelegWrite(v))
      PROVE  IInv'
  BY <1>0, <1>4, <1>6, HartAssumption DEF MedelegWrite, MasksOK
<1>7. ASSUME NEW level \in {U, S, M}, CsrWrite(level, OtherWrite)
      PROVE  IInv'
  BY <1>0, <1>4, <1>7 DEF OtherWrite, MasksOK
<1> QED BY <1>1, <1>2, <1>3, <1>5, <1>6, <1>7 DEF Csr

LEMMA StutterKeepsInv == ASSUME IInv, UNCHANGED vars PROVE IInv'
<1>1. StateOK'
  BY PcMoveKeepsState DEF IInv, vars, state, StateOK
<1>2. MasksOK'
  BY DEF IInv, MasksOK, vars, masks
<1>3. AnyDeliverable' = AnyDeliverable
  BY SameMeansSame DEF vars, state, masks
<1>4. WaitBound'
  BY <1>3 DEF IInv, WaitBound, vars
<1> QED BY <1>1, <1>2, <1>4 DEF IInv

LEMMA InitIInv == Init => IInv
<1> SUFFICES ASSUME Init PROVE IInv
  OBVIOUS
<1>1. StateOK
  BY DEF Init, StateOK, Mstatus, Frame, MprvOnlyInM, FramesIntact, U, S, M
<1>2. MasksOK
  BY DEF Init, MasksOK
<1>3. WaitBound
  BY HartAssumption DEF Init, WaitBound
<1> QED BY <1>1, <1>2, <1>3 DEF IInv

LEMMA NextIInv == IInv /\ [Next]_vars => IInv'
<1> SUFFICES ASSUME IInv, [Next]_vars PROVE IInv'
  OBVIOUS
<1>0. icp \in BOOLEAN
  BY DEF IInv, MasksOK
<1>1. CASE Top
  BY <1>1, TopKeepsInv
<1>2. CASE WfiPoll
  BY <1>2, WfiPollKeepsInv
<1>3. CASE Plain
  BY <1>3, PlainKeepsInv
<1>4. CASE Ecall
  BY <1>0, <1>4, RaiseKeepsInv DEF Ecall
<1>5. CASE Mret
  BY <1>5, MretKeepsInv
<1>6. CASE Sret
  BY <1>6, SretKeepsInv
<1>7. CASE Wfi
  BY <1>7, WfiKeepsInv
<1>8. CASE Csr
  BY <1>8, CsrKeepsInv
<1>9. CASE \E c \in Faults \ Ecalls : Fault(c)
  BY <1>0, <1>9, RaiseKeepsInv DEF Fault
<1>10. CASE MipMoves
  BY <1>10, MipMovesKeepsInv
<1>11. CASE UNCHANGED vars
  BY <1>11, StutterKeepsInv
<1>12. CASE WfiCheck
  BY <1>12, WfiCheckKeepsInv
<1> QED BY <1>1, <1>2, <1>3, <1>4, <1>5, <1>6, <1>7, <1>8, <1>9, <1>10, <1>11, <1>12
        DEF Next, Cpu

-----------------------------------------------------------------------------
(* The theorems.                                                           *)

\* The inductive invariant holds in every state the hart can reach.
THEOREM IInvHolds == Spec => []IInv
BY InitIInv, NextIInv, PTL DEF Spec

\* The CSRs, the frames and the loop's counters keep their types.
THEOREM TypeCorrect == Spec => []TypeOK
<1>1. IInv => TypeOK
  BY DEF IInv, StateOK, MasksOK, WaitBound, TypeOK
<1> QED BY <1>1, IInvHolds, PTL

\* MPRV is off whenever the hart runs below M, for all values the guest can
\* write to mstatus, the reserved MPP among them.
THEOREM MprvHolds == Spec => []MprvOnlyInM
<1>1. IInv => MprvOnlyInM
  BY DEF IInv, StateOK
<1> QED BY <1>1, IInvHolds, PTL

\* No deliverable interrupt waits for more instructions than the loop runs
\* between two checks, whatever that number is.
THEOREM DelayHolds == Spec => []BoundedDelay
<1>1. IInv => BoundedDelay
  BY HartAssumption DEF IInv, WaitBound, BoundedDelay
<1> QED BY <1>1, IInvHolds, PTL

\* mret and sret resume exactly what the trap interrupted as long as the guest
\* has not overwritten what it saved.
THEOREM RoundTripHolds == Spec => RoundTrip
<1> DEFINE MretStep == Mret /\ priv = M /\ mframe.valid =>
              priv' = mframe.priv /\ ms'.MIE = mframe.ie /\ pc' = mframe.pc
           SretStep ==
              Sret /\ priv \in {S, M} /\ ~(priv = S /\ ms.TSR) /\ sframe.valid =>
              priv' = sframe.priv /\ ms'.SIE = sframe.ie /\ pc' = sframe.pc
<1>1. ASSUME IInv PROVE MretStep
  <2> SUFFICES ASSUME Mret, priv = M, mframe.valid
               PROVE  priv' = mframe.priv /\ ms'.MIE = mframe.ie /\ pc' = mframe.pc
    OBVIOUS
  <2>1. MretReturns
    BY DEF Mret, Privileged
  <2>2. ms.MPP = mframe.priv /\ ms.MPIE = mframe.ie /\ mepc = mframe.pc /\ ms \in Mstatus
    BY <1>1 DEF IInv, StateOK, FramesIntact
  <2>3. ms'.MIE = ms.MPIE
    BY <2>1, <2>2 DEF MretReturns, Mstatus
  <2> QED BY <2>1, <2>2, <2>3 DEF MretReturns
<1>2. ASSUME IInv PROVE SretStep
  <2> SUFFICES ASSUME Sret, priv \in {S, M}, ~(priv = S /\ ms.TSR), sframe.valid
               PROVE  priv' = sframe.priv /\ ms'.SIE = sframe.ie /\ pc' = sframe.pc
    OBVIOUS
  <2>1. SretReturns
    BY DEF Sret, Privileged, U, S, M
  <2>2. ms.SPP = sframe.priv /\ ms.SPIE = sframe.ie /\ sepc = sframe.pc /\ ms \in Mstatus
    BY <1>2 DEF IInv, StateOK, FramesIntact
  <2>3. ms'.SIE = ms.SPIE
    BY <2>1, <2>2 DEF SretReturns, Mstatus
  <2> QED BY <2>1, <2>2, <2>3 DEF SretReturns
<1>3. IInv => [MretStep /\ SretStep]_vars
  BY <1>1, <1>2
<1> QED BY <1>3, IInvHolds, PTL DEF RoundTrip

-----------------------------------------------------------------------------
(* What one step does to the privilege and to the masks.                   *)

\* A trap never lowers the privilege, records the level it interrupted, and
\* makes no line deliverable that was not.
LEMMA TrapRaises ==
    ASSUME IInv, NEW p, NEW c, NEW deleg, HandleTrap(p, c, deleg),
           UNCHANGED <<masks, mip>>
    PROVE  /\ priv' >= priv
           /\ \/ priv' = M /\ mframe'.valid /\ mframe'.priv = priv
              \/ priv' = S /\ sframe'.valid /\ sframe'.priv = priv
           /\ AnyDeliverable' => AnyDeliverable
<1>1. priv \in 0 .. 3 /\ ms \in Mstatus
  BY DEF IInv, StateOK
<1>2. CASE Delegated(c, deleg) /\ TrapToS(p)
  <2>1. priv' = S /\ priv <= S /\ ~ms'.SIE /\ ms'.MIE = ms.MIE
    BY <1>1, <1>2 DEF Delegated, TrapToS, Mstatus
  <2>2. ASSUME NEW b, Deliverable(b)' PROVE Deliverable(b)
    BY <1>1, <2>1, <2>2 DEF Deliverable, MEnabled, SEnabled, U, S, M, masks
  <2> QED BY <1>1, <1>2, <2>1, <2>2 DEF TrapToS, AnyDeliverable, S, M
<1>3. CASE ~Delegated(c, deleg) /\ TrapToM(p)
  <2>1. priv' = M /\ ~ms'.MIE
    BY <1>1, <1>3 DEF TrapToM, Mstatus
  <2>2. ASSUME NEW b, Deliverable(b)' PROVE Deliverable(b)
    BY <1>1, <2>1, <2>2 DEF Deliverable, MEnabled, SEnabled, U, S, M, masks
  <2> QED BY <1>1, <1>3, <2>1, <2>2 DEF TrapToM, AnyDeliverable, S, M
<1> QED BY <1>2, <1>3 DEF HandleTrap

\* A CSR instruction requests a check, and traps or stays in its privilege.
LEMMA CsrRequests ==
    ASSUME Csr
    PROVE  icp' = TRUE /\ (Raise("illegal") \/ UNCHANGED priv)
BY DEF Csr, CsrWrite, Privileged

\* An instruction that unmasks a pending interrupt has the loop check for it
\* before the next one, for every batch length and every value written.
THEOREM UnmaskingHolds == Spec => UnmaskingIsNoticed
<1> DEFINE Step == phase = "exec" /\ phase' = "top" /\ ~AnyDeliverable /\ AnyDeliverable'
                     => icp'
<1>1. ASSUME IInv, Next PROVE Step
  <2> SUFFICES ASSUME phase = "exec", ~AnyDeliverable, AnyDeliverable'
               PROVE  icp' = TRUE \/ phase' # "top"
    OBVIOUS
  <2>1. ASSUME NEW c, Raise(c) PROVE FALSE
    BY <1>1, <2>1, TrapRaises DEF Raise
  <2>2. CASE Plain
    BY <2>2, SameMeansSame DEF Plain, masks
  <2>3. CASE Ecall \/ \E c \in Faults \ Ecalls : Fault(c)
    BY <2>1, <2>3 DEF Ecall, Fault
  <2>4. CASE Csr
    BY <2>4, CsrRequests
  <2>5. CASE Mret \/ Sret \/ Wfi
    BY <2>5 DEF Mret, Sret, Wfi, Privileged
  <2>6. CASE MipMoves
    BY <2>6 DEF MipMoves
  <2>7. CASE Top \/ WfiPoll \/ WfiCheck
    BY <2>7 DEF Top, WfiPoll, WfiCheck
  <2> QED BY <1>1, <2>2, <2>3, <2>4, <2>5, <2>6, <2>7 DEF Next, Cpu
<1>2. IInv /\ [Next]_vars => [Step]_vars
  BY <1>1
<1> QED BY <1>2, IInvHolds, PTL DEF Spec, UnmaskingIsNoticed

\* Privilege rises only through traps, which record it, falls only through
\* mret and sret, and an interrupt enters the level its delegation names.
THEOREM PrivilegeHolds == Spec => PrivilegeMoves
<1> DEFINE Recorded == \/ priv' = M /\ mframe'.valid /\ mframe'.priv = priv
                       \/ priv' = S /\ sframe'.valid /\ sframe'.priv = priv
           Step ==
             /\ priv' > priv => \/ priv' = M /\ mframe'.valid /\ mframe'.priv = priv
                                \/ priv' = S /\ sframe'.valid /\ sframe'.priv = priv
             /\ priv' < priv => Mret \/ Sret
             /\ \A b \in Lines : icp' = FALSE /\ TakeInterrupt(b) =>
                   (priv' = S <=> b \in mideleg)
<1>1. ASSUME IInv, Next PROVE Step
  <2>0. priv \in 0 .. 3 /\ priv' \in 0 .. 3
    BY <1>1, NextIInv DEF IInv, StateOK
  <2> DEFINE Lawful == (priv' > priv => Recorded) /\ (priv' < priv => Mret \/ Sret)
  <2>1. ASSUME NEW p, NEW c, NEW deleg, HandleTrap(p, c, deleg), UNCHANGED <<masks, mip>>
        PROVE  Lawful
    BY <1>1, <2>0, <2>1, TrapRaises
  <2>2. ASSUME UNCHANGED priv PROVE Lawful
    BY <2>0, <2>2
  <2>3. Lawful
    <3>1. CASE Top \/ WfiCheck
      <4>1. CASE UNCHANGED priv
        BY <2>2, <4>1
      <4>2. CASE UNCHANGED <<masks, mip>> /\ \E b \in Lines : HandleTrap(pc, b, mideleg)
        BY <2>1, <4>2
      <4> QED BY <3>1, <4>1, <4>2 DEF Top, WfiCheck, CheckInterrupts, TakeInterrupt, state
    <3>2. CASE WfiPoll \/ MipMoves \/ Plain
      BY <2>2, <3>2 DEF WfiPoll, MipMoves, Plain, state
    <3>3. CASE Ecall \/ \E c \in Faults \ Ecalls : Fault(c)
      BY <2>1, <3>3 DEF Ecall, Fault, Raise
    <3>4. CASE Csr
      BY <2>1, <2>2, <3>4, CsrRequests DEF Raise
    <3>5. CASE Wfi
      BY <2>1, <2>2, <3>5 DEF Wfi, Privileged, WfiWaits, Raise
    <3>6. CASE Mret
      <4>1. CASE Raise("illegal")
        BY <2>1, <4>1 DEF Raise
      <4>2. CASE priv = M
        BY <2>0, <3>6, <4>2 DEF M
      <4> QED BY <3>6, <4>1, <4>2 DEF Mret, Privileged
    <3>7. CASE Sret
      <4>1. CASE Raise("illegal")
        BY <2>1, <4>1 DEF Raise
      <4>2. CASE SretReturns /\ ~(priv = U)
        <5>1. ms.SPP \in {U, S}
          BY <1>1 DEF IInv, StateOK, Mstatus
        <5> QED BY <2>0, <3>7, <4>2, <5>1 DEF SretReturns, U, S
      <4> QED BY <3>7, <4>1, <4>2 DEF Sret, Privileged
    <3> QED BY <1>1, <3>1, <3>2, <3>3, <3>4, <3>5, <3>6, <3>7 DEF Next, Cpu
  <2>4. ASSUME NEW b \in Lines, TakeInterrupt(b)
         PROVE  priv' = S <=> b \in mideleg
    <3>1. Deliverable(b) /\ HandleTrap(pc, b, mideleg)
      BY <2>4 DEF TakeInterrupt, First
    <3>2. CASE b \in mideleg
      BY <2>0, <3>1, <3>2 DEF Deliverable, SEnabled, HandleTrap, Delegated, TrapToS, S
    <3>3. CASE b \notin mideleg
      BY <3>1, <3>3 DEF HandleTrap, Delegated, TrapToM, S, M
    <3> QED BY <3>2, <3>3
  <2> QED BY <2>3, <2>4
<1>2. IInv /\ [Next]_vars => [Step]_vars
  BY <1>1
<1> QED BY <1>2, IInvHolds, PTL DEF Spec, PrivilegeMoves
=============================================================================
