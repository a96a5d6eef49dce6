----------------------------- MODULE MipProofs ------------------------------
(* Proofs about the interrupt-pending register for every set of lines.     *)
EXTENDS Mip, TLAPS

\* LinesFollowLastWriter is inductive with the types; the machine lines are
\* the case in which the last writer is always a device.
IInv == TypeOK /\ LinesFollowLastWriter

LEMMA WritableIsSoft ==
    \A on \in BOOLEAN : Writable(on) \subseteq Lines /\ Writable(on) \cap MachineLines = {}
BY DEF Writable, MachineLines

LEMMA InitIInv == Init => IInv
<1>1. Idle \in CsrInProgress
  BY DEF Idle, CsrInProgress
<1>2. Init => TypeOK
  BY <1>1 DEF Init, TypeOK
<1>3. Init => LinesFollowLastWriter
  BY DEF Init, LinesFollowLastWriter
<1> QED BY <1>2, <1>3 DEF IInv

\* A device update of a set of lines makes the device their last writer.
LEMMA DriveKeepsIInv ==
    ASSUME IInv, NEW S \in SUBSET Lines, NEW high \in BOOLEAN,
           SetInterruptPending(S, high), UNCHANGED <<stce, mideleg, csr>>,
           timer' \in BOOLEAN
    PROVE  IInv'
BY DEF IInv, TypeOK, LinesFollowLastWriter, SetInterruptPending

LEMMA NextIInv == IInv /\ [Next]_vars => IInv'
<1> SUFFICES ASSUME IInv, [Next]_vars PROVE IInv'
  OBVIOUS
<1>1. ASSUME NEW b \in HostLines, NEW high \in BOOLEAN, HostDrive(b, high)
      PROVE  IInv'
  BY <1>1, DriveKeepsIInv DEF HostDrive, HostLines, IInv, TypeOK
<1>2. ASSUME NEW S \in SUBSET (Lines \ {"MTIP", "STIP"}), NEW high \in BOOLEAN,
             CpuDrive(S, high)
      PROVE  IInv'
  BY <1>2, DriveKeepsIInv DEF CpuDrive, IInv, TypeOK
<1>3. ASSUME NEW high \in BOOLEAN, TimerDrive(high)
      PROVE  IInv'
  <2>1. Lines \cap {"STIP"} \in SUBSET Lines
    OBVIOUS
  <2> QED BY <1>3, <2>1, DriveKeepsIInv DEF TimerDrive
<1>4. CASE TimerSample
  BY <1>4 DEF TimerSample, IInv, TypeOK, LinesFollowLastWriter
<1>5. ASSUME NEW reg \in {"mip", "sip"}, NEW S \in SUBSET Lines,
             CsrSwap(reg, S) \/ CsrSet(reg, S) \/ CsrClear(reg, S)
      PROVE  IInv'
  <2>1. View(reg) \in SUBSET Lines
    BY DEF View, IInv, TypeOK
  <2>2. csr' \in CsrInProgress
    BY <1>5, <2>1 DEF CsrSwap, CsrSet, CsrClear, CsrInProgress
  <2> QED BY <1>5, <2>2 DEF CsrSwap, CsrSet, CsrClear, IInv, TypeOK,
                            LinesFollowLastWriter
<1>6. CASE CsrLoad
  <2>1. csr' \in CsrInProgress
    BY <1>6 DEF CsrLoad, CsrInProgress, IInv, TypeOK
  <2> QED BY <1>6, <2>1 DEF CsrLoad, IInv, TypeOK, LinesFollowLastWriter
<1>7. CASE CsrCommit
  <2>1. csr' \in CsrInProgress /\ csr.v \in SUBSET Lines
    BY <1>7 DEF CsrCommit, Idle, CsrInProgress, IInv, TypeOK
  <2>2. mip' = (mip \ Writable(stce)) \cup (csr.v \cap Writable(stce))
    BY <1>7 DEF CsrCommit, Merge
  <2>3. /\ soft' = soft \cup Writable(stce)
        /\ UNCHANGED <<stce, mideleg, timer, hw>>
    BY <1>7 DEF CsrCommit
  <2>4. TypeOK'
    BY <2>1, <2>2, <2>3, WritableIsSoft DEF IInv, TypeOK
  <2>5. LinesFollowLastWriter'
    BY <2>2, <2>3, WritableIsSoft DEF IInv, TypeOK, LinesFollowLastWriter
  <2> QED BY <2>4, <2>5 DEF IInv
<1>8. CASE CsrRetry
  <2>1. csr' \in CsrInProgress
    BY <1>8 DEF CsrRetry, CsrInProgress, IInv, TypeOK
  <2> QED BY <1>8, <2>1 DEF CsrRetry, IInv, TypeOK, LinesFollowLastWriter
<1>9. ASSUME NEW S \in SUBSET Lines, MidelegWrite(S)
      PROVE  IInv'
  BY <1>9 DEF MidelegWrite, IInv, TypeOK, LinesFollowLastWriter
<1>10. ASSUME NEW on \in BOOLEAN, MenvcfgWrite(on)
       PROVE  IInv'
  BY <1>10 DEF MenvcfgWrite, IInv, TypeOK, LinesFollowLastWriter
<1>11. CASE UNCHANGED vars
  BY <1>11 DEF vars, IInv, TypeOK, LinesFollowLastWriter
<1> QED BY <1>1, <1>2, <1>3, <1>4, <1>5, <1>6, <1>7, <1>8, <1>9, <1>10, <1>11
        DEF Next, Device, Guest

\* The invariant holds in every reachable state.
THEOREM IInvHolds == Spec => []IInv
BY InitIInv, NextIInv, PTL DEF Spec

\* The registers keep their types through every interleaving of CSR instructions
\* and device updates.
THEOREM TypeCorrect == Spec => []TypeOK
BY IInvHolds, PTL DEF IInv

\* Every line follows its last writer, and software never is the last writer
\* of a machine line.
THEOREM LastWriterHolds == Spec => []LinesFollowLastWriter
BY IInvHolds, PTL DEF IInv

\* Machine-level interrupts are neither lost nor forged by CSR instructions
\* that race with the devices.
THEOREM MachineLinesHold == Spec => []MachineLinesAreHardware
<1>1. IInv => MachineLinesAreHardware
  BY DEF IInv, TypeOK, LinesFollowLastWriter, MachineLinesAreHardware
<1> QED BY <1>1, IInvHolds, PTL

\* While software owns STIP the CLINT leaves the line alone, once the update
\* that had already tested STCE is over.
THEOREM TimerHolds == Spec => TimerRespectsStce
<1> DEFINE Step == ~stce /\ ~timer =>
                     /\ ~timer'
                     /\ ("STIP" \in mip) # ("STIP" \in mip') => CsrCommit
<1>1. ASSUME IInv, Next PROVE Step
  <2> SUFFICES ASSUME ~stce, ~timer
               PROVE  ~timer' /\ (CsrCommit \/ ("STIP" \in mip <=> "STIP" \in mip'))
    OBVIOUS
  <2>1. CASE Device
    BY <2>1 DEF Device, HostDrive, HostLines, CpuDrive, TimerDrive, TimerSample,
                SetInterruptPending
  <2>2. CASE Guest
    BY <2>2 DEF Guest, CsrSwap, CsrSet, CsrClear, CsrLoad, CsrCommit, CsrRetry,
                MidelegWrite, MenvcfgWrite
  <2> QED BY <1>1, <2>1, <2>2 DEF Next
<1>2. IInv /\ [Next]_vars => [Step]_vars
  BY <1>1
<1> QED BY <1>2, IInvHolds, PTL DEF Spec, TimerRespectsStce

-----------------------------------------------------------------------------
(* Refinement: only a device update and a successful compare-exchange      *)
(* change mip, and each is one step of the atomic register.                *)

LEMMA InitRefines == Init => Atomic!Init
BY DEF Init, Atomic!Init

LEMMA NextRefines == IInv /\ [Next]_vars => [Atomic!Next]_<<mip, stce>>
<1> SUFFICES ASSUME IInv, [Next]_vars PROVE [Atomic!Next]_<<mip, stce>>
  OBVIOUS
<1>1. ASSUME NEW S \in SUBSET Lines, NEW high \in BOOLEAN,
             SetInterruptPending(S, high), UNCHANGED stce
      PROVE  Atomic!Next
  <2>1. Atomic!Drive(S, high)
    BY <1>1 DEF SetInterruptPending, Atomic!Drive
  <2> QED BY <2>1 DEF Atomic!Next
<1>2. ASSUME NEW b \in HostLines, NEW high \in BOOLEAN, HostDrive(b, high)
      PROVE  Atomic!Next
  BY <1>1, <1>2 DEF HostDrive, HostLines
<1>3. ASSUME NEW S \in SUBSET (Lines \ {"MTIP", "STIP"}), NEW high \in BOOLEAN,
             CpuDrive(S, high)
      PROVE  Atomic!Next
  BY <1>1, <1>3 DEF CpuDrive
<1>4. ASSUME NEW high \in BOOLEAN, TimerDrive(high)
      PROVE  Atomic!Next
  <2>1. Lines \cap {"STIP"} \in SUBSET Lines
    OBVIOUS
  <2> QED BY <1>1, <1>4, <2>1 DEF TimerDrive
<1>5. CASE CsrCommit
  <2>1. csr.v \in SUBSET Lines
    BY DEF IInv, TypeOK, CsrInProgress
  <2>2. Atomic!Write(csr.v)
    BY <1>5 DEF CsrCommit, Merge, Atomic!Write, Atomic!Writable, Writable
  <2> QED BY <2>1, <2>2 DEF Atomic!Next
<1>6. ASSUME NEW on \in BOOLEAN, MenvcfgWrite(on)
      PROVE  Atomic!Next
  <2>1. Atomic!SetStce(on)
    BY <1>6 DEF MenvcfgWrite, Atomic!SetStce
  <2> QED BY <2>1 DEF Atomic!Next
<1>7. ASSUME \/ TimerSample
             \/ \E reg \in {"mip", "sip"}, S \in SUBSET Lines :
                  CsrSwap(reg, S) \/ CsrSet(reg, S) \/ CsrClear(reg, S)
             \/ CsrLoad \/ CsrRetry
             \/ \E S \in SUBSET Lines : MidelegWrite(S)
             \/ UNCHANGED vars
      PROVE  UNCHANGED <<mip, stce>>
  BY <1>7 DEF TimerSample, CsrSwap, CsrSet, CsrClear, CsrLoad, CsrRetry,
              MidelegWrite, vars
<1> QED BY <1>2, <1>3, <1>4, <1>5, <1>6, <1>7 DEF Next, Device, Guest

\* The register with its CSR instructions implements the atomic register: no
\* interleaving of the compare-exchange loop with the devices is visible.
THEOREM Refinement == Spec => ImplementsAtomic
BY InitRefines, NextRefines, IInvHolds, PTL DEF Spec, ImplementsAtomic, Atomic!Spec
=============================================================================
