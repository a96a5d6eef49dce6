-------------------------------- MODULE Hart --------------------------------
(* The privileged state of the hart and the loop that runs instructions:   *)
(* traps and their delegation, interrupts, xRET, WFI and the CSRs that     *)
(* steer them (src/core/hart.cpp, include/core/hart.hpp, the privileged    *)
(* instructions of src/core/execute.cpp and the loop of                    *)
(* src/execution_engine.cpp, cpu_thread).                                  *)
(*                                                                         *)
(* The loop checks for interrupts only every Batch instructions, or at     *)
(* once after an instruction that may have unmasked one.  mip moves at any *)
(* moment: devices drive it from another thread and CSR instructions write *)
(* it (module Mip); here it is an input.                                   *)
EXTENDS MipLines

CONSTANTS
    PCs,            \* instruction addresses
    Batch,          \* 256: instructions between two checks for interrupts
    Faults,         \* causes of synchronous exceptions, "illegal" and the ecalls
    Delegable,      \* the bits of medeleg the guest touches
    MstatusInputs   \* the values the guest writes to mstatus and sstatus

U == 0
S == 1
M == 3

Mstatus == [MIE : BOOLEAN, MPIE : BOOLEAN, MPP : 0 .. 3, SIE : BOOLEAN,
            SPIE : BOOLEAN, SPP : {U, S}, MPRV : BOOLEAN, TW : BOOLEAN,
            TSR : BOOLEAN]

Ecalls == {"ecallU", "ecallS", "ecallM"}

ASSUME HartAssumption ==
    /\ PCs # {}
    /\ Batch \in Nat \ {0}
    /\ {"illegal"} \cup Ecalls \subseteq Faults
    /\ Faults \cap AllLines = {}
    /\ Delegable \subseteq Faults
    /\ MstatusInputs \subseteq Mstatus

VARIABLES
    priv,      \* current privilege level
    ms,        \* mstatus; sstatus is a view of it
    pc, mepc, sepc,
    mip, mie, mideleg, medeleg,
    phase,     \* where the loop of cpu_thread is
    slot,      \* the loop counter i modulo Batch
    icp,       \* interrupt_check_pending
    mframe,    \* history: what the last trap into M interrupted
    sframe,    \* history: what the last trap into S interrupted
    waited     \* history: instructions run while an interrupt was deliverable

state == <<priv, ms, pc, mepc, sepc, mframe, sframe>>
masks == <<mie, mideleg, medeleg>>
vars  == <<state, masks, mip, phase, slot, icp, waited>>

\* valid: the guest has not overwritten what the trap saved.
Frame == [valid : BOOLEAN, priv : 0 .. 3, ie : BOOLEAN, pc : PCs]

TypeOK ==
    /\ priv \in 0 .. 3
    /\ ms \in Mstatus
    /\ pc \in PCs /\ mepc \in PCs /\ sepc \in PCs
    /\ mip \in SUBSET Lines
    /\ mie \in SUBSET Lines
    /\ mideleg \in SUBSET (Lines \ MachineLines)
    /\ medeleg \in SUBSET (Faults \ {"ecallM"})
    /\ phase \in {"top", "exec", "wfi", "woken"}
    /\ slot \in 0 .. Batch - 1
    /\ icp \in BOOLEAN
    /\ mframe \in Frame /\ sframe \in Frame
    /\ waited \in Nat

Init ==
    /\ priv = M
    /\ ms = [MIE |-> FALSE, MPIE |-> FALSE, MPP |-> U, SIE |-> FALSE,
             SPIE |-> FALSE, SPP |-> U, MPRV |-> FALSE, TW |-> FALSE,
             TSR |-> FALSE]
    /\ \E p \in PCs :
         /\ pc = p /\ mepc = p /\ sepc = p
         /\ mframe = [valid |-> FALSE, priv |-> M, ie |-> FALSE, pc |-> p]
         /\ sframe = mframe
    /\ mip = {} /\ mie = {} /\ mideleg = {} /\ medeleg = {}
    /\ phase = "top" /\ slot = 0 /\ icp = FALSE
    /\ waited = 0

-----------------------------------------------------------------------------
(* Traps.                                                                  *)

(* Wrong variant: delegation applies whatever the current privilege. *)
DelegatedFromAnywhere(c, deleg) == c \in deleg

\* handle_trap delegates only what interrupts S or U.
Delegated(c, deleg) == priv <= S /\ c \in deleg

(* Wrong variant: the trap into M stacks the S-mode interrupt enable too. *)
TrapToMStacksSie(p) ==
    /\ priv' = M
    /\ mepc' = p
    /\ ms' = [ms EXCEPT !.MPIE = ms.MIE, !.MPP = priv, !.MIE = FALSE,
                        !.SPIE = ms.SIE]
    /\ mframe' = [valid |-> TRUE, priv |-> priv, ie |-> ms.MIE, pc |-> p]
    /\ UNCHANGED <<sepc, sframe>>

TrapToM(p) ==
    /\ priv' = M
    /\ mepc' = p
    /\ ms' = [ms EXCEPT !.MPIE = ms.MIE, !.MPP = priv, !.MIE = FALSE]
    /\ mframe' = [valid |-> TRUE, priv |-> priv, ie |-> ms.MIE, pc |-> p]
    /\ UNCHANGED <<sepc, sframe>>

(* Wrong variant: the trap leaves interrupts enabled in S. *)
TrapToSKeepsSie(p) ==
    /\ priv' = S
    /\ sepc' = p
    /\ ms' = [ms EXCEPT !.SPIE = ms.SIE, !.SPP = IF priv >= S THEN S ELSE U]
    /\ sframe' = [valid |-> TRUE, priv |-> priv, ie |-> ms.SIE, pc |-> p]
    /\ UNCHANGED <<mepc, mframe>>

TrapToS(p) ==
    /\ priv' = S
    /\ sepc' = p
    /\ ms' = [ms EXCEPT !.SPIE = ms.SIE, !.SPP = IF priv >= S THEN S ELSE U,
                        !.SIE = FALSE]
    /\ sframe' = [valid |-> TRUE, priv |-> priv, ie |-> ms.SIE, pc |-> p]
    /\ UNCHANGED <<mepc, mframe>>

\* handle_trap for a trap at p with cause c; the guest chose the vector.
HandleTrap(p, c, deleg) ==
    /\ \/ Delegated(c, deleg) /\ TrapToS(p)
       \/ ~Delegated(c, deleg) /\ TrapToM(p)
    /\ pc' \in PCs

-----------------------------------------------------------------------------
(* The loop of cpu_thread: one iteration is a check, if one is due, and an *)
(* instruction; a trap or the end of the instruction ends the iteration.   *)

EndIteration ==
    /\ phase' = "top"
    /\ slot' = IF slot = Batch - 1 THEN 0 ELSE slot + 1

MEnabled == priv < M \/ (priv = M /\ ms.MIE)

SEnabled == priv < S \/ (priv = S /\ ms.SIE)

\* The decision of check_interrupts for one line.
Deliverable(b) ==
    /\ b \in mip /\ b \in mie
    /\ IF b \in mideleg THEN SEnabled ELSE MEnabled

AnyDeliverable == \E b \in Lines : Deliverable(b)

\* MEI > MSI > MTI > SEI > SSI > STI
Rank == [MEIP |-> 1, MSIP |-> 2, MTIP |-> 3, SEIP |-> 4, SSIP |-> 5, STIP |-> 6]

First(b) == Deliverable(b) /\ \A c \in Lines : Deliverable(c) => Rank[b] <= Rank[c]

\* check_interrupts throws for line b and the loop hands it to handle_trap.
TakeInterrupt(b) ==
    /\ First(b)
    /\ HandleTrap(pc, b, mideleg)
    /\ EndIteration
    /\ waited' = 0

\* check_interrupts, called with the loop about to go on as next says.
CheckInterrupts(next) ==
    /\ icp' = FALSE
    /\ \/ \E b \in Lines : TakeInterrupt(b)
       \/ /\ ~AnyDeliverable
          /\ UNCHANGED <<state, waited>>
          /\ next
    /\ UNCHANGED <<masks, mip>>

GoExecute == phase' = "exec" /\ UNCHANGED slot

(* Wrong variant: interrupts are looked for only when a check is requested. *)
TopOnRequestOnly ==
    /\ phase = "top"
    /\ \/ icp /\ CheckInterrupts(GoExecute)
       \/ ~icp /\ GoExecute /\ UNCHANGED <<state, masks, mip, icp, waited>>

Top ==
    /\ phase = "top"
    /\ \/ (slot = 0 \/ icp) /\ CheckInterrupts(GoExecute)
       \/ slot # 0 /\ ~icp /\ GoExecute /\ UNCHANGED <<state, masks, mip, icp, waited>>

(* Wrong variant: WFI ends only for an interrupt that can be taken. *)
WfiPollDeliverable ==
    /\ phase = "wfi"
    /\ AnyDeliverable
    /\ phase' = "woken"
    /\ UNCHANGED <<state, masks, mip, slot, icp, waited>>

\* The polling loop after WfiWait: it ends when a line is pending and enabled
\* in mie, deliverable or not ...
WfiPoll ==
    /\ phase = "wfi"
    /\ mip \cap mie # {}
    /\ phase' = "woken"
    /\ UNCHANGED <<state, masks, mip, slot, icp, waited>>

\* ... and checks for interrupts, with mip read once more.
WfiCheck ==
    /\ phase = "woken"
    /\ CheckInterrupts(EndIteration)

\* Devices and CSR instructions move the lines at any time.
MipMoves ==
    /\ mip' \in SUBSET Lines
    /\ UNCHANGED <<state, masks, phase, slot, icp>>
    /\ waited' = IF AnyDeliverable' THEN waited ELSE 0

-----------------------------------------------------------------------------
(* Instructions.                                                           *)

\* History: one more instruction has run with an interrupt deliverable.
CountInstruction ==
    waited' = IF AnyDeliverable /\ AnyDeliverable' THEN waited + 1 ELSE 0

Raise(c) ==
    /\ HandleTrap(pc, c, medeleg)
    /\ EndIteration
    /\ UNCHANGED <<masks, mip>>

\* An instruction with no privileged effect.
Plain ==
    /\ phase = "exec"
    /\ pc' \in PCs
    /\ EndIteration
    /\ UNCHANGED <<priv, ms, mepc, sepc, mframe, sframe, masks, mip, icp>>
    /\ CountInstruction

\* A synchronous exception: an access fault, ebreak, an illegal encoding, ...
Fault(c) ==
    /\ phase = "exec"
    /\ Raise(c)
    /\ UNCHANGED icp
    /\ CountInstruction

\* ecall; any other value of priv is std::unreachable().
Ecall ==
    /\ phase = "exec"
    /\ \/ priv = U /\ Raise("ecallU")
       \/ priv = S /\ Raise("ecallS")
       \/ priv = M /\ Raise("ecallM")
    /\ UNCHANGED icp
    /\ CountInstruction

(* Wrong variant: no check is requested. *)
PrivilegedNoRequest(allowed, effect) ==
    /\ phase = "exec"
    /\ UNCHANGED icp
    /\ \/ ~allowed /\ Raise("illegal")
       \/ allowed /\ effect
    /\ CountInstruction

\* The instructions below set interrupt_check_pending before anything else;
\* one that is not allowed raises an illegal-instruction exception.
Privileged(allowed, effect) ==
    /\ phase = "exec"
    /\ icp' = TRUE
    /\ \/ ~allowed /\ Raise("illegal")
       \/ allowed /\ effect
    /\ CountInstruction

MretReturns ==
    /\ pc' = mepc
    /\ priv' = ms.MPP
    /\ ms' = [ms EXCEPT !.MIE = ms.MPIE, !.MPIE = TRUE, !.MPP = U,
                        !.MPRV = ms.MPRV /\ ms.MPP = M]
    /\ mframe' = [mframe EXCEPT !.valid = FALSE]
    /\ EndIteration
    /\ UNCHANGED <<mepc, sepc, sframe, masks, mip>>

Mret == Privileged(priv = M, MretReturns)

(* Wrong variant: sret keeps MPRV, which sstatus does not contain. *)
SretReturnsKeepsMprv ==
    /\ pc' = sepc
    /\ priv' = ms.SPP
    /\ ms' = [ms EXCEPT !.SIE = ms.SPIE, !.SPIE = TRUE, !.SPP = U]
    /\ sframe' = [sframe EXCEPT !.valid = FALSE]
    /\ EndIteration
    /\ UNCHANGED <<mepc, sepc, mframe, masks, mip>>

SretReturns ==
    /\ pc' = sepc
    /\ priv' = ms.SPP
    /\ ms' = [ms EXCEPT !.SIE = ms.SPIE, !.SPIE = TRUE, !.SPP = U, !.MPRV = FALSE]
    /\ sframe' = [sframe EXCEPT !.valid = FALSE]
    /\ EndIteration
    /\ UNCHANGED <<mepc, sepc, mframe, masks, mip>>

Sret == Privileged(~(priv = U \/ (priv = S /\ ms.TSR)), SretReturns)

\* wfi falls through when an interrupt is pending or none is enabled.
WfiWaits ==
    /\ pc' \in PCs
    /\ IF mip \cap mie # {} \/ mie = {}
       THEN EndIteration ELSE phase' = "wfi" /\ UNCHANGED slot
    /\ UNCHANGED <<priv, ms, mepc, sepc, mframe, sframe, masks, mip>>

Wfi == Privileged(~(priv = U \/ (priv < M /\ ms.TW)), WfiWaits)

\* A CSR instruction that writes: level is the CSR's minimum privilege.
CsrWrite(level, effect) ==
    Privileged(priv >= level, effect /\ pc' \in PCs /\ EndIteration /\ UNCHANGED <<priv, mip>>)

MstatusWrite(v) ==
    /\ ms' = v
    /\ mframe' = [mframe EXCEPT !.valid = FALSE]
    /\ sframe' = [sframe EXCEPT !.valid = FALSE]
    /\ UNCHANGED <<mepc, sepc, masks>>

SstatusWrite(v) ==
    /\ ms' = [ms EXCEPT !.SIE = v.SIE, !.SPIE = v.SPIE, !.SPP = v.SPP]
    /\ sframe' = [sframe EXCEPT !.valid = FALSE]
    /\ UNCHANGED <<mepc, sepc, mframe, masks>>

MepcWrite(p) ==
    /\ mepc' = p
    /\ mframe' = [mframe EXCEPT !.valid = FALSE]
    /\ UNCHANGED <<ms, sepc, sframe, masks>>

SepcWrite(p) ==
    /\ sepc' = p
    /\ sframe' = [sframe EXCEPT !.valid = FALSE]
    /\ UNCHANGED <<ms, mepc, mframe, masks>>

\* A CSR write of mask registers only; mie, mideleg and medeleg become these.
MaskWrite(ie, id, ed) ==
    /\ mie' = ie /\ mideleg' = id /\ medeleg' = ed
    /\ UNCHANGED <<ms, mepc, sepc, mframe, sframe>>

MieWrite(v) == MaskWrite(v, mideleg, medeleg)

\* sie hands its masked value to mie, whose write replaces the whole register.
SieWrite(v) == MaskWrite(v \ MachineLines, mideleg, medeleg)

MidelegWrite(v) == MaskWrite(mie, v \ MachineLines, medeleg)

MedelegWrite(v) == MaskWrite(mie, mideleg, v \ {"ecallM"})

\* mip, sip and the CSRs with no bearing on traps.
OtherWrite == MaskWrite(mie, mideleg, medeleg)

Csr ==
    \/ \E v \in MstatusInputs : CsrWrite(M, MstatusWrite(v)) \/ CsrWrite(S, SstatusWrite(v))
    \/ \E p \in PCs : CsrWrite(M, MepcWrite(p)) \/ CsrWrite(S, SepcWrite(p))
    \/ \E v \in SUBSET Lines :
         \/ CsrWrite(M, MieWrite(v)) \/ CsrWrite(S, SieWrite(v))
         \/ CsrWrite(M, MidelegWrite(v))
    \/ \E v \in SUBSET Delegable : CsrWrite(M, MedelegWrite(v))
    \/ \E level \in {U, S, M} : CsrWrite(level, OtherWrite)

-----------------------------------------------------------------------------
Cpu == \/ Top \/ WfiPoll \/ WfiCheck \/ Plain \/ Ecall \/ Mret \/ Sret \/ Wfi \/ Csr
       \/ \E c \in Faults \ Ecalls : Fault(c)

Next == Cpu \/ MipMoves

Spec == Init /\ [][Next]_vars

\* The host's scheduler keeps running the CPU thread, so its poll and the check
\* after it are not postponed for ever.
FairSpec == Spec /\ WF_vars(WfiPoll) /\ WF_vars(WfiCheck)

-----------------------------------------------------------------------------
(* Properties.                                                             *)

\* MPRV redirects the loads and stores of M-mode only: whenever the hart runs
\* in a lower privilege, reached by mret, by sret or by any chain of traps
\* and returns, MPRV is off.
MprvOnlyInM == priv # M => ~ms.MPRV

\* A deliverable interrupt waits for at most Batch instructions, whenever its
\* line rose and whatever the instructions in between did.
BoundedDelay == waited <= Batch

\* An instruction that unmasks a pending interrupt (a CSR write, mret, sret)
\* makes the loop check for it before the next instruction; exceptions and
\* plain instructions, which request no check, never unmask one.
UnmaskingIsNoticed ==
    [][phase = "exec" /\ phase' = "top" /\ ~AnyDeliverable /\ AnyDeliverable'
         => icp']_vars

\* A trap and the return from it are transparent: mret (sret) resumes the
\* privilege, the interrupt enable and the pc that the trap interrupted, for
\* all that traps, returns and CSR writes of the other level did in between.
RoundTrip ==
    [][/\ Mret /\ priv = M /\ mframe.valid =>
            priv' = mframe.priv /\ ms'.MIE = mframe.ie /\ pc' = mframe.pc
       /\ Sret /\ priv \in {S, M} /\ ~(priv = S /\ ms.TSR) /\ sframe.valid =>
            priv' = sframe.priv /\ ms'.SIE = sframe.ie /\ pc' = sframe.pc]_vars

\* Privilege rises only through a trap, which records the interrupted level,
\* and falls only through mret or sret: a trap never lowers it.  And although
\* check_interrupts and handle_trap decide apart where an interrupt goes, they
\* agree: a delegated line is taken in S, any other in M.
PrivilegeMoves ==
    [][/\ priv' > priv => \/ priv' = M /\ mframe'.valid /\ mframe'.priv = priv
                          \/ priv' = S /\ sframe'.valid /\ sframe'.priv = priv
       /\ priv' < priv => Mret \/ Sret
       /\ \A b \in Lines : icp' = FALSE /\ TakeInterrupt(b) =>
             (priv' = S <=> b \in mideleg)]_vars

\* A hart in WFI wakes up when an enabled line stays pending.
WfiWakes == <>[](mip \cap mie # {}) => []<>(phase \in {"top", "exec"})

\* execute.cpp:265 asserts with std::unreachable() that priv is U, S or M.
PrivIsDefined == priv \in {U, S, M}
=============================================================================
