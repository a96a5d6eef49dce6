-------------------------------- MODULE Mip ---------------------------------
(* The mip register of the hart, include/core/hart.hpp (class MIP, SIP,    *)
(* MIDELEG, MENVCFG) with the CSR instructions of src/core/execute.cpp.    *)
(*                                                                         *)
(* mip is one atomic word.  Devices set and clear lines of it from the     *)
(* host thread and from the CPU thread with fetch_or / fetch_and.  A CSR   *)
(* instruction on mip or sip reads the register, computes a value and      *)
(* writes it with a compare-exchange loop; a device may act between any    *)
(* two of these steps.                                                     *)
EXTENDS MipLines

VARIABLES
    mip,      \* the pending lines
    stce,     \* menvcfg.STCE: the S-mode timer line belongs to the CLINT
    mideleg,  \* the delegated lines
    csr,      \* the CSR instruction in progress on the CPU thread
    timer,    \* the host thread is in handle_stimecmp, past its test of STCE
    hw,       \* history: the lines devices have last driven high
    soft      \* history: the lines last written by a CSR instruction

vars == <<mip, stce, mideleg, csr, timer, hw, soft>>

\* v is the value to write; old is what the compare-exchange expects.
CsrInProgress == [at : {"idle", "write", "cas"}, reg : {"mip", "sip"},
                  v : SUBSET Lines, old : SUBSET Lines]
Idle == [at |-> "idle", reg |-> "mip", v |-> {}, old |-> {}]

TypeOK ==
    /\ mip \in SUBSET Lines
    /\ stce \in BOOLEAN
    /\ mideleg \in SUBSET (Lines \ MachineLines)
    /\ csr \in CsrInProgress
    /\ timer \in BOOLEAN
    /\ hw \in SUBSET Lines
    /\ soft \in SUBSET Lines

Init ==
    /\ mip = {}
    /\ stce = FALSE
    /\ mideleg = {}
    /\ csr = Idle
    /\ timer = FALSE
    /\ hw = {}
    /\ soft = {}

-----------------------------------------------------------------------------
(* Devices: Hart::set_interrupt_pending, one fetch_or or fetch_and.        *)

\* The lines that a tick on the host thread can move at any time; STIP is below.
HostLines == Lines \cap {"MEIP", "SEIP", "MTIP"}

SetInterruptPending(S, high) ==
    /\ mip' = IF high THEN mip \cup S ELSE mip \ S
    /\ hw' = IF high THEN hw \cup S ELSE hw \ S
    /\ soft' = soft \ S

HostDrive(b, high) ==
    /\ SetInterruptPending({b}, high)
    /\ UNCHANGED <<stce, mideleg, csr, timer>>

\* A guest store to the CLINT, to the PLIC or to TestIntrGen, which may name
\* several lines at once.  A store that ticks the CLINT moves the timer lines
\* the way the host thread does.
CpuDrive(S, high) ==
    /\ csr.at = "idle"
    /\ SetInterruptPending(S, high)
    /\ UNCHANGED <<stce, mideleg, csr, timer>>

(* Wrong variant: the sample is taken without looking at STCE. *)
TimerSampleUnchecked ==
    /\ ~timer /\ timer' = TRUE
    /\ UNCHANGED <<mip, stce, mideleg, csr, hw, soft>>

\* handle_stimecmp on the host thread: the test of menvcfg.STCE ...
TimerSample ==
    /\ stce /\ ~timer
    /\ timer' = TRUE
    /\ UNCHANGED <<mip, stce, mideleg, csr, hw, soft>>

\* ... and the update of STIP that follows it.
TimerDrive(high) ==
    /\ timer
    /\ timer' = FALSE
    /\ SetInterruptPending(Lines \cap {"STIP"}, high)
    /\ UNCHANGED <<stce, mideleg, csr>>

-----------------------------------------------------------------------------
(* CSR instructions of the guest.                                          *)

\* read_unchecked of mip and of sip.
View(reg) == IF reg = "mip" THEN mip ELSE mip \cap mideleg

\* csrrw: the value comes from a register.
CsrSwap(reg, v) ==
    /\ csr.at = "idle"
    /\ csr' = [at |-> "write", reg |-> reg, v |-> v, old |-> {}]
    /\ UNCHANGED <<mip, stce, mideleg, timer, hw, soft>>

\* csrrs and csrrc: the value is the one just read, with bits set or cleared.
CsrSet(reg, S) ==
    /\ csr.at = "idle"
    /\ csr' = [at |-> "write", reg |-> reg, v |-> View(reg) \cup S, old |-> {}]
    /\ UNCHANGED <<mip, stce, mideleg, timer, hw, soft>>

CsrClear(reg, S) ==
    /\ csr.at = "idle"
    /\ csr' = [at |-> "write", reg |-> reg, v |-> View(reg) \ S, old |-> {}]
    /\ UNCHANGED <<mip, stce, mideleg, timer, hw, soft>>

\* write_unchecked: sip masks the value with SSIP and mideleg and hands it to
\* mip, whose loop starts with a load.
CsrLoad ==
    /\ csr.at = "write"
    /\ csr' = [csr EXCEPT !.at = "cas", !.old = mip,
                          !.v = IF csr.reg = "mip" THEN csr.v
                                ELSE csr.v \cap {"SSIP"} \cap mideleg]
    /\ UNCHANGED <<mip, stce, mideleg, timer, hw, soft>>

(* Wrong variant: STIP is written although the CLINT owns it. *)
MergeIgnoresStce(old, v) == (old \ Writable(FALSE)) \cup (v \cap Writable(FALSE))

\* new_val of the loop: the writable lines from v, the others as they were.
Merge(old, v) == (old \ Writable(stce)) \cup (v \cap Writable(stce))

(* Wrong variant: a plain store instead of a compare-exchange. *)
CsrStoreUnconditional ==
    /\ csr.at = "cas"
    /\ mip' = Merge(csr.old, csr.v)
    /\ csr' = Idle
    /\ soft' = soft \cup Writable(stce)
    /\ UNCHANGED <<stce, mideleg, timer, hw>>

\* compare_exchange_weak succeeds ...
CsrCommit ==
    /\ csr.at = "cas"
    /\ mip = csr.old
    /\ mip' = Merge(csr.old, csr.v)
    /\ csr' = Idle
    /\ soft' = soft \cup Writable(stce)
    /\ UNCHANGED <<stce, mideleg, timer, hw>>

\* ... or fails, possibly spuriously, and reloads.
CsrRetry ==
    /\ csr.at = "cas"
    /\ csr' = [csr EXCEPT !.old = mip]
    /\ UNCHANGED <<mip, stce, mideleg, timer, hw, soft>>

MidelegWrite(v) ==
    /\ csr.at = "idle"
    /\ mideleg' = v \ MachineLines
    /\ UNCHANGED <<mip, stce, csr, timer, hw, soft>>

MenvcfgWrite(on) ==
    /\ csr.at = "idle"
    /\ stce' = on
    /\ UNCHANGED <<mip, mideleg, csr, timer, hw, soft>>

-----------------------------------------------------------------------------
Device ==
    \/ \E high \in BOOLEAN :
         \/ \E b \in HostLines : HostDrive(b, high)
         \/ \E S \in SUBSET (Lines \ {"MTIP", "STIP"}) : CpuDrive(S, high)
         \/ TimerDrive(high)
    \/ TimerSample

Guest ==
    \/ \E reg \in {"mip", "sip"}, S \in SUBSET Lines :
         CsrSwap(reg, S) \/ CsrSet(reg, S) \/ CsrClear(reg, S)
    \/ CsrLoad
    \/ CsrCommit
    \/ CsrRetry
    \/ \E S \in SUBSET Lines : MidelegWrite(S)
    \/ \E on \in BOOLEAN : MenvcfgWrite(on)

Next == Device \/ Guest

Spec == Init /\ [][Next]_vars

-----------------------------------------------------------------------------
(* Properties.                                                             *)

\* No CSR instruction, however it interleaves with the devices, loses or
\* forges a machine-level interrupt: MEIP, MTIP and MSIP always are what the
\* devices last drove.  This is what the compare-exchange loop is for.
MachineLinesAreHardware == mip \cap MachineLines = hw \cap MachineLines

\* The other lines follow the devices until a CSR instruction writes them,
\* and a CSR instruction writes STIP only while the guest owns it.
LinesFollowLastWriter ==
    /\ \A b \in Lines \ soft : b \in mip <=> b \in hw
    /\ soft \cap MachineLines = {}

\* While menvcfg.STCE is off, STIP belongs to software: once the update whose
\* test of STCE came before the write that cleared it is over, the CLINT starts
\* no other and only a CSR write moves the line.
TimerRespectsStce ==
    [][~stce /\ ~timer =>
         /\ ~timer'
         /\ ("STIP" \in mip) # ("STIP" \in mip') => CsrCommit]_vars

\* The register with its read-modify-write instructions and its
\* compare-exchange loop implements the atomic register.
Atomic == INSTANCE MipAtomic
ImplementsAtomic == Atomic!Spec

\* hart.hpp:927 says that only SSIP is writable through sip: a write of sip
\* that commits leaves the other lines alone.
SipWritesOnlySsip ==
    [][CsrCommit /\ csr.reg = "sip" => mip' \ {"SSIP"} = mip \ {"SSIP"}]_vars
=============================================================================
