---------------------------- MODULE InterruptPath ----------------------------
(* The way of a device interrupt through the machine that Emulator builds: *)
(* a device drives its source of the PLIC (module Plic), the PLIC drives   *)
(* mip of the hart, and the loop of the CPU thread (module Hart) takes the *)
(* interrupt into the guest, whose handler claims it, makes the device     *)
(* lower its line and completes it.  The guest is not part of the          *)
(* repository: it is the smallest supervisor that uses the machine as the  *)
(* handlers of plic.cpp, hart.hpp and execute.cpp expect, started in M as  *)
(* the hart is.  Devices move their lines from the host thread at any      *)
(* moment, the boot included, and lower them unasked too.                  *)
EXTENDS Integers

CONSTANTS NumIds, PrioBits,   \* of the PLIC
          Batch               \* instructions between two checks for interrupts

\* The instructions of the guest.
Boot    == {"mideleg", "mepc", "mstatus", "mret", "sie", "priority", "enable", "sstatus"}
Idle    == {"wfi", "work"}
Handler == {"claim", "device", "complete", "sret"}
PCs     == Boot \cup Idle \cup Handler

VARIABLES
    priority, level, ctx, eip, raising, skipped,    \* of the PLIC
    priv, ms, pc, mepc, sepc, mip, mie, mideleg, medeleg,
    phase, slot, icp, mframe, sframe, waited,       \* of the hart
    accessed,   \* the load or store at pc has reached its device
    irq,        \* guest register: the source the handler has claimed, or 0
    lowered     \* history: the host thread lowered a line since the last trap

P == INSTANCE Plic
H == INSTANCE Hart WITH
        Lines <- {"MEIP", "SEIP"}, Delegable <- {}, MstatusInputs <- {},
        Faults <- {"illegal", "ecallU", "ecallS", "ecallM"}

ASSUME PathAssumption == P!PlicAssumption /\ Batch \in Nat \ {0}

plic  == <<priority, level, ctx, eip, raising, skipped>>
hart  == <<priv, ms, pc, mepc, sepc, mip, mie, mideleg, medeleg,
           phase, slot, icp, mframe, sframe, waited>>
guest == <<accessed, irq, lowered>>
vars  == <<plic, hart, guest>>

Init ==
    /\ P!Init
    /\ pc = "mideleg"
    /\ H!Init
    /\ accessed = FALSE /\ irq = 0 /\ lowered = FALSE

-----------------------------------------------------------------------------
(* The wires.                                                              *)

\* context_update calls set_interrupt_pending of the hart: M-mode's context
\* drives MEIP, S-mode's SEIP.
Pins(e) == (IF e[0] THEN {"MEIP"} ELSE {}) \cup (IF e[1] THEN {"SEIP"} ELSE {})

\* A step of the PLIC and the move of the lines that it causes.
Drive(step) ==
    /\ step
    /\ mip' = Pins(eip')
    /\ H!MipMoves

\* update_irq of a device on the host thread, through request_irq.
HostRead(id, lvl) ==
    /\ Drive(P!SetLevelHostRead(id, lvl))
    /\ UNCHANGED guest

HostApply ==
    /\ Drive(P!SetLevelHostApply)
    /\ lowered' = (lowered \/ ~raising.lvl)
    /\ UNCHANGED <<accessed, irq>>

-----------------------------------------------------------------------------
(* The guest.                                                              *)

\* A load or store of the instruction at p: the device acts in the middle of
\* the instruction ...
Access(p, step) ==
    /\ pc = p /\ phase = "exec" /\ ~accessed
    /\ Drive(step)
    /\ accessed' = TRUE
    /\ UNCHANGED lowered

\* ... which then ends and goes on at q.
Retire(p, q) ==
    /\ pc = p /\ accessed
    /\ H!Plain /\ pc' = q
    /\ accessed' = FALSE
    /\ UNCHANGED <<plic, irq, lowered>>

\* Any other instruction: step is its action in Hart.
Run(p, step, q) ==
    /\ pc = p
    /\ step /\ pc' = q
    /\ UNCHANGED <<plic, guest>>

\* Interrupts are delegated to S, and mret goes there.
BootInM ==
    \/ Run("mideleg", H!CsrWrite(H!M, H!MidelegWrite({"SEIP"})), "mepc")
    \/ Run("mepc", H!CsrWrite(H!M, H!MepcWrite("sie")), "mstatus")
    \/ Run("mstatus", H!CsrWrite(H!M, H!MstatusWrite([ms EXCEPT !.MPP = H!S])), "mret")
    \/ Run("mret", H!Mret, "sie")

\* Every source gets priority 1 before all are enabled in the S context, as
\* the code wants it: a latched source keeps the priority it was latched with.
BootInS ==
    \/ Run("sie", H!CsrWrite(H!S, H!SieWrite({"SEIP"})), "priority")
    \/ \E id \in P!Sources :
         /\ priority[id] = 0 /\ \A j \in P!Sources : j < id => priority[j] = 1
         /\ Access("priority", P!PriorityWrite(id, 1))
         /\ UNCHANGED irq
    \/ Retire("priority", IF \E id \in P!Sources : priority[id] = 0
                          THEN "priority" ELSE "enable")
    \/ Access("enable", P!ContextEnableWrite(1, P!Sources)) /\ UNCHANGED irq
    \/ Retire("enable", "sstatus")
    \/ Run("sstatus", H!CsrWrite(H!S, H!SstatusWrite([ms EXCEPT !.SIE = TRUE])), "wfi")

IdleLoop == Run("wfi", H!Wfi, "work") \/ Run("work", H!Plain, "wfi")

\* The trap handler: claim, let the device lower its line, complete, return.
HandlerCode ==
    \/ /\ Access("claim", P!ContextClaim(1))
       /\ irq' = P!BestPending(ctx[1])
    \/ Retire("claim", IF irq = 0 THEN "sret" ELSE "device")
    \/ Access("device", P!SetLevelFromCpu(irq, FALSE)) /\ UNCHANGED irq
    \/ Retire("device", "complete")
    \/ Access("complete", P!ContextComplete(1, irq)) /\ irq' = 0
    \/ Retire("complete", "sret")
    \/ Run("sret", H!Sret, sepc)

\* A check for interrupts; one that is taken, which turns SIE off, goes to the
\* handler.
Check ==
    /\ H!Top \/ H!WfiPoll \/ H!WfiCheck
    /\ ms' = ms \/ pc' = "claim"
    /\ lowered' = (lowered /\ ms' = ms)
    /\ UNCHANGED <<plic, accessed, irq>>

Cpu == Check \/ BootInM \/ BootInS \/ IdleLoop \/ HandlerCode

Host == HostApply \/ \E id \in P!Sources, lvl \in BOOLEAN : HostRead(id, lvl)

Next == Cpu \/ Host

\* Both threads are scheduled: a call of set_interrupt_level that has begun
\* ends, and the CPU thread goes on.  It may have to wait for a device's mutex,
\* which the host thread holds for a moment of each tick: strong fairness.
Spec == Init /\ [][Next]_vars /\ SF_vars(Cpu) /\ WF_vars(HostApply)

-----------------------------------------------------------------------------
(* Properties.                                                             *)

\* The state of the three parts together has its type, and the hart sees what
\* the PLIC last drove.
TypeOK ==
    /\ P!TypeOK /\ H!TypeOK
    /\ accessed \in BOOLEAN /\ irq \in 0 .. NumIds - 1 /\ lowered \in BOOLEAN

\* The claims of the PLIC and the interrupt stack of the hart keep in step: a
\* source is in service only while the handler that claimed it runs, and no
\* second interrupt enters that handler before sret.
InServiceIsHandled ==
    /\ ctx[1].claimed \subseteq {irq}
    /\ pc \in Idle => irq = 0
    /\ pc \in Handler => sepc \notin Handler

\* A source latched with another priority than its own: set_interrupt_level
\* read the priority before the guest wrote it.
Stale(id) == id \in ctx[1].pending /\ ctx[1].cached[id] # priority[id]

\* An interrupt finds its cause: a claim returns 0 only if the device took its
\* request back after the trap or latched it again with a stale priority.
SpuriousHasReason ==
    [][pc = "claim" /\ accessed' /\ ~accessed =>
         irq' # 0 \/ lowered \/ \E id \in P!Sources : Stale(id)]_vars

\* No interrupt is lost on the way, whenever the line rises: during boot,
\* between claim and completion, on the way into wfi.  A line does not stay
\* high for ever, unless a source that goes first keeps asking or the source
\* was latched with a stale priority.
DemandIsServed ==
    \A id \in P!Sources :
        \/ []<>(id \notin level)
        \/ []<>(\E j \in P!Sources : j < id /\ j \in level)
        \/ <>[]Stale(id)
=============================================================================
