------------------------------- MODULE Engine -------------------------------
(* The life of an emulation (src/execution_engine.cpp): the host thread    *)
(* that calls execute_until_halt, ticks the devices and at last destroys   *)
(* the engine, and the CPU thread it starts.  They meet in a start         *)
(* handshake under cpu_mutex_, in cpu_thread_running_ and in the two       *)
(* shutdown flags, one of them a plain bool.                               *)
(*                                                                         *)
(* A section under cpu_mutex_ is one step: the mutex is never held across  *)
(* a wait other than the condition variable's, which releases it.          *)
EXTENDS Naturals

CONSTANTS
    Wrap,       \* 65536: the loop counter i is a uint16_t
    Codes,      \* the exit codes the guest may write to the SiFive test device
    MaxCalls    \* bound: calls of execute_until_halt

ASSUME EngineAssumption == Wrap \in Nat \ {0} /\ MaxCalls \in Nat /\ 0 \in Codes

VARIABLES
    host,       \* where the host thread is
    cpu,        \* where the CPU thread is
    running,    \* cpu_thread_running_
    guest,      \* shutdown_from_guest_
    stop,       \* shutdown_from_host_
    code,       \* shutdown_code_
    failed,     \* cpu_thread_exception_ is set
    i,          \* the loop counter of cpu_thread
    woken,      \* cpu_cond_ has woken the waiting host
    timed,      \* this call has a timeout
    late,       \* the timeout of this call has expired
    calls,      \* number of calls made
    asked,      \* history: the code the guest asked to exit with
    left        \* history: why the host left execute_until_halt

hostVars == <<host, woken, timed, late, calls, left>>
cpuVars  == <<cpu, running, guest, code, failed, i, asked>>
vars     == <<hostVars, cpuVars, stop>>

Back == {"returned", "threw"}

PlacesOK ==
    /\ host \in {"ready", "waiting", "look", "poll", "leaving", "joining",
                 "destroyed", "terminated"} \cup Back
    /\ cpu \in {"none", "spawned", "announce", "top", "exec", "wfi", "report",
                "caught", "stopping", "farewell", "done"}
    /\ left \in {"no", "never started", "halted", "timeout"}

FlagsOK ==
    /\ running \in BOOLEAN /\ guest \in BOOLEAN /\ stop \in BOOLEAN
    /\ failed \in BOOLEAN /\ woken \in BOOLEAN
    /\ timed \in BOOLEAN /\ late \in BOOLEAN

NumbersOK ==
    /\ code \in Codes /\ asked \in Codes
    /\ i \in 0 .. Wrap - 1
    /\ calls \in 0 .. MaxCalls

TypeOK == PlacesOK /\ FlagsOK /\ NumbersOK

Init ==
    /\ host = "ready" /\ cpu = "none"
    /\ running = FALSE /\ guest = TRUE /\ stop = FALSE
    /\ code = 0 /\ failed = FALSE /\ i = 0
    /\ woken = FALSE /\ timed = FALSE /\ late = FALSE /\ calls = 0
    /\ asked = 0 /\ left = "no"

-----------------------------------------------------------------------------
(* The host thread.                                                        *)

(* Wrong variant: the wait has no predicate. *)
StartedUnconditionally == TRUE

\* The predicate of the wait on cpu_cond_.
Started == running \/ guest \/ stop

\* execute_until_halt up to its wait.  Nothing joins the thread of an earlier
\* call, so assigning over it ends the program in std::terminate.  The first
\* evaluation of the wait's predicate can find only stop.
Call ==
    /\ host \in {"ready"} \cup Back
    /\ calls < MaxCalls
    /\ calls' = calls + 1
    /\ \/ /\ running
          /\ host' = "returned"
          /\ UNCHANGED <<woken, timed, late, left, cpuVars>>
       \/ /\ ~running /\ cpu # "none"
          /\ guest' = FALSE
          /\ host' = "terminated"
          /\ UNCHANGED <<woken, timed, late, left, cpu, running, code, failed, i, asked>>
       \/ /\ ~running /\ cpu = "none"
          /\ guest' = FALSE
          /\ cpu' = "spawned" /\ i' = 0
          /\ host' = "waiting" /\ woken' = stop
          /\ timed' \in BOOLEAN /\ late' = FALSE
          /\ UNCHANGED <<left, running, code, failed, asked>>
    /\ UNCHANGED stop

SpuriousWakeup ==
    /\ host = "waiting" /\ ~woken
    /\ woken' = TRUE
    /\ UNCHANGED <<host, timed, late, calls, left, cpuVars, stop>>

\* A woken host evaluates the predicate again, under the mutex.
WakeUp ==
    /\ host = "waiting" /\ woken
    /\ woken' = FALSE
    /\ \/ ~Started /\ UNCHANGED <<host, left>>
       \/ Started /\ running /\ host' = "look" /\ UNCHANGED left
       \/ Started /\ ~running /\ host' = "returned" /\ left' = "never started"
    /\ UNCHANGED <<timed, late, calls, cpuVars, stop>>

(* Wrong variant: the loop ends as soon as a shutdown is requested. *)
LookAtRequest ==
    /\ host = "look"
    /\ \/ running /\ ~guest /\ host' = "poll" /\ UNCHANGED left
       \/ ~(running /\ ~guest) /\ host' = "leaving" /\ left' = "halted"
    /\ UNCHANGED <<woken, timed, late, calls, cpuVars, stop>>

\* The top of the host's loop.
Look ==
    /\ host = "look"
    /\ \/ running /\ host' = "poll" /\ UNCHANGED left
       \/ ~running /\ host' = "leaving" /\ left' = "halted"
    /\ UNCHANGED <<woken, timed, late, calls, cpuVars, stop>>

\* The clock passes the timeout.
Expire ==
    /\ timed /\ ~late /\ host \in {"look", "poll"}
    /\ late' = TRUE
    /\ UNCHANGED <<host, woken, timed, calls, left, cpuVars, stop>>

Timeout ==
    /\ host = "poll" /\ late
    /\ stop' = TRUE
    /\ host' = "leaving" /\ left' = "timeout"
    /\ UNCHANGED <<woken, timed, late, calls, cpuVars>>

\* Devices are ticked and the UI updated; its window may be closed, which
\* calls request_shutdown_from_host.
Tick ==
    /\ host = "poll" /\ ~late
    /\ stop' \in {stop, TRUE}
    /\ host' = "look"
    /\ UNCHANGED <<woken, timed, late, calls, left, cpuVars>>

(* Wrong variant: the exception of the CPU thread is not thrown again. *)
LeaveQuietly ==
    /\ host = "leaving"
    /\ host' = "returned"
    /\ UNCHANGED <<woken, timed, late, calls, left, cpuVars, stop>>

Leave ==
    /\ host = "leaving"
    /\ host' = IF failed THEN "threw" ELSE "returned"
    /\ UNCHANGED <<woken, timed, late, calls, left, cpuVars, stop>>

\* The destructor joins the thread if there is one.
Destroy ==
    /\ host \in {"ready"} \cup Back
    /\ host' = IF cpu = "none" THEN "destroyed" ELSE "joining"
    /\ UNCHANGED <<woken, timed, late, calls, left, cpuVars, stop>>

Joined ==
    /\ host = "joining" /\ cpu = "done"
    /\ host' = "destroyed"
    /\ UNCHANGED <<woken, timed, late, calls, left, cpuVars, stop>>

-----------------------------------------------------------------------------
(* The CPU thread.                                                         *)

Alive == host # "terminated"

CpuStart ==
    /\ cpu = "spawned" /\ Alive
    /\ running' = TRUE
    /\ cpu' = "announce"
    /\ UNCHANGED <<hostVars, guest, code, failed, i, asked, stop>>

Announce ==
    /\ cpu = "announce" /\ Alive
    /\ cpu' = "top"
    /\ woken' = (host = "waiting")
    /\ UNCHANGED <<host, timed, late, calls, left, running, guest, code, failed, i, asked, stop>>

NextIteration == cpu' = "top" /\ i' = (IF i = Wrap - 1 THEN 0 ELSE i + 1)

\* The flags are looked at before each instruction, the host's only when the
\* counter is zero.
Top ==
    /\ cpu = "top" /\ Alive
    /\ cpu' = IF guest \/ (i = 0 /\ stop) THEN "stopping" ELSE "exec"
    /\ UNCHANGED <<hostVars, running, guest, code, failed, i, asked, stop>>

\* An instruction retires or traps.
Instruction ==
    /\ cpu = "exec" /\ Alive
    /\ NextIteration
    /\ UNCHANGED <<hostVars, running, guest, code, failed, asked, stop>>

WaitForInterrupt ==
    /\ cpu = "exec" /\ Alive
    /\ cpu' = "wfi"
    /\ UNCHANGED <<hostVars, running, guest, code, failed, i, asked, stop>>

(* Wrong variant: the stalled hart looks only for interrupts. *)
StallEndsDeaf ==
    /\ cpu = "wfi" /\ Alive
    /\ guest
    /\ NextIteration
    /\ UNCHANGED <<hostVars, running, guest, code, failed, asked, stop>>

\* The stall of WFI ends for a shutdown ...
StallEnds ==
    /\ cpu = "wfi" /\ Alive
    /\ guest \/ stop
    /\ NextIteration
    /\ UNCHANGED <<hostVars, running, guest, code, failed, asked, stop>>

\* ... or for an interrupt, which may never come (module Hart).
Interrupt ==
    /\ cpu = "wfi" /\ Alive
    /\ NextIteration
    /\ UNCHANGED <<hostVars, running, guest, code, failed, asked, stop>>

\* A store to the SiFive test device: request_shutdown_from_guest sets the
\* flag first ...
RequestShutdown ==
    /\ cpu = "exec" /\ Alive
    /\ guest' = TRUE
    /\ asked' \in Codes
    /\ cpu' = "report"
    /\ UNCHANGED <<hostVars, running, code, failed, i, stop>>

\* ... and the code next; then the instruction retires.
ReportCode ==
    /\ cpu = "report" /\ Alive
    /\ code' = asked
    /\ NextIteration
    /\ UNCHANGED <<hostVars, running, guest, failed, asked, stop>>

\* An instruction throws something else than a trap: the exception is kept ...
Catch ==
    /\ cpu = "exec" /\ Alive
    /\ failed' = TRUE
    /\ cpu' = "caught"
    /\ UNCHANGED <<hostVars, running, guest, code, i, asked, stop>>

\* ... and the loop left as if the guest had shut down.
GiveUp ==
    /\ cpu = "caught" /\ Alive
    /\ guest' = TRUE
    /\ cpu' = "stopping"
    /\ UNCHANGED <<hostVars, running, code, failed, i, asked, stop>>

\* The loop is over.
CpuStop ==
    /\ cpu = "stopping" /\ Alive
    /\ running' = FALSE
    /\ cpu' = "farewell"
    /\ UNCHANGED <<hostVars, guest, code, failed, i, asked, stop>>

\* The last notification finds the host waiting only if it has not seen the
\* thread run.
Farewell ==
    /\ cpu = "farewell" /\ Alive
    /\ cpu' = "done"
    /\ woken' = (host = "waiting")
    /\ UNCHANGED <<host, timed, late, calls, left, running, guest, code, failed, i, asked, stop>>

-----------------------------------------------------------------------------
Finished == host \in {"destroyed", "terminated"} /\ UNCHANGED vars

Cpu == \/ CpuStart \/ Announce \/ Top \/ Instruction \/ WaitForInterrupt
       \/ StallEnds \/ RequestShutdown \/ ReportCode \/ Catch \/ GiveUp
       \/ CpuStop \/ Farewell

HostRuns == WakeUp \/ Look \/ Tick \/ Timeout \/ Leave \/ Joined

Next == Call \/ SpuriousWakeup \/ Expire \/ HostRuns \/ Destroy \/ Cpu \/ Interrupt \/ Finished

Spec == Init /\ [][Next]_vars

\* The operating system schedules both threads and time passes.  Nothing is assumed of calls,
\* spurious wakeups, interrupts or what the guest executes.
FairSpec == Spec /\ WF_vars(Cpu) /\ WF_vars(HostRuns) /\ WF_vars(Expire)

-----------------------------------------------------------------------------
(* Properties.                                                             *)

\* The destructor never waits for a thread that nobody has told to stop:
\* whenever execute_until_halt is over, after any wakeup, timeout, exception
\* or repeated call, a shutdown has been requested.
JoinIsAnswered ==
    host \in Back \cup {"joining"} /\ cpu # "none" => guest \/ stop

\* When the host leaves because the CPU thread has ended, the exit code is
\* the one the guest asked for, although the flag is set before the code and
\* the host reads the code without a lock.
ResultIsFinal == left = "halted" /\ host \in Back => code = asked

\* An exception of the CPU thread comes out of execute_until_halt once the
\* host has seen the thread run and waited for its end.
ExceptionSurfaces == left = "halted" /\ host = "returned" => ~failed

\* The host leaves the start handshake, even if the CPU thread has come and
\* gone before the host is scheduled.
HandshakeEnds == host = "waiting" ~> host # "waiting"

\* A shutdown request of the host (timeout, closed window) ends the CPU
\* thread, whether it executes or stalls in WFI.
StopIsObeyed == stop ~> (cpu = "done" \/ host = "terminated")

\* A call with a timeout comes back, whatever the guest does.
TimeoutReturns == timed /\ host = "look" ~> host \in Back

\* A guest that shuts down brings the host back to its caller.
HaltReturns ==
    cpu = "done" ~> host \notin {"waiting", "look", "poll", "leaving"}

\* The destructor returns.
JoinEnds == host = "joining" ~> host = "destroyed"

\* Nobody waits for ever: the host in the start handshake, in the loop of a
\* timed call or of a guest that has shut down, and in the destructor; the CPU
\* thread in WFI once it was asked to stop.
EveryWaitEnds ==
    HandshakeEnds /\ StopIsObeyed /\ TimeoutReturns /\ HaltReturns /\ JoinEnds
=============================================================================
