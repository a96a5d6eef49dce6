---------------------------- MODULE EngineProofs ----------------------------
(* Proofs about the life of an emulation, for every number of calls, every *)
(* counter width and every set of exit codes.                              *)
EXTENDS Engine, TLAPS

Running == {"announce", "top", "exec", "wfi", "report", "caught", "stopping"}
Over    == {"farewell", "done"}

\* cpu_thread_running_ tells where the thread is, and a thread that leaves its
\* loop has been told to.
ThreadState ==
    /\ running <=> cpu \in Running
    /\ cpu \in Over \cup {"stopping"} => guest \/ stop \/ host = "terminated"
    /\ cpu # "report" => code = asked

\* What the host knows of the thread: none before the first call, started
\* when the handshake is over, ended or told to end when the loop is left.
HostKnows ==
    /\ host = "ready" => cpu = "none"
    /\ host \in {"look", "poll", "leaving"} => cpu \notin {"none", "spawned"}
    /\ host = "leaving" => left \in {"halted", "timeout"}
    /\ left = "halted" => cpu \in Over
    /\ left = "timeout" => stop

IInv == TypeOK /\ ThreadState /\ HostKnows /\ JoinIsAnswered /\ ExceptionSurfaces

LEMMA InitIInv == Init => IInv
<1> SUFFICES ASSUME Init PROVE IInv
  OBVIOUS
<1>1. PlacesOK /\ FlagsOK
  BY DEF Init, PlacesOK, FlagsOK
<1>2. NumbersOK
  BY EngineAssumption DEF Init, NumbersOK
<1>3. ThreadState /\ HostKnows
  BY DEF Init, ThreadState, HostKnows, Running, Over
<1>4. JoinIsAnswered /\ ExceptionSurfaces
  BY DEF Init, JoinIsAnswered, ExceptionSurfaces, Back
<1> QED BY <1>1, <1>2, <1>3, <1>4 DEF IInv, TypeOK

\* The host's steps.
LEMMA HostKeepsInv ==
    ASSUME IInv, Call \/ SpuriousWakeup \/ Expire \/ HostRuns \/ Destroy
    PROVE  IInv'
<1> USE DEF IInv, TypeOK, cpuVars
<1>1. CASE Call
  <2>1. PlacesOK'
    BY <1>1 DEF Call, PlacesOK, Back
  <2>2. FlagsOK'
    BY <1>1 DEF Call, FlagsOK
  <2>3. NumbersOK'
    BY <1>1, EngineAssumption DEF Call, NumbersOK
  <2>4. ThreadState'
    <3>1. CASE running
      BY <1>1, <3>1 DEF Call, ThreadState, Running, Over, Back
    <3>2. CASE ~running /\ cpu # "none"
      <4>1. UNCHANGED <<cpu, running, code, asked, stop>>
        BY <1>1, <3>2 DEF Call
      <4> QED BY <1>1, <3>2, <4>1 DEF Call, ThreadState, Running, Over
    <3>3. CASE ~running /\ cpu = "none"
      BY <1>1, <3>3 DEF Call, ThreadState, Running, Over
    <3> QED BY <3>1, <3>2, <3>3
  <2>5. HostKnows'
    BY <1>1 DEF Call, HostKnows, ThreadState, Running, Over
  <2>6. JoinIsAnswered'
    BY <1>1 DEF Call, JoinIsAnswered, HostKnows, ThreadState, Running, Over, Back
  <2>7. ExceptionSurfaces'
    BY <1>1 DEF Call, ExceptionSurfaces, HostKnows, ThreadState, Running, Over, Back
  <2> QED BY <2>1, <2>2, <2>3, <2>4, <2>5, <2>6, <2>7 DEF TypeOK
<1>2. CASE SpuriousWakeup
  <2>1. PlacesOK'
    BY <1>2 DEF SpuriousWakeup, PlacesOK, Back
  <2>2. FlagsOK'
    BY <1>2 DEF SpuriousWakeup, FlagsOK
  <2>3. NumbersOK'
    BY <1>2, EngineAssumption DEF SpuriousWakeup, NumbersOK
  <2>4. ThreadState'
    BY <1>2 DEF SpuriousWakeup, ThreadState, Running, Over
  <2>5. HostKnows'
    BY <1>2 DEF SpuriousWakeup, HostKnows, ThreadState, Running, Over
  <2>6. JoinIsAnswered'
    BY <1>2 DEF SpuriousWakeup, JoinIsAnswered, HostKnows, ThreadState, Running, Over, Back
  <2>7. ExceptionSurfaces'
    BY <1>2 DEF SpuriousWakeup, ExceptionSurfaces, HostKnows, ThreadState, Running, Over, Back
  <2> QED BY <2>1, <2>2, <2>3, <2>4, <2>5, <2>6, <2>7 DEF TypeOK
<1>3. CASE Expire
  <2>1. PlacesOK'
    BY <1>3 DEF Expire, PlacesOK, Back
  <2>2. FlagsOK'
    BY <1>3 DEF Expire, FlagsOK
  <2>3. NumbersOK'
    BY <1>3, EngineAssumption DEF Expire, NumbersOK
  <2>4. ThreadState'
    BY <1>3 DEF Expire, ThreadState, Running, Over
  <2>5. HostKnows'
    BY <1>3 DEF Expire, HostKnows, ThreadState, Running, Over
  <2>6. JoinIsAnswered'
    BY <1>3 DEF Expire, JoinIsAnswered, HostKnows, ThreadState, Running, Over, Back
  <2>7. ExceptionSurfaces'
    BY <1>3 DEF Expire, ExceptionSurfaces, HostKnows, ThreadState, Running, Over, Back
  <2> QED BY <2>1, <2>2, <2>3, <2>4, <2>5, <2>6, <2>7 DEF TypeOK
<1>4. CASE WakeUp
  <2>1. PlacesOK'
    BY <1>4 DEF WakeUp, Started, PlacesOK, Back
  <2>2. FlagsOK'
    BY <1>4 DEF WakeUp, Started, FlagsOK
  <2>3. NumbersOK'
    BY <1>4, EngineAssumption DEF WakeUp, Started, NumbersOK
  <2>4. ThreadState'
    BY <1>4 DEF WakeUp, Started, ThreadState, Running, Over
  <2>5. HostKnows'
    BY <1>4 DEF WakeUp, Started, HostKnows, ThreadState, Running, Over
  <2>6. JoinIsAnswered'
    BY <1>4 DEF WakeUp, Started, JoinIsAnswered, HostKnows, ThreadState, Running, Over, Back
  <2>7. ExceptionSurfaces'
    BY <1>4 DEF WakeUp, Started, ExceptionSurfaces, HostKnows, ThreadState, Running, Over, Back
  <2> QED BY <2>1, <2>2, <2>3, <2>4, <2>5, <2>6, <2>7 DEF TypeOK
<1>5. CASE Look
  <2>1. PlacesOK'
    BY <1>5 DEF Look, PlacesOK, Back
  <2>2. FlagsOK'
    BY <1>5 DEF Look, FlagsOK
  <2>3. NumbersOK'
    BY <1>5, EngineAssumption DEF Look, NumbersOK
  <2>4. ThreadState'
    BY <1>5 DEF Look, ThreadState, Running, Over
  <2>5. HostKnows'
    BY <1>5 DEF Look, HostKnows, PlacesOK, ThreadState, Running, Over
  <2>6. JoinIsAnswered'
    BY <1>5 DEF Look, JoinIsAnswered, HostKnows, ThreadState, Running, Over, Back
  <2>7. ExceptionSurfaces'
    BY <1>5 DEF Look, ExceptionSurfaces, HostKnows, ThreadState, Running, Over, Back
  <2> QED BY <2>1, <2>2, <2>3, <2>4, <2>5, <2>6, <2>7 DEF TypeOK
<1>6. CASE Tick
  <2>a. /\ stop' = stop \/ stop' = TRUE
        /\ UNCHANGED <<left, cpuVars>> /\ host = "poll" /\ host' = "look"
    BY <1>6 DEF Tick
  <2>0. /\ stop => stop'
        /\ UNCHANGED <<left, cpuVars>> /\ host = "poll" /\ host' = "look"
    BY <2>a
  <2>1. PlacesOK'
    BY <1>6 DEF Tick, PlacesOK, Back
  <2>2. FlagsOK'
    BY <1>6 DEF Tick, FlagsOK
  <2>3. NumbersOK'
    BY <1>6, EngineAssumption DEF Tick, NumbersOK
  <2>4. ThreadState'
    BY <2>0 DEF ThreadState, Running, Over
  <2>5. HostKnows'
    BY <2>0 DEF HostKnows
  <2>6. JoinIsAnswered'
    BY <1>6 DEF Tick, JoinIsAnswered, HostKnows, ThreadState, Running, Over, Back
  <2>7. ExceptionSurfaces'
    BY <1>6 DEF Tick, ExceptionSurfaces, HostKnows, ThreadState, Running, Over, Back
  <2> QED BY <2>1, <2>2, <2>3, <2>4, <2>5, <2>6, <2>7 DEF TypeOK
<1>7. CASE Timeout
  <2>0. /\ stop' = TRUE /\ left' = "timeout" /\ host' = "leaving"
        /\ UNCHANGED cpuVars /\ host = "poll"
    BY <1>7 DEF Timeout
  <2>1. PlacesOK'
    BY <1>7 DEF Timeout, PlacesOK, Back
  <2>2. FlagsOK'
    BY <1>7 DEF Timeout, FlagsOK
  <2>3. NumbersOK'
    BY <1>7, EngineAssumption DEF Timeout, NumbersOK
  <2>4. ThreadState'
    BY <2>0 DEF ThreadState, Running, Over
  <2>5. HostKnows'
    BY <2>0 DEF HostKnows
  <2>6. JoinIsAnswered'
    BY <1>7 DEF Timeout, JoinIsAnswered, HostKnows, ThreadState, Running, Over, Back
  <2>7. ExceptionSurfaces'
    BY <1>7 DEF Timeout, ExceptionSurfaces, HostKnows, ThreadState, Running, Over, Back
  <2> QED BY <2>1, <2>2, <2>3, <2>4, <2>5, <2>6, <2>7 DEF TypeOK
<1>8. CASE Leave
  <2>1. PlacesOK'
    BY <1>8 DEF Leave, PlacesOK, Back
  <2>2. FlagsOK'
    BY <1>8 DEF Leave, FlagsOK
  <2>3. NumbersOK'
    BY <1>8, EngineAssumption DEF Leave, NumbersOK
  <2>4. ThreadState'
    BY <1>8 DEF Leave, ThreadState, Running, Over
  <2>5. HostKnows'
    BY <1>8 DEF Leave, HostKnows, ThreadState, Running, Over
  <2>6. JoinIsAnswered'
    BY <1>8 DEF Leave, JoinIsAnswered, HostKnows, ThreadState, Running, Over, Back
  <2>7. ExceptionSurfaces'
    BY <1>8 DEF Leave, ExceptionSurfaces, HostKnows, ThreadState, Running, Over, Back
  <2> QED BY <2>1, <2>2, <2>3, <2>4, <2>5, <2>6, <2>7 DEF TypeOK
<1>9. CASE Joined
  <2>1. PlacesOK'
    BY <1>9 DEF Joined, PlacesOK, Back
  <2>2. FlagsOK'
    BY <1>9 DEF Joined, FlagsOK
  <2>3. NumbersOK'
    BY <1>9, EngineAssumption DEF Joined, NumbersOK
  <2>4. ThreadState'
    BY <1>9 DEF Joined, ThreadState, Running, Over
  <2>5. HostKnows'
    BY <1>9 DEF Joined, HostKnows, ThreadState, Running, Over
  <2>6. JoinIsAnswered'
    BY <1>9 DEF Joined, JoinIsAnswered, HostKnows, ThreadState, Running, Over, Back
  <2>7. ExceptionSurfaces'
    BY <1>9 DEF Joined, ExceptionSurfaces, HostKnows, ThreadState, Running, Over, Back
  <2> QED BY <2>1, <2>2, <2>3, <2>4, <2>5, <2>6, <2>7 DEF TypeOK
<1>10. CASE Destroy
  <2>1. PlacesOK'
    BY <1>10 DEF Destroy, PlacesOK, Back
  <2>2. FlagsOK'
    BY <1>10 DEF Destroy, FlagsOK
  <2>3. NumbersOK'
    BY <1>10, EngineAssumption DEF Destroy, NumbersOK
  <2>4. ThreadState'
    BY <1>10 DEF Destroy, ThreadState, Running, Over, Back
  <2>5. HostKnows'
    BY <1>10 DEF Destroy, HostKnows, ThreadState, Running, Over
  <2>6. JoinIsAnswered'
    BY <1>10 DEF Destroy, JoinIsAnswered, HostKnows, ThreadState, Running, Over, Back
  <2>7. ExceptionSurfaces'
    BY <1>10 DEF Destroy, ExceptionSurfaces, HostKnows, ThreadState, Running, Over, Back
  <2> QED BY <2>1, <2>2, <2>3, <2>4, <2>5, <2>6, <2>7 DEF TypeOK
<1> QED BY <1>1, <1>2, <1>3, <1>4, <1>5, <1>6, <1>7, <1>8, <1>9, <1>10 DEF HostRuns

\* The CPU thread's steps.
LEMMA CpuKeepsInv ==
    ASSUME IInv, Cpu \/ Interrupt
    PROVE  IInv'
<1> USE DEF IInv, TypeOK, hostVars
<1>1. CASE CpuStart
  <2>1. PlacesOK'
    BY <1>1 DEF CpuStart, PlacesOK, Back
  <2>2. FlagsOK'
    BY <1>1 DEF CpuStart, FlagsOK
  <2>3. NumbersOK'
    BY <1>1, EngineAssumption DEF CpuStart, NumbersOK
  <2>4. ThreadState'
    BY <1>1 DEF CpuStart, ThreadState, Running, Over
  <2>5. HostKnows'
    BY <1>1 DEF CpuStart, HostKnows, ThreadState, Running, Over
  <2>6. JoinIsAnswered'
    BY <1>1 DEF CpuStart, JoinIsAnswered, HostKnows, ThreadState, Running, Over, Back
  <2>7. ExceptionSurfaces'
    BY <1>1 DEF CpuStart, ExceptionSurfaces, HostKnows, ThreadState, Running, Over, Back
  <2> QED BY <2>1, <2>2, <2>3, <2>4, <2>5, <2>6, <2>7 DEF TypeOK
<1>2. CASE Announce
  <2>1. PlacesOK'
    BY <1>2 DEF Announce, PlacesOK, Back
  <2>2. FlagsOK'
    BY <1>2 DEF Announce, FlagsOK
  <2>3. NumbersOK'
    BY <1>2, EngineAssumption DEF Announce, NumbersOK
  <2>4. ThreadState'
    BY <1>2 DEF Announce, ThreadState, Running, Over
  <2>5. HostKnows'
    BY <1>2 DEF Announce, HostKnows, ThreadState, Running, Over
  <2>6. JoinIsAnswered'
    BY <1>2 DEF Announce, JoinIsAnswered, HostKnows, ThreadState, Running, Over, Back
  <2>7. ExceptionSurfaces'
    BY <1>2 DEF Announce, ExceptionSurfaces, HostKnows, ThreadState, Running, Over, Back
  <2> QED BY <2>1, <2>2, <2>3, <2>4, <2>5, <2>6, <2>7 DEF TypeOK
<1>3. CASE Top
  <2>1. PlacesOK'
    BY <1>3 DEF Top, PlacesOK, Back
  <2>2. FlagsOK'
    BY <1>3 DEF Top, FlagsOK
  <2>3. NumbersOK'
    BY <1>3, EngineAssumption DEF Top, NumbersOK
  <2>4. ThreadState'
    BY <1>3 DEF Top, ThreadState, Running, Over
  <2>5. HostKnows'
    BY <1>3 DEF Top, HostKnows, ThreadState, Running, Over
  <2>6. JoinIsAnswered'
    BY <1>3 DEF Top, JoinIsAnswered, HostKnows, ThreadState, Running, Over, Back
  <2>7. ExceptionSurfaces'
    BY <1>3 DEF Top, ExceptionSurfaces, HostKnows, ThreadState, Running, Over, Back
  <2> QED BY <2>1, <2>2, <2>3, <2>4, <2>5, <2>6, <2>7 DEF TypeOK
<1>4. CASE Instruction
  <2>1. PlacesOK'
    BY <1>4 DEF Instruction, PlacesOK, Back, NextIteration
  <2>2. FlagsOK'
    BY <1>4 DEF Instruction, FlagsOK, NextIteration
  <2>3. NumbersOK'
    BY <1>4, EngineAssumption DEF Instruction, NumbersOK, NextIteration
  <2>4. ThreadState'
    BY <1>4 DEF Instruction, ThreadState, Running, Over, NextIteration
  <2>5. HostKnows'
    BY <1>4 DEF Instruction, HostKnows, ThreadState, Running, Over, NextIteration
  <2>6. JoinIsAnswered'
    BY <1>4 DEF Instruction, JoinIsAnswered, HostKnows, ThreadState, Running, Over, Back, NextIteration
  <2>7. ExceptionSurfaces'
    BY <1>4 DEF Instruction, ExceptionSurfaces, HostKnows, ThreadState, Running, Over, Back, NextIteration
  <2> QED BY <2>1, <2>2, <2>3, <2>4, <2>5, <2>6, <2>7 DEF TypeOK
<1>5. CASE WaitForInterrupt
  <2>1. PlacesOK'
    BY <1>5 DEF WaitForInterrupt, PlacesOK, Back
  <2>2. FlagsOK'
    BY <1>5 DEF WaitForInterrupt, FlagsOK
  <2>3. NumbersOK'
    BY <1>5, EngineAssumption DEF WaitForInterrupt, NumbersOK
  <2>4. ThreadState'
    BY <1>5 DEF WaitForInterrupt, ThreadState, Running, Over
  <2>5. HostKnows'
    BY <1>5 DEF WaitForInterrupt, HostKnows, ThreadState, Running, Over
  <2>6. JoinIsAnswered'
    BY <1>5 DEF WaitForInterrupt, JoinIsAnswered, HostKnows, ThreadState, Running, Over, Back
  <2>7. ExceptionSurfaces'
    BY <1>5 DEF WaitForInterrupt, ExceptionSurfaces, HostKnows, ThreadState, Running, Over, Back
  <2> QED BY <2>1, <2>2, <2>3, <2>4, <2>5, <2>6, <2>7 DEF TypeOK
<1>6. CASE StallEnds
  <2>1. PlacesOK'
    BY <1>6 DEF StallEnds, PlacesOK, Back, NextIteration
  <2>2. FlagsOK'
    BY <1>6 DEF StallEnds, FlagsOK, NextIteration
  <2>3. NumbersOK'
    BY <1>6, EngineAssumption DEF StallEnds, NumbersOK, NextIteration
  <2>4. ThreadState'
    BY <1>6 DEF StallEnds, ThreadState, Running, Over, NextIteration
  <2>5. HostKnows'
    BY <1>6 DEF StallEnds, HostKnows, ThreadState, Running, Over, NextIteration
  <2>6. JoinIsAnswered'
    BY <1>6 DEF StallEnds, JoinIsAnswered, HostKnows, ThreadState, Running, Over, Back, NextIteration
  <2>7. ExceptionSurfaces'
    BY <1>6 DEF StallEnds, ExceptionSurfaces, HostKnows, ThreadState, Running, Over, Back, NextIteration
  <2> QED BY <2>1, <2>2, <2>3, <2>4, <2>5, <2>6, <2>7 DEF TypeOK
<1>7. CASE RequestShutdown
  <2>1. PlacesOK'
    BY <1>7 DEF RequestShutdown, PlacesOK, Back
  <2>2. FlagsOK'
    BY <1>7 DEF RequestShutdown, FlagsOK
  <2>3. NumbersOK'
    BY <1>7, EngineAssumption DEF RequestShutdown, NumbersOK
  <2>4. ThreadState'
    BY <1>7 DEF RequestShutdown, ThreadState, Running, Over
  <2>5. HostKnows'
    BY <1>7 DEF RequestShutdown, HostKnows, ThreadState, Running, Over
  <2>6. JoinIsAnswered'
    BY <1>7 DEF RequestShutdown, JoinIsAnswered, HostKnows, ThreadState, Running, Over, Back
  <2>7. ExceptionSurfaces'
    BY <1>7 DEF RequestShutdown, ExceptionSurfaces, HostKnows, ThreadState, Running, Over, Back
  <2> QED BY <2>1, <2>2, <2>3, <2>4, <2>5, <2>6, <2>7 DEF TypeOK
<1>8. CASE ReportCode
  <2>1. PlacesOK'
    BY <1>8 DEF ReportCode, PlacesOK, Back, NextIteration
  <2>2. FlagsOK'
    BY <1>8 DEF ReportCode, FlagsOK, NextIteration
  <2>3. NumbersOK'
    BY <1>8, EngineAssumption DEF ReportCode, NumbersOK, NextIteration
  <2>4. ThreadState'
    BY <1>8 DEF ReportCode, ThreadState, Running, Over, NextIteration
  <2>5. HostKnows'
    BY <1>8 DEF ReportCode, HostKnows, ThreadState, Running, Over, NextIteration
  <2>6. JoinIsAnswered'
    BY <1>8 DEF ReportCode, JoinIsAnswered, HostKnows, ThreadState, Running, Over, Back, NextIteration
  <2>7. ExceptionSurfaces'
    BY <1>8 DEF ReportCode, ExceptionSurfaces, HostKnows, ThreadState, Running, Over, Back, NextIteration
  <2> QED BY <2>1, <2>2, <2>3, <2>4, <2>5, <2>6, <2>7 DEF TypeOK
<1>9. CASE Catch
  <2>1. PlacesOK'
    BY <1>9 DEF Catch, PlacesOK, Back
  <2>2. FlagsOK'
    BY <1>9 DEF Catch, FlagsOK
  <2>3. NumbersOK'
    BY <1>9, EngineAssumption DEF Catch, NumbersOK
  <2>4. ThreadState'
    BY <1>9 DEF Catch, ThreadState, Running, Over
  <2>5. HostKnows'
    BY <1>9 DEF Catch, HostKnows, ThreadState, Running, Over
  <2>6. JoinIsAnswered'
    BY <1>9 DEF Catch, JoinIsAnswered, HostKnows, ThreadState, Running, Over, Back
  <2>7. ExceptionSurfaces'
    BY <1>9 DEF Catch, ExceptionSurfaces, HostKnows, ThreadState, Running, Over, Back
  <2> QED BY <2>1, <2>2, <2>3, <2>4, <2>5, <2>6, <2>7 DEF TypeOK
<1>10. CASE GiveUp
  <2>1. PlacesOK'
    BY <1>10 DEF GiveUp, PlacesOK, Back
  <2>2. FlagsOK'
    BY <1>10 DEF GiveUp, FlagsOK
  <2>3. NumbersOK'
    BY <1>10, EngineAssumption DEF GiveUp, NumbersOK
  <2>4. ThreadState'
    BY <1>10 DEF GiveUp, ThreadState, Running, Over
  <2>5. HostKnows'
    BY <1>10 DEF GiveUp, HostKnows, ThreadState, Running, Over
  <2>6. JoinIsAnswered'
    BY <1>10 DEF GiveUp, JoinIsAnswered, HostKnows, ThreadState, Running, Over, Back
  <2>7. ExceptionSurfaces'
    BY <1>10 DEF GiveUp, ExceptionSurfaces, HostKnows, ThreadState, Running, Over, Back
  <2> QED BY <2>1, <2>2, <2>3, <2>4, <2>5, <2>6, <2>7 DEF TypeOK
<1>11. CASE CpuStop
  <2>1. PlacesOK'
    BY <1>11 DEF CpuStop, PlacesOK, Back
  <2>2. FlagsOK'
    BY <1>11 DEF CpuStop, FlagsOK
  <2>3. NumbersOK'
    BY <1>11, EngineAssumption DEF CpuStop, NumbersOK
  <2>4. ThreadState'
    BY <1>11 DEF CpuStop, ThreadState, Running, Over
  <2>5. HostKnows'
    BY <1>11 DEF CpuStop, HostKnows, ThreadState, Running, Over
  <2>6. JoinIsAnswered'
    BY <1>11 DEF CpuStop, JoinIsAnswered, HostKnows, ThreadState, Running, Over, Back
  <2>7. ExceptionSurfaces'
    BY <1>11 DEF CpuStop, ExceptionSurfaces, HostKnows, ThreadState, Running, Over, Back
  <2> QED BY <2>1, <2>2, <2>3, <2>4, <2>5, <2>6, <2>7 DEF TypeOK
<1>12. CASE Farewell
  <2>1. PlacesOK'
    BY <1>12 DEF Farewell, PlacesOK, Back
  <2>2. FlagsOK'
    BY <1>12 DEF Farewell, FlagsOK
  <2>3. NumbersOK'
    BY <1>12, EngineAssumption DEF Farewell, NumbersOK
  <2>4. ThreadState'
    BY <1>12 DEF Farewell, ThreadState, Running, Over
  <2>5. HostKnows'
    BY <1>12 DEF Farewell, HostKnows, ThreadState, Running, Over
  <2>6. JoinIsAnswered'
    BY <1>12 DEF Farewell, JoinIsAnswered, HostKnows, ThreadState, Running, Over, Back
  <2>7. ExceptionSurfaces'
    BY <1>12 DEF Farewell, ExceptionSurfaces, HostKnows, ThreadState, Running, Over, Back
  <2> QED BY <2>1, <2>2, <2>3, <2>4, <2>5, <2>6, <2>7 DEF TypeOK
<1>13. CASE Interrupt
  <2>1. PlacesOK'
    BY <1>13 DEF Interrupt, PlacesOK, Back, NextIteration
  <2>2. FlagsOK'
    BY <1>13 DEF Interrupt, FlagsOK, NextIteration
  <2>3. NumbersOK'
    BY <1>13, EngineAssumption DEF Interrupt, NumbersOK, NextIteration
  <2>4. ThreadState'
    BY <1>13 DEF Interrupt, ThreadState, Running, Over, NextIteration
  <2>5. HostKnows'
    BY <1>13 DEF Interrupt, HostKnows, ThreadState, Running, Over, NextIteration
  <2>6. JoinIsAnswered'
    BY <1>13 DEF Interrupt, JoinIsAnswered, HostKnows, ThreadState, Running, Over, Back, NextIteration
  <2>7. ExceptionSurfaces'
    BY <1>13 DEF Interrupt, ExceptionSurfaces, HostKnows, ThreadState, Running, Over, Back, NextIteration
  <2> QED BY <2>1, <2>2, <2>3, <2>4, <2>5, <2>6, <2>7 DEF TypeOK
<1> QED BY <1>1, <1>2, <1>3, <1>4, <1>5, <1>6, <1>7, <1>8, <1>9, <1>10, <1>11, <1>12,
           <1>13 DEF Cpu

LEMMA NextIInv == IInv /\ [Next]_vars => IInv'
<1>1. ASSUME IInv, UNCHANGED vars PROVE IInv'
  <2> USE <1>1 DEF IInv, TypeOK, vars, hostVars, cpuVars
  <2>0. PlacesOK'
    BY DEF PlacesOK
  <2>1. FlagsOK'
    BY DEF FlagsOK
  <2>2. NumbersOK'
    BY DEF NumbersOK
  <2>3. ThreadState' /\ HostKnows'
    BY DEF ThreadState, HostKnows
  <2>4. JoinIsAnswered' /\ ExceptionSurfaces'
    BY DEF JoinIsAnswered, ExceptionSurfaces
  <2> QED BY <2>0, <2>1, <2>2, <2>3, <2>4
<1> QED BY <1>1, HostKeepsInv, CpuKeepsInv DEF Next, Finished

\* The inductive invariant holds in every state of the two threads.
THEOREM IInvHolds == Spec => []IInv
BY InitIInv, NextIInv, PTL DEF Spec

\* Every variable of the engine keeps its type.
THEOREM TypeCorrect == Spec => []TypeOK
<1>1. IInv => TypeOK
  BY DEF IInv
<1> QED BY <1>1, IInvHolds, PTL

\* The destructor joins only a thread that has been told to stop.
THEOREM JoinHolds == Spec => []JoinIsAnswered
<1>1. IInv => JoinIsAnswered
  BY DEF IInv
<1> QED BY <1>1, IInvHolds, PTL

\* The exit code is final when the host returns from a halt.
THEOREM ResultHolds == Spec => []ResultIsFinal
<1>1. IInv => ResultIsFinal
  BY DEF IInv, ThreadState, HostKnows, ResultIsFinal, Over
<1> QED BY <1>1, IInvHolds, PTL

\* The exception of the CPU thread comes out of the call that waited for it.
THEOREM ExceptionHolds == Spec => []ExceptionSurfaces
<1>1. IInv => ExceptionSurfaces
  BY DEF IInv
<1> QED BY <1>1, IInvHolds, PTL
=============================================================================
