----------------------------- MODULE TwoThreads -----------------------------
(* The devices on which two threads meet: the host thread ticks them,      *)
(* feeds them or shows what they hold, while the guest uses them from the  *)
(* CPU thread.  They share no state and have no step in common: each has a *)
(* mutex, a bus range and an interrupt line of its own, and where the lines *)
(* meet is modelled in Plic and InterruptPath.  A behaviour therefore      *)
(* exercises one of them, the part, while the others rest in an initial    *)
(* state.                                                                  *)
EXTENDS Naturals, Sequences

CONSTANTS
    MAX_EVENTS, Presses,                 \* of GoldfishEvents
    RtcHalf,                             \* of GoldfishRtc: 2^32
    ClintHalf, PerTick, Exact, Short, Cut,   \* of Clint
    Char, QUEUE_SIZE, MaxTyped,          \* of Ns16550
    SIZE, AccessLimit, Pixels, Scancodes, DeadScancodes, Interval,
    MaxWrites, MaxEvents                 \* of Display

VARIABLES
    part,
    \* GoldfishEvents
    page, state, words, first, last, keyLine, unread, odd,
    \* GoldfishRtc
    count, alarm, running, pending, enabled, high, rtcLine, rest, set,
    carries, asked,
    \* Ns16550
    typed, queue, ier, fifo, dlab, loop, dr, temt, iir, uartLine, owed,
    \* Clint
    elapsed, mtime, mtimecmp, stimecmp, stce, mtip, stip, msip, host, due, cpu, clean,
    wild, fresh,
    \* Display
    vram, mutex, access, writes, ui, frameTime, buffer, shown, events, sink, exit,
    arrived, passed, pictures

keyVars   == <<page, state, words, first, last, keyLine, unread, odd>>
rtcVars   == <<count, alarm, running, pending, enabled, high, rtcLine, rest, set,
               carries, asked>>
uartVars  == <<typed, queue, ier, fifo, dlab, loop, dr, temt, iir, uartLine, owed>>
clintVars == <<elapsed, mtime, mtimecmp, stimecmp, stce, mtip, stip, msip, host, due,
               cpu, clean, wild, fresh>>
fbVars    == <<vram, mutex, access, writes, ui, frameTime, buffer, shown, events, sink,
               exit, arrived, passed, pictures>>
vars == <<part, keyVars, rtcVars, uartVars, clintVars, fbVars>>

Key   == INSTANCE GoldfishEvents WITH Keys <- Presses, events <- words, irq <- keyLine
Rtc   == INSTANCE GoldfishRtc WITH Half <- RtcHalf, line <- rtcLine
Timer == INSTANCE Clint WITH Half <- ClintHalf
Uart  == INSTANCE Ns16550 WITH irq <- uartLine
Fb    == INSTANCE Display WITH
             Keys <- Scancodes, DeadKeys <- DeadScancodes, elapsed <- frameTime

ASSUME DeviceAssumptions ==
    /\ Key!EventsAssumption /\ Rtc!RtcAssumption /\ Uart!UartAssumption
    /\ Timer!ClintAssumption /\ Fb!DisplayAssumption

-----------------------------------------------------------------------------
Parts == {"key", "rtc", "uart", "timer", "fb"}

Init ==
    /\ part \in Parts
    /\ Key!Init /\ Uart!Init /\ Timer!Init /\ Fb!Init
    /\ Rtc!Init /\ (part = "rtc" \/ count = 0)

Next ==
    /\ UNCHANGED part
    /\ IF part = "key"   THEN Key!Next   ELSE UNCHANGED keyVars
    /\ IF part = "rtc"   THEN Rtc!Next   ELSE UNCHANGED rtcVars
    /\ IF part = "uart"  THEN Uart!Next  ELSE UNCHANGED uartVars
    /\ IF part = "timer" THEN Timer!Next ELSE UNCHANGED clintVars
    /\ IF part = "fb"    THEN Fb!Next    ELSE UNCHANGED fbVars

\* The host thread ticks every device and updates the user interface in each
\* round of its loop; the CPU thread leaves a lock it holds; time passes.
Fairness ==
    /\ WF_rtcVars(part = "rtc" /\ Rtc!Tick)
    /\ WF_uartVars(part = "uart" /\ Uart!Tick)
    /\ WF_clintVars(part = "timer" /\ Timer!Host)
    /\ WF_fbVars(part = "fb" /\ Fb!Cpu)
    /\ WF_fbVars(part = "fb" /\ Fb!Update)
    /\ WF_fbVars(part = "fb" /\ Fb!Tick)

Spec == Init /\ [][Next]_vars /\ Fairness

-----------------------------------------------------------------------------
(* Properties, stated in the modules of the devices.                       *)

\* What the host puts in reaches the guest once and in order: whole events
\* through the ring of goldfish_events.cpp, until it has been filled to the
\* brim; characters through the queue of ns16550.cpp, where LSR_DR tells whether
\* one is left, unless the guest clears it; key events through the backend.
InputArrives ==
    /\ part = "key" => Key!TypeOK /\ Key!RingIsFifo
    /\ part = "uart" => Uart!TypeOK /\ Uart!ReceivedIsKept /\ Uart!DataReadyIsQueue
    /\ part = "fb" => Fb!TypeOK /\ Fb!EventsInOrder

\* An interrupt line is high exactly while its device has an enabled cause,
\* whichever thread changed what last.  The event device tells a ready driver
\* of every event, and may raise its line for an emptied ring when the driver
\* becomes ready; once a write of stimecmp is over, STIP answers it.
LinesHaveCauses ==
    /\ part = "key" => Key!UnreadRaisesLine /\ Key!LineHasCause
    /\ part = "rtc" => Rtc!TypeOK /\ Rtc!LineIsFlags
    /\ part = "uart" => Uart!LineIsCause
    /\ part = "timer" => /\ Timer!TypeOK /\ Timer!MachineLineIsCurrent
                         /\ Timer!SupervisorLineIsCurrent

\* A frame shows no half of an access of the guest to the frame buffer.
FramesAreWhole == part = "fb" => Fb!FramesAreWhole

\* The clocks go on from what the guest stored: the RTC up to the carries lost
\* between the halves of an 8-byte store, mtime up to the rounding of its first
\* tick and while a double can hold it.  No alarm goes off before the time asked
\* for, except while an 8-byte store has stored only its low half, and none is
\* disarmed but by going off or by CLEAR_ALARM.
ClocksGoOn ==
    /\ [](part = "rtc" => Rtc!ClockIsAsSet)
    /\ Rtc!NoEarlyAlarm
    /\ Rtc!AlarmEndsForAReason
    /\ Timer!TimeGoesOn

\* What is due happens: an overdue alarm fires, a deadline that has passed is
\* signalled, a backlog at the console shrinks unless the queue is full or
\* closed, and what the guest drew last is shown.
DueHappens ==
    /\ Rtc!OverdueAlarmFires
    /\ Timer!DeadlineIsSignalled
    /\ Uart!BacklogIsTaken
    /\ Fb!LastPictureShown
=============================================================================
