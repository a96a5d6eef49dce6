------------------------------- MODULE Display ------------------------------
(* The frame buffer device (device/simple_fb.cpp), written by the CPU thread *)
(* a byte at a time under its mutex, and SDL3Backend::update (ui/            *)
(* sdl3_backend.cpp), which the host thread calls over and over: it hands    *)
(* key events to the input sink, asks for the exit, and once a frame         *)
(* interval has passed copies the buffer under the mutex and presents it.    *)
EXTENDS Naturals, Sequences

CONSTANTS SIZE,           \* bytes of the frame buffer
          AccessLimit,    \* bytes of an access: 8 in the code
          Pixels,         \* byte values the guest writes
          Keys,           \* scancodes with a Linux code
          DeadKeys,       \* scancodes without (KEY_RESERVED)
          Interval,       \* ticks of a frame interval
          MaxWrites,      \* bound: writes of the guest
          MaxEvents       \* bound: events of the window system
DisplayAssumption ==
    /\ SIZE \in Nat \ {0} /\ AccessLimit \in Nat \ {0} /\ Interval \in Nat \ {0}
    /\ MaxWrites \in Nat /\ MaxEvents \in Nat /\ Keys \cap DeadKeys = {}

VARIABLES vram, mutex,
          access, writes,         \* the write the CPU thread is in
          ui, elapsed, buffer, shown,
          events, sink, exit,     \* the event queue, the input sink, the request
          arrived, passed,        \* history: events so far, the places in it of the sink's
          pictures                \* history: whole pictures
cpuVars == <<access, writes>>
uiVars == <<ui, buffer, shown, exit, sink, passed>>
vars == <<vram, mutex, access, writes, ui, elapsed, buffer, shown, events, sink, exit, arrived,
          passed, pictures>>

Address == 0 .. SIZE - 1
Free == "free"
NoAccess == [at |-> 0, left |-> 0, value |-> 0]
Event == [type : {"down", "up"}, key : Keys \cup DeadKeys] \cup [type : {"quit", "other"}]

Init ==
    /\ vram = [i \in Address |-> 0] /\ mutex = Free
    /\ access = NoAccess /\ writes = 0
    /\ ui = "poll" /\ elapsed = 0
    /\ buffer = vram /\ shown = vram
    /\ events = <<>> /\ sink = <<>> /\ exit = FALSE
    /\ arrived = <<>> /\ passed = <<>> /\ pictures = {vram}

-----------------------------------------------------------------------------
\* write_internal: refused outside the buffer, otherwise the lock, the bytes
\* in order, and the unlock.
Refused(offset, size) == size > AccessLimit \/ offset + size > SIZE
WriteBegin(offset, size, v) ==
    /\ access = NoAccess /\ writes < MaxWrites
    /\ writes' = writes + 1
    /\ IF Refused(offset, size)
       THEN UNCHANGED <<access, mutex>>
       ELSE /\ mutex = Free /\ mutex' = "cpu"
            /\ access' = [at |-> offset, left |-> size, value |-> v]
    /\ UNCHANGED <<vram, uiVars, elapsed, events, arrived, pictures>>
WriteByte ==
    /\ access.left > 0 /\ mutex = "cpu"
    /\ vram' = [vram EXCEPT ![access.at] = access.value]
    /\ access' = [access EXCEPT !.at = @ + 1, !.left = @ - 1]
    /\ UNCHANGED <<mutex, writes, uiVars, elapsed, events, arrived, pictures>>
WriteEnd ==
    /\ access # NoAccess /\ access.left = 0
    /\ access' = NoAccess /\ mutex' = Free
    /\ pictures' = pictures \cup {vram}
    /\ UNCHANGED <<vram, writes, uiVars, elapsed, events, arrived>>

\* The window system, and time.
Arrive(e) ==
    /\ Len(arrived) < MaxEvents
    /\ arrived' = Append(arrived, e) /\ events' = Append(events, e)
    /\ UNCHANGED <<vram, mutex, cpuVars, uiVars, elapsed, pictures>>
Tick ==
    /\ elapsed < Interval /\ elapsed' = elapsed + 1
    /\ UNCHANGED <<vram, mutex, cpuVars, uiVars, events, arrived, pictures>>

-----------------------------------------------------------------------------
\* SDL3Backend::update, one event of the queue at a time.
IsKey(e) == e.type \in {"down", "up"}
Passes(e) == IsKey(e) /\ e.key \in Keys
\* The events that were taken from the queue.
Polled == 1 .. Len(arrived) - Len(events)
\* A quit returns at once, and the next call starts polling again.
Poll ==
    /\ ui = "poll" /\ events # <<>>
    /\ LET e == Head(events)
       IN /\ exit' = (exit \/ e.type = "quit")
          /\ sink' = IF Passes(e) THEN Append(sink, e) ELSE sink
          /\ passed' = IF Passes(e) THEN Append(passed, Len(arrived) - Len(events) + 1)
                       ELSE passed
    /\ events' = Tail(events)
    /\ UNCHANGED <<vram, mutex, cpuVars, ui, elapsed, buffer, shown, arrived, pictures>>
\* No events left: return if it is too early for a frame.
Early ==
    /\ ui = "poll" /\ events = <<>> /\ elapsed < Interval
    /\ UNCHANGED vars
(* Wrong variant: the pixels are copied without the lock. *)
LockNot ==
    /\ ui = "poll" /\ events = <<>> /\ elapsed >= Interval
    /\ ui' = "copy" /\ UNCHANGED mutex
    /\ UNCHANGED <<vram, cpuVars, elapsed, buffer, shown, events, sink, exit, arrived, passed, pictures>>
Lock ==
    /\ ui = "poll" /\ events = <<>> /\ elapsed >= Interval
    /\ mutex = Free /\ mutex' = "ui"
    /\ ui' = "copy"
    /\ UNCHANGED <<vram, cpuVars, elapsed, buffer, shown, events, sink, exit, arrived, passed, pictures>>
Copy ==
    /\ ui = "copy"
    /\ buffer' = vram
    /\ mutex' = IF mutex = "ui" THEN Free ELSE mutex
    /\ ui' = "present"
    /\ UNCHANGED <<vram, cpuVars, elapsed, shown, events, sink, exit, arrived, passed, pictures>>
Present ==
    /\ ui = "present"
    /\ shown' = buffer
    /\ elapsed' = 0
    /\ ui' = "poll"
    /\ UNCHANGED <<vram, mutex, cpuVars, buffer, events, sink, exit, arrived, passed, pictures>>

Cpu == WriteByte \/ WriteEnd
Update == Poll \/ Early \/ Lock \/ Copy \/ Present
Next ==
    \/ \E offset \in 0 .. SIZE, size \in 1 .. AccessLimit + 1, v \in Pixels : WriteBegin(offset, size, v)
    \/ Cpu \/ Update \/ Tick
    \/ \E e \in Event : Arrive(e)
\* The CPU thread leaves the lock, the host thread calls update again and
\* again, time passes.
Spec == Init /\ [][Next]_vars /\ WF_vars(Cpu) /\ WF_vars(Update) /\ WF_vars(Tick)

-----------------------------------------------------------------------------
\* The lock is held by whoever is between acquire and release.
TypeOK ==
    /\ vram \in [Address -> Pixels \cup {0}]
    /\ mutex = "cpu" <=> access # NoAccess
    /\ mutex = "ui" => ui = "copy"
    /\ elapsed \in 0 .. Interval

\* A frame shows no half of an access: it is a picture between two writes.
FramesAreWhole == shown \in pictures

\* Key events reach the sink once and in the order they arrived, those
\* without a Linux code left out, and the exit is asked for when a quit was
\* polled; what is missing is still in the queue.
EventsInOrder ==
    /\ Len(events) <= Len(arrived)
    /\ \A n \in 1 .. Len(events) : events[n] = arrived[Len(arrived) - Len(events) + n]
    /\ exit <=> \E n \in Polled : arrived[n].type = "quit"
    /\ Len(sink) = Len(passed)
    /\ \A n \in 1 .. Len(sink) : passed[n] \in Polled /\ sink[n] = arrived[passed[n]]
    /\ \A m, n \in 1 .. Len(passed) : m < n => passed[m] < passed[n]
    /\ \A i \in Polled : Passes(arrived[i]) <=> \E n \in 1 .. Len(passed) : passed[n] = i

\* What the guest drew last is shown in the end.
LastPictureShown == <>[](shown = vram)
=============================================================================
