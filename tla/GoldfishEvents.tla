--------------------------- MODULE GoldfishEvents ---------------------------
(* The input device, src/device/goldfish_events.cpp.  The user interface   *)
(* pushes key events from the host thread, the guest reads them a word at  *)
(* a time from the CPU thread; both hold goldfish_events_mutex_, so each   *)
(* handler is one step.                                                    *)
EXTENDS Naturals, Sequences

CONSTANTS
    MAX_EVENTS,  \* 1024: words in the ring, a power of two
    Keys         \* the key events of the user (key code and press or release)

EventsAssumption == MAX_EVENTS \in Nat \ {0}

VARIABLES
    page,        \* page_: what the length and data registers show
    state,       \* state_
    events,      \* events_: the ring of words
    first, last, \* first_, last_: next word to read, next free word
    irq,         \* the level last given to update_irq
    unread,      \* history: the words accepted and not read yet
    odd          \* history: "lapped" once the ring has been filled to the brim,
                 \* "hollow" when the line was raised for an empty ring

vars == <<page, state, events, first, last, irq, unread, odd>>

Slots == 0 .. MAX_EVENTS - 1

\* An event is three words; Blank is a word never written.
Blank == <<>>
Words == {"type"} \X Keys \cup {"code"} \X Keys \cup {"value"} \X Keys
Triple(k) == <<<<"type", k>>, <<"code", k>>, <<"value", k>>>>

TypeOK ==
    /\ page \in {"NAME", "EVBITS", "ABSDATA", "OTHER"}
    /\ state \in {"INIT", "BUFFERED", "LIVE"}
    /\ events \in [Slots -> Words \cup {Blank}]
    /\ first \in Slots /\ last \in Slots
    /\ irq \in BOOLEAN
    /\ unread \in Seq(Words)
    /\ odd \subseteq {"lapped", "hollow"}

Init ==
    /\ page = "NAME" /\ state = "INIT"
    /\ events = [s \in Slots |-> Blank]
    /\ first = 0 /\ last = 0
    /\ irq = FALSE
    /\ unread = <<>> /\ odd = {}

Plus(s, n) == (s + n) % MAX_EVENTS

(* Wrong variant: the indices are subtracted without the wrap-around. *)
EnqueuedUnwrapped == IF last >= first THEN last - first ELSE first - last

Enqueued == IF last >= first THEN last - first ELSE MAX_EVENTS + last - first

\* What is unread is followed until the ring has been filled to the brim.
Track(u) == unread' = IF "lapped" \in odd THEN unread ELSE u

-----------------------------------------------------------------------------
\* push_key_event: an event that does not fit is dropped.  The first event of
\* an empty ring raises the line, or waits for the driver.
EnqueueEvent(k) ==
    /\ Enqueued + 3 <= MAX_EVENTS
    /\ irq' = (irq \/ (first = last /\ state = "LIVE"))
    /\ state' = IF first = last /\ state # "LIVE" THEN "BUFFERED" ELSE state
    /\ events' = [events EXCEPT ![last] = <<"type", k>>, ![Plus(last, 1)] = <<"code", k>>,
                                ![Plus(last, 2)] = <<"value", k>>]
    /\ last' = Plus(last, 3)
    /\ Track(unread \o Triple(k))
    /\ odd' = IF Len(unread) + 3 = MAX_EVENTS THEN odd \cup {"lapped"} ELSE odd
    /\ UNCHANGED <<page, first>>

\* The line when the words from f on are left: low when there are none; with
\* more than two it is pulsed, which leaves it high.
LineAfterRead(f) == f # last /\ (irq \/ Plus(f, 2) < last \/ f > last)

\* A read of REG_READ; an empty ring reads as 0 and changes nothing.
DequeueEvent ==
    /\ first # last
    /\ first' = Plus(first, 1)
    /\ irq' = LineAfterRead(first')
    /\ Track(Tail(unread))
    /\ odd' = IF first' = last THEN odd \ {"hollow"} ELSE odd
    /\ UNCHANGED <<page, state, events, last>>

\* A write of REG_SET_PAGE.
SetPage(p) ==
    /\ page' = p
    /\ UNCHANGED <<state, events, first, last, irq, unread, odd>>

\* A read of REG_LEN on the ABSDATA page: the driver is ready.
GoLive ==
    /\ page = "ABSDATA"
    /\ irq' = (irq \/ state = "BUFFERED")
    /\ state' = "LIVE"
    /\ odd' = IF state = "BUFFERED" /\ first = last THEN odd \cup {"hollow"} ELSE odd
    /\ UNCHANGED <<page, events, first, last, unread>>

Next ==
    \/ \E k \in Keys : EnqueueEvent(k)
    \/ DequeueEvent
    \/ \E p \in {"NAME", "EVBITS", "ABSDATA", "OTHER"} : SetPage(p)
    \/ GoLive

Spec == Init /\ [][Next]_vars

-----------------------------------------------------------------------------
(* Properties.                                                             *)

\* Until the ring has been filled to the brim, what the guest will read is
\* what the user has typed: whole events, in order, none twice and none lost,
\* wherever the indices stand.
RingIsFifo ==
    "lapped" \notin odd =>
        /\ Len(unread) = (MAX_EVENTS + last - first) % MAX_EVENTS
        /\ \A n \in 1 .. Len(unread) : events[(first + n - 1) % MAX_EVENTS] = unread[n]

\* A driver that is ready is told of every event, also of those that were
\* typed before it was ready and of those that arrive while it reads.
UnreadRaisesLine ==
    "lapped" \notin odd /\ state = "LIVE" /\ unread # <<>> => irq

\* The line is high for a reason: words are left, or the driver became ready
\* after it had emptied the ring (the line then stays high until the next
\* event has been read).
LineHasCause == "lapped" \notin odd /\ irq => unread # <<>> \/ "hollow" \in odd
=============================================================================
