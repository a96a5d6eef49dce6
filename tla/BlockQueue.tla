----------------------------- MODULE BlockQueue -----------------------------
(* What a block device promises its driver: requests are served one after  *)
(* the other in the order they were posted, each on the disk as the        *)
(* earlier ones left it, and answered in that order.  After a failure      *)
(* nothing more is served or answered until the queue is set up again.     *)
(* A driver that floods the queue loses what it had posted; the device     *)
(* does not always notice, and then it serves something, until it has      *)
(* caught up.                                                              *)
EXTENDS Naturals, Sequences

CONSTANT
    Data         \* the contents of a block

VARIABLES
    disk,        \* block -> contents
    todo,        \* the requests posted and not served
    done,        \* the answers not handed over yet
    state,       \* off, on, broken; after a flood overrun, missed or astray
    size,        \* how many requests and answers there is room for
    limited      \* the capacity is one that keeps missing blocks out

bqvars == <<disk, todo, done, state>>

\* The blocks r may be carried out on: its own, if it exists.  Otherwise none,
\* unless the driver has stored a capacity that lets it wrap to another.
Hit(r) == IF r.sector \in DOMAIN disk THEN {r.sector}
          ELSE IF limited THEN {} ELSE DOMAIN disk

\* An answer to r: a block that is hit is read and written as the request
\* says; a request may also fail, and then changes nothing.
Answer(r, status, data) == [req |-> r, status |-> status, data |-> data]
NoData == "none"

Served(r, d, a) ==
    \/ \E b \in Hit(r) : r.type = "IN" /\ d = disk /\ a = Answer(r, "OK", disk[b])
    \/ \E b \in Hit(r) : r.type = "OUT" /\ d = [disk EXCEPT ![b] = r.data]
                                       /\ a = Answer(r, "OK", NoData)
    \/ r.type = "OTHER" /\ d = disk /\ a = Answer(r, "OK", NoData)
    \/ d = disk /\ a = Answer(r, "ERROR", NoData)

BQInit == todo = <<>> /\ done = <<>> /\ state = "off" /\ disk \in [DOMAIN disk -> Data]

Post == Len(todo') = Len(todo) + 1 /\ SubSeq(todo', 1, Len(todo)) = todo
        /\ state = "on" /\ UNCHANGED <<disk, done, state>>

Serve ==
    /\ state = "on" /\ todo # <<>>
    /\ todo' = Tail(todo)
    /\ Len(done') = Len(done) + 1 /\ SubSeq(done', 1, Len(done)) = done
    /\ Served(Head(todo), disk', done'[Len(done')])
    /\ UNCHANGED state

\* All answers are handed over at once.
HandOver ==
    /\ state = "on" /\ done # <<>>
    /\ done' = <<>>
    /\ UNCHANGED <<disk, todo, state>>

\* The device gives up; the request at hand may have been carried out.
Break ==
    /\ state = "on" /\ state' = "broken"
    /\ \/ disk' = disk
       \/ todo # <<>> /\ Head(todo).type = "OUT"
          /\ \E b \in Hit(Head(todo)) : disk' = [disk EXCEPT ![b] = Head(todo).data]
    /\ todo' = <<>> /\ done' = <<>>

\* The driver switches the queue off, or sets it up empty.
Switch ==
    /\ state # state' /\ "off" \in {state, state'} /\ state' \in {"off", "on", "broken"}
    /\ todo' = <<>> /\ done' = <<>>
    /\ UNCHANGED disk

\* The driver posts into a full queue.
Flood ==
    /\ Len(todo) + Len(done) >= size
    /\ state = "on" /\ state' \in {"overrun", "missed"}
    /\ todo' = <<>> /\ done' = <<>>
    /\ UNCHANGED disk

\* Then: a device that sees the overrun serves nothing and breaks.  One that
\* misses it goes astray, changes the disk block by block and gets back in step.
AfterFlood ==
    /\ \/ state = "overrun" /\ state' \in {"overrun", "missed", "broken"} /\ UNCHANGED disk
       \/ state = "missed" /\ state' # "on" /\ state' # "off" /\ UNCHANGED disk
       \/ state = "astray" /\ state' \in {"astray", "broken", "on"}
          /\ \/ UNCHANGED disk
             \/ \E b \in DOMAIN disk, x \in Data : disk' = [disk EXCEPT ![b] = x]
    /\ UNCHANGED <<todo, done>>

BQNext == Post \/ Serve \/ HandOver \/ Break \/ Switch \/ Flood \/ AfterFlood

BQSpec == BQInit /\ [][BQNext]_bqvars
=============================================================================
