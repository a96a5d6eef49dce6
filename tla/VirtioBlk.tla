----------------------------- MODULE VirtioBlk ------------------------------
(* The block device, src/device/virtio_blk.cpp, and a driver of it.  The   *)
(* device works inside the driver's store to QueueNotify, so no guest step *)
(* comes between; the batch is nevertheless modelled request by request,   *)
(* because a failure stops it half way.                                    *)
(*                                                                         *)
(* The driver makes mistakes: bad register values, any capacity, rings,    *)
(* descriptor chains or buffers outside DRAM, more requests than slots.    *)
(* It keeps these rules, which the device does not check: queue sizes are  *)
(* powers of two, a queue is made ready once, with fresh rings, its        *)
(* registers are left alone while it is ready, and the status byte and the *)
(* buffer of GET_ID lie in DRAM.  One queue is modelled of the two, which  *)
(* have nothing in common but the status; requests carry one block.        *)
EXTENDS Naturals, Integers, Sequences

CONSTANTS
    IndexMod,    \* 2^16: the ring indices are of type uint16_t
    MaxNum,      \* VBLK_QUEUE_NUM_MAX
    Sizes,       \* the queue sizes the driver chooses
    Blocks,      \* the number of blocks of the disk image
    WordMod,     \* 2^64: sectors and the capacity are of type uint64_t
    Wrap,        \* 2^64 / DISK_BLK_SIZE: byte offsets wrap here
    Capacities,  \* the capacities the driver stores
    Requests,    \* the requests the driver makes, see RequestSet
    Image        \* what a block of the image holds at first

\* A request: its type, its sector and what it writes.  OTHER stands for FLUSH
\* and GET_ID, BADDATA for an IN whose buffer lies outside DRAM, BADCHAIN for
\* what desc_handler checks: a descriptor or the header outside DRAM, wrong flags.
RequestSet == [type : {"IN", "OUT", "OTHER", "UNSUPP", "BADDATA", "BADCHAIN"},
               sector : 0 .. WordMod - 1, data : STRING]
Contents == {r.data : r \in Requests} \cup {Image}

VirtioAssumption ==
    /\ {IndexMod, MaxNum, Blocks, WordMod, Wrap} \subseteq Nat \ {0}
    /\ MaxNum < IndexMod
    /\ Sizes \subseteq 1 .. MaxNum /\ \A n \in Sizes : IndexMod % n = 0
    /\ Blocks <= Wrap /\ Wrap < WordMod
    /\ Capacities \subseteq 0 .. WordMod - 1
    /\ Requests \subseteq RequestSet

VARIABLES
    \* guest memory
    avail, ring,      \* virtq_avail: idx and ring
    used, usedRing,   \* virtq_used: idx and ring
    \* the device
    num, ready, lastAvail,   \* queue_num, ready, last_avail
    availAt, usedAt,  \* where the rings lie: nowhere, their head in DRAM, or all
    status, isr, line,       \* status_, interrupt_status_, the interrupt line
    capacity,         \* config_.capacity
    stream,           \* disk_file_ works; a failure is never cleared
    disk,             \* the disk image
    \* queue_notify_handler
    batch,            \* it is in its loop; outside, its variables are 0
    target, newUsed,  \* new_avail_idx, new_used_idx
    \* history
    fault,            \* the driver has made a mistake since the last reset
    over,             \* the driver has overwritten a slot still in use
    orphan            \* the device was reset while its line was high

memory == <<avail, ring, used, usedRing>>
queue  == <<num, ready, lastAvail, availAt, usedAt>>
irq    == <<status, isr, line>>
host   == <<capacity, stream, disk>>
local  == <<batch, target, newUsed>>
vars   == <<memory, queue, irq, host, local, fault, over, orphan>>

Blank   == [type |-> "NONE", sector |-> 0, data |-> "none"]

Place == {"none", "head", "all"}
Slot  == 0 .. MaxNum - 1
Index == 0 .. IndexMod - 1

Answer(r, st, data) == [req |-> r, status |-> st, data |-> data]
Empty == Answer(Blank, "ERROR", "none")
AnswerSet == [req : Requests \cup {Blank}, status : {"OK", "ERROR"}, data : Contents \cup {"none"}]

TypeOK ==
    /\ {avail, used, lastAvail, target, newUsed} \subseteq Index
    /\ ring \in [Slot -> Requests \cup {Blank}]
    /\ usedRing \in [Slot -> AnswerSet]
    /\ {ready, line, stream, batch, fault, over, orphan} \subseteq BOOLEAN
    /\ num \in 0 .. MaxNum
    /\ {availAt, usedAt} \subseteq Place
    /\ status \subseteq {"DRIVER_OK", "NEEDS_RESET"}
    /\ isr \subseteq {"USED", "CONFIG"}
    /\ capacity \in 0 .. WordMod - 1
    /\ disk \in [0 .. Blocks - 1 -> Contents]

Init ==
    /\ avail = 0 /\ used = 0
    /\ ring = [s \in Slot |-> Blank] /\ usedRing = [s \in Slot |-> Empty]
    /\ num = 0 /\ ready = FALSE /\ lastAvail = 0
    /\ availAt = "none" /\ usedAt = "none"
    /\ status = {} /\ isr = {} /\ line = FALSE
    /\ capacity = Blocks /\ stream = TRUE
    /\ disk = [b \in 0 .. Blocks - 1 |-> Image]
    /\ batch = FALSE /\ target = 0 /\ newUsed = 0
    /\ fault = FALSE /\ over = FALSE /\ orphan = FALSE

-----------------------------------------------------------------------------
SetFail ==
    /\ status' = status \cup {"NEEDS_RESET"}
    /\ isr' = IF "DRIVER_OK" \in status THEN isr \cup {"CONFIG"} ELSE isr
    /\ line' = (line \/ "DRIVER_OK" \in status)

\* Slots and answers that nobody will look at again are forgotten: those of a
\* queue that is not ready, of a device that needs a reset, or handed over.
ForgetSlots == ring' = [s \in Slot |-> Blank] /\ usedRing' = [s \in Slot |-> Empty]

\* A store the device answers with set_fail: a queue number or a queue size
\* out of range.
BadStore ==
    /\ ~batch
    /\ SetFail
    /\ fault' = TRUE
    /\ ForgetSlots
    /\ UNCHANGED <<avail, used, queue, host, local, over, orphan>>

WriteQueueNum(n) ==
    /\ ~batch /\ ~ready
    /\ num' = n
    /\ UNCHANGED <<memory, ready, lastAvail, availAt, usedAt, irq, host, local, fault, over, orphan>>

\* QueueDriver and QueueDevice, both halves.
WriteQueueAddr(a, u) ==
    /\ ~batch /\ ~ready
    /\ availAt' = a /\ usedAt' = u
    /\ UNCHANGED <<memory, num, ready, lastAvail, irq, host, local, fault, over, orphan>>

WriteQueueReady ==
    /\ ~batch /\ ~ready /\ num # 0 /\ avail = used
    /\ ready' = TRUE
    /\ lastAvail' = IF availAt = "none" THEN lastAvail ELSE avail
    /\ UNCHANGED <<memory, num, availAt, usedAt, irq, host, local, fault, over, orphan>>

WriteQueueNotReady ==
    /\ ~batch /\ ready
    /\ ready' = FALSE /\ over' = FALSE
    /\ ForgetSlots
    /\ UNCHANGED <<avail, used, num, lastAvail, availAt, usedAt, irq, host, local, fault, orphan>>

\* update_status with bits to set ...
WriteStatus ==
    /\ ~batch
    /\ status' = status \cup {"DRIVER_OK"}
    /\ UNCHANGED <<memory, queue, isr, line, host, local, fault, over, orphan>>

\* ... and with 0: a reset, which leaves the line and the capacity as they are.
Reset ==
    /\ ~batch
    /\ status' = {} /\ isr' = {} /\ UNCHANGED line
    /\ num' = 0 /\ ready' = FALSE /\ lastAvail' = 0
    /\ availAt' = "none" /\ usedAt' = "none"
    /\ fault' = FALSE /\ over' = FALSE /\ orphan' = line
    /\ ForgetSlots
    /\ UNCHANGED <<avail, used, host, local>>

InterruptACK(S) ==
    /\ ~batch
    /\ isr' = isr \ S
    /\ line' = (line /\ isr' # {})
    /\ orphan' = (orphan /\ isr' # {})
    /\ UNCHANGED <<memory, queue, status, host, local, fault, over>>

\* The configuration space is plain memory for the guest, at any time.
WriteCapacity(c) ==
    /\ ~batch
    /\ capacity' = c
    /\ UNCHANGED <<memory, queue, irq, stream, disk, local, fault, over, orphan>>

-----------------------------------------------------------------------------
(* The driver's stores to its own memory.  What it posts to a device that  *)
(* needs a reset is left out: nothing looks at it before the reset.        *)

Ahead(i, j) == (i - j + IndexMod) % IndexMod

InitRings(i) ==
    /\ ~batch /\ ~ready
    /\ avail' = i /\ used' = i
    /\ UNCHANGED <<ring, usedRing, queue, irq, host, local, fault, over, orphan>>

PostRequest(r) ==
    /\ ~batch /\ ready /\ "NEEDS_RESET" \notin status
    /\ Ahead(avail, used) < num
    /\ ring' = [ring EXCEPT ![avail % num] = r]
    /\ avail' = (avail + 1) % IndexMod
    /\ fault' = (fault \/ r.type = "BADCHAIN")
    /\ UNCHANGED <<used, usedRing, queue, irq, host, local, over, orphan>>

\* A request too many: it takes the place of one that is not served, or not
\* handed over, yet.
OverPost(r) ==
    /\ ~batch /\ ready /\ availAt # "none" /\ "NEEDS_RESET" \notin status
    /\ Ahead(avail, used) >= num
    /\ ring' = [ring EXCEPT ![avail % num] = r]
    /\ avail' = (avail + 1) % IndexMod
    /\ fault' = TRUE /\ over' = TRUE
    /\ UNCHANGED <<used, usedRing, queue, irq, host, local, orphan>>

-----------------------------------------------------------------------------
(* queue_notify_handler.                                                   *)

\* The difference is taken in int: where the index has wrapped it is negative.
TooMany == avail - lastAvail > num

Unusable ==
    \/ ~("DRIVER_OK" \in status /\ ready)
    \/ availAt = "none"
    \/ TooMany
    \/ avail # lastAvail /\ usedAt = "none"

NotifyFails ==
    /\ ~batch /\ "NEEDS_RESET" \notin status
    /\ Unusable
    /\ SetFail
    /\ fault' = (fault \/ ~("DRIVER_OK" \in status /\ ready) \/ "none" \in {availAt, usedAt})
    /\ ForgetSlots
    /\ UNCHANGED <<avail, used, queue, host, local, over, orphan>>

Notify ==
    /\ ~batch /\ "NEEDS_RESET" \notin status
    /\ ~Unusable
    /\ avail # lastAvail
    /\ batch' = TRUE /\ target' = avail /\ newUsed' = used
    /\ UNCHANGED <<memory, queue, irq, host, fault, over, orphan>>

LeaveLoop == batch' = FALSE /\ target' = 0 /\ newUsed' = 0

Block(s) == s % Wrap

(* Wrong variant: the sector is not compared with the capacity. *)
InRangeOffsetOnly(s) == Block(s) < Blocks

\* sector > capacity - 1 is refused, and so is an offset beyond the image.  The
\* capacity 0 refuses no sector, and one above Wrap some that wrap.
InRange(s) == s <= (capacity + WordMod - 1) % WordMod /\ Block(s) < Blocks

\* desc_handler with read_handler and write_handler, works telling whether the
\* host file does: is r answered with VIRTIO_BLK_S_OK, ...
Succeeds(r, works) ==
    \/ r.type \in {"IN", "OUT"} /\ works /\ InRange(r.sector)
    \/ r.type = "OTHER"    \* FLUSH and GET_ID

\* ... what does the disk hold afterwards ...
DiskAfter(r, works) ==
    IF r.type = "OUT" /\ Succeeds(r, works)
    THEN [disk EXCEPT ![Block(r.sector)] = r.data] ELSE disk

\* ... and what does the driver find in its memory.
AnswerTo(r, works) ==
    IF ~Succeeds(r, works) THEN Answer(r, "ERROR", "none")
    ELSE Answer(r, "OK", IF r.type = "IN" THEN disk[Block(r.sector)] ELSE "none")

\* A buffer outside DRAM makes Dram::write_bytes throw once the block is read, and
\* VirtioBlk::write is noexcept: the emulator ends.  With an OUT it ends before
\* the file is looked at, so that is left out.
Throws(r, works) == r.type = "BADDATA" /\ works /\ InRange(r.sector)

\* The request at hand: the ring slot, or a chain, lies outside DRAM or is
\* malformed; nothing is carried out.
RefuseOne ==
    /\ batch /\ lastAvail # target
    /\ availAt # "all" \/ ring[lastAvail % num].type = "BADCHAIN"
    /\ SetFail
    /\ LeaveLoop
    /\ fault' = TRUE
    /\ ForgetSlots
    /\ UNCHANGED <<avail, used, queue, host, over, orphan>>

\* Otherwise it is carried out ...
ServeOne(works) ==
    LET r == ring[lastAvail % num]
    IN  /\ batch /\ lastAvail # target
        /\ availAt = "all" /\ r.type # "BADCHAIN" /\ ~Throws(r, works)
        /\ works => stream
        /\ stream' = (stream /\ (works \/ r.type \notin {"IN", "OUT", "BADDATA"}
                                         \/ ~InRange(r.sector)))
        /\ disk' = DiskAfter(r, works)
        /\ UNCHANGED <<avail, used, num, ready, availAt, usedAt, capacity, over, orphan>>
        /\ IF usedAt = "all"
           THEN /\ lastAvail' = (lastAvail + 1) % IndexMod
                /\ newUsed' = (newUsed + 1) % IndexMod
                /\ usedRing' = [usedRing EXCEPT ![newUsed % num] = AnswerTo(r, works)]
                /\ UNCHANGED <<ring, irq, batch, target, fault>>
           ELSE \* ... but the place for the answer lies outside DRAM.
                /\ SetFail
                /\ LeaveLoop
                /\ fault' = TRUE
                /\ ForgetSlots
                /\ UNCHANGED lastAvail

\* noint is virtq_avail.flags, which the driver may set as it likes.
Publish(noint) ==
    /\ batch /\ lastAvail = target
    /\ used' = newUsed /\ over' = FALSE
    /\ ForgetSlots
    /\ LeaveLoop
    /\ isr' = IF noint THEN isr ELSE isr \cup {"USED"}
    /\ line' = (line \/ ~noint)
    /\ UNCHANGED <<avail, queue, status, host, fault, orphan>>

-----------------------------------------------------------------------------
Driver ==
    \/ BadStore \/ WriteQueueReady \/ WriteQueueNotReady \/ WriteStatus \/ Reset
    \/ \E n \in Sizes : WriteQueueNum(n)
    \/ \E a \in Place : WriteQueueAddr(a, "all") \/ WriteQueueAddr("all", a)
    \/ \E S \in SUBSET {"USED", "CONFIG"} : InterruptACK(S)
    \/ \E c \in Capacities : WriteCapacity(c)
    \/ \E i \in {0, IndexMod - 1} : InitRings(i)
    \/ \E r \in Requests : PostRequest(r) \/ OverPost(r)

Next ==
    \/ Driver
    \/ Notify \/ NotifyFails \/ RefuseOne
    \/ \E works \in BOOLEAN : ServeOne(works)
    \/ \E noint \in BOOLEAN : Publish(noint)

Spec == Init /\ [][Next]_vars

-----------------------------------------------------------------------------
(* Properties.                                                             *)

\* The device asks for a reset only if its driver made a mistake: in
\* particular not where the 16-bit indices wrap.
NeedsResetForAFault == "NEEDS_RESET" \in status => fault

\* Outside queue_notify_handler, answers written but not handed over exist
\* only where a batch failed half way, and then the device needs a reset.
PartialBatchNeedsReset ==
    ~batch /\ ready /\ availAt # "none" /\ lastAvail # used => "NEEDS_RESET" \in status

\* The line is high exactly while an interrupt status bit is set, or since a
\* reset that found it high: a reset does not lower it.
LineHasCause == line <=> isr # {} \/ orphan

\* Where a slot was overwritten, the device refuses the next batch if it sees more
\* requests than slots; where the index has wrapped it may not see that.
Mode == IF ~ready \/ availAt = "none" THEN "off"
        ELSE IF "NEEDS_RESET" \in status THEN "broken"
        ELSE IF ~over THEN "on"
        ELSE IF batch THEN "astray"
        ELSE IF avail > lastAvail + num THEN "overrun" ELSE "missed"

\* The requests posted, as the ring indices tell, and the answers waiting.
Todo == IF Mode # "on" THEN <<>>
        ELSE [k \in 1 .. Ahead(avail, lastAvail) |-> ring[((lastAvail + k - 1) % IndexMod) % num]]
Done == IF Mode # "on" THEN <<>>
        ELSE [k \in 1 .. Ahead(lastAvail, used) |-> usedRing[((used + k - 1) % IndexMod) % num]]

Promise == INSTANCE BlockQueue WITH
    todo <- Todo, done <- Done, Data <- Contents, state <- Mode,
    size <- num, limited <- capacity \in 1 .. Wrap

\* The two rings with their wrapping indices are a queue: requests are served
\* in order, once each, on the right block, and every answer is true; but for
\* missing blocks under a capacity that is 0 or above Wrap, and for slots that the
\* driver has overwritten, which the device need not notice.
KeepsPromise == Promise!BQSpec
=============================================================================
