------------------------------ MODULE Ns16550 -------------------------------
(* The serial port, src/device/ns16550.cpp: a receive queue filled by the  *)
(* host thread or, in loopback mode, by the guest's own stores, and the    *)
(* interrupt identification.  Every access runs under ns16550_mutex_.      *)
(* The divisor latches, the scratch and the modem status register only     *)
(* hold what is stored; of them the model keeps that DLAB hides RX and IER.*)
EXTENDS Naturals, Sequences

CONSTANTS
    Char,          \* the characters
    QUEUE_SIZE,
    MaxTyped       \* bound: the characters waiting in the host console

UartAssumption == QUEUE_SIZE \in Nat \ {0} /\ MaxTyped \in Nat

VARIABLES
    typed,         \* the host console: characters not read yet
    queue,         \* rx_queue_
    ier,           \* the two enables that have an effect
    fifo,          \* FCR_ENABLE_FIFO
    dlab,          \* LCR_DLAB
    loop,          \* MCR_LOOP
    dr, temt,      \* LSR_DR, and LSR_TEMT with LSR_THRE
    iir,           \* iir_
    irq,           \* the level last given to update_irq
    owed           \* history: what was received and neither read nor cleared

vars == <<typed, queue, ier, fifo, dlab, loop, dr, temt, iir, irq, owed>>
mode == <<ier, fifo, dlab, loop>>

IIR_NO_INT == 1
IIR_THRI   == 2
IIR_RDI    == 4
IIR_RLSI   == 6

TypeOK ==
    /\ typed \in Seq(Char) /\ Len(typed) <= MaxTyped
    /\ queue \in Seq(Char) /\ Len(queue) <= QUEUE_SIZE
    /\ ier \subseteq {"RDI", "THRI"}
    /\ {fifo, dlab, loop, dr, temt, irq} \subseteq BOOLEAN
    /\ iir \in {IIR_NO_INT, IIR_THRI, IIR_RDI, IIR_RLSI}
    /\ owed \in Seq(Char)

Init ==
    /\ typed = <<>> /\ queue = <<>> /\ owed = <<>>
    /\ ier = {} /\ fifo = FALSE /\ dlab = FALSE /\ loop = FALSE
    /\ dr = FALSE /\ temt = TRUE
    /\ iir = IIR_NO_INT /\ irq = FALSE

\* update_interrupt, which ends every access that changes something: the
\* queue q, the status bits and the enables e as the access leaves them, and
\* the clear bits of the FIFO control register.
UpdateInterrupt(q, ready, te, e, clear) ==
    LET d     == ready /\ "RCVR" \notin clear
        full  == te \/ "XMIT" \in clear
        cause == (IF "RDI" \in e /\ d THEN IIR_RDI ELSE 0)
               + (IF "THRI" \in e /\ full THEN IIR_THRI ELSE 0)
    IN  /\ queue' = IF "RCVR" \in clear THEN <<>> ELSE q
        /\ dr' = d
        /\ temt' = (full \/ "THRI" \notin e)
        /\ iir' = IF cause = 0 THEN IIR_NO_INT ELSE cause
        /\ irq' = (cause # 0)

-----------------------------------------------------------------------------
(* The host.                                                               *)

Type(c) ==
    /\ Len(typed) < MaxTyped
    /\ typed' = Append(typed, c)
    /\ UNCHANGED <<queue, mode, dr, temt, iir, irq, owed>>

\* tick; read_char does not block, and without a character nothing changes.
Tick ==
    /\ fifo /\ ~loop /\ Len(queue) < QUEUE_SIZE
    /\ typed # <<>>
    /\ typed' = Tail(typed)
    /\ owed' = Append(owed, Head(typed))
    /\ UpdateInterrupt(Append(queue, Head(typed)), TRUE, temt, ier, {})
    /\ UNCHANGED mode

-----------------------------------------------------------------------------
(* The guest.                                                              *)

\* rx_byte, or the divisor latch.
ReadRX ==
    /\ LET q == IF dlab \/ queue = <<>> THEN queue ELSE Tail(queue)
       IN  UpdateInterrupt(q, IF dlab THEN dr ELSE q # <<>>, temt, ier, {})
    /\ owed' = IF dlab \/ queue = <<>> THEN owed ELSE Tail(owed)
    /\ UNCHANGED <<typed, mode>>

\* In loopback mode the character comes back unless the queue is full;
\* otherwise tx_byte prints it.
WriteTX(c) ==
    LET back == ~dlab /\ loop /\ Len(queue) < QUEUE_SIZE
    IN  /\ UpdateInterrupt(IF back THEN Append(queue, c) ELSE queue,
                           dr \/ back, temt \/ (~dlab /\ ~loop), ier, {})
        /\ owed' = IF back THEN Append(owed, c) ELSE owed
        /\ UNCHANGED <<typed, mode>>

WriteIER(e) ==
    LET enables == IF dlab THEN ier ELSE e
    IN  /\ ier' = enables
        /\ UpdateInterrupt(queue, dr, temt, enables, {})
        /\ UNCHANGED <<typed, fifo, dlab, loop, owed>>

WriteFCR(on, clear) ==
    /\ fifo' = on
    /\ UpdateInterrupt(queue, dr, temt, ier, clear)
    /\ owed' = IF "RCVR" \in clear THEN <<>> ELSE owed
    /\ UNCHANGED <<typed, ier, dlab, loop>>

WriteLCR(latch) ==
    /\ dlab' = latch
    /\ UpdateInterrupt(queue, dr, temt, ier, {})
    /\ UNCHANGED <<typed, ier, fifo, loop, owed>>

WriteMCR(back) ==
    /\ loop' = back
    /\ UpdateInterrupt(queue, dr, temt, ier, {})
    /\ UNCHANGED <<typed, ier, fifo, dlab, owed>>

Guest ==
    \/ ReadRX
    \/ \E c \in Char : WriteTX(c)
    \/ \E e \in SUBSET {"RDI", "THRI"} : WriteIER(e)
    \/ \E on \in BOOLEAN, clear \in SUBSET {"RCVR", "XMIT"} : WriteFCR(on, clear)
    \/ \E latch \in BOOLEAN : WriteLCR(latch)
    \/ \E back \in BOOLEAN : WriteMCR(back)

Next == Guest \/ Tick \/ \E c \in Char : Type(c)

Spec == Init /\ [][Next]_vars

\* The host thread ticks every device in each round of its loop.
FairSpec == Spec /\ WF_vars(Tick)

-----------------------------------------------------------------------------
(* Properties.                                                             *)

\* A driver that polls the line status sees data ready exactly while there is
\* something to read, through overflow, loopback and clearing.
DataReadyIsQueue == dr <=> queue # <<>>

\* The line is high exactly while an enabled cause exists, and the
\* identification register agrees with it.
LineIsCause ==
    /\ irq <=> ("RDI" \in ier /\ queue # <<>>) \/ "THRI" \in ier
    /\ irq <=> iir # IIR_NO_INT

\* A character that was taken from the console, or looped back and accepted,
\* is read by the guest in its turn unless the guest clears the queue: the
\* room in the queue is tested before the console is read.
ReceivedIsKept == queue = owed

\* A backlog at the console shrinks, unless the queue is full or the guest has
\* closed the port: no access sequence wedges the receiver.
BacklogIsTaken ==
    Len(typed) = MaxTyped ~>
        Len(typed) < MaxTyped \/ Len(queue) = QUEUE_SIZE \/ ~fifo \/ loop
=============================================================================
