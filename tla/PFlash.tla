------------------------------- MODULE PFlash -------------------------------
(* The Intel command set flash of src/device/pflash_cfi01.cpp. Offsets      *)
(* count 32-bit words: an access of 4 bytes is one step of the command      *)
(* machine and an access of 8 bytes is two such steps, one after the other. *)
(* Accesses of 1 and 2 bytes take the same steps on parts of a word and are *)
(* left out. Sizes are in words too.                                        *)
EXTENDS Integers, Sequences

CONSTANTS
    SectorLen, Blocks,     \* sector_len_, num_blocks_
    WriteBlock,            \* writeblock_size_
    Data,                  \* the words the guest programs
    Counts,                \* the word counts it gives to a buffered write
    Images                 \* what load() may have read into the storage

Words == 0 .. (SectorLen * Blocks) - 1
Erased == \hFFFF           \* a word of the erased flash, 0xFF everywhere
ReadArrayCmd == \hFF

PFlashAssumption ==
    /\ {SectorLen, Blocks, WriteBlock} \subseteq Nat \ {0} /\ Counts \subseteq Nat
    /\ SectorLen % WriteBlock = 0
    /\ Images \subseteq [Words -> Data \cup {Erased}]

VARIABLES
    flash,      \* the device's members, see Init
    session,    \* history: the words a buffered write has been given
    confirmed   \* history: the last write confirmed a buffered write

vars == <<flash, session, confirmed>>

Commands == {\h00, \h10, \h20, \h50, \h60, \h70, \h90, \h98, \hE8, \hFF}
Init ==
    /\ flash \in [storage : Images, wcycle : {0}, cmd : {\h00},
                  ready : {TRUE}, error : {FALSE},      \* bits of status_
                  counter : {0}, blk : {<<>>}, blkOffset : {-1},
                  readMode : {TRUE}]
    /\ session = <<>>
    /\ confirmed = FALSE

-----------------------------------------------------------------------------
(* What one access does to the members: f before, f after.                 *)

ModeReadArray(f) ==
    [f EXCEPT !.readMode = TRUE, !.wcycle = 0, !.cmd = \h00]

Ready(f) == [f EXCEPT !.ready = TRUE]

\* data_write: into the open block if there is one, else into the storage. A
\* word outside the open block is a programming error.
DataWrite(f, o, v) ==
    IF f.blkOffset = -1 THEN [f EXCEPT !.storage[o] = v]
    ELSE IF o < f.blkOffset \/ o + 1 > f.blkOffset + WriteBlock
         THEN [f EXCEPT !.error = TRUE]
    ELSE [f EXCEPT !.blk[o - f.blkOffset + 1] = v]

BlkWriteStart(f, o) ==
    LET base == o - (o % WriteBlock)
    IN  [f EXCEPT !.blkOffset = base,
                  !.blk = [k \in 1 .. WriteBlock |-> f.storage[base + k - 1]]]

BlkWriteFlush(f) ==
    [f EXCEPT !.storage = [o \in Words |->
                  IF o \in f.blkOffset .. f.blkOffset + WriteBlock - 1
                  THEN f.blk[o - f.blkOffset + 1] ELSE @[o]],
              !.blkOffset = -1]

BlkWriteAbort(f) == [f EXCEPT !.blkOffset = -1]

EraseSector(f, o) ==
    [f EXCEPT !.storage = [w \in Words |->
                  IF w \div SectorLen = o \div SectorLen THEN Erased ELSE @[w]]]

\* First cycle: a command, after which reads no longer return the array. The
\* erase is done at once; its confirmation comes in the second cycle.
Cycle0(g, o, v) ==
    LET f == [g EXCEPT !.readMode = FALSE]
        setup(h) == [h EXCEPT !.wcycle = 1, !.cmd = v]
    IN  CASE v \in {\h10, \h60, \h98} -> setup(f)
          [] v = \h20                 -> setup(Ready(EraseSector(f, o)))
          [] v = \hE8                 -> setup(Ready(f))
          [] v \in {\h70, \h90}       -> [f EXCEPT !.cmd = v]
          [] v = \h50                 -> ModeReadArray([f EXCEPT !.ready = FALSE,
                                                                 !.error = FALSE])
          [] OTHER                    -> ModeReadArray(f)

\* Second cycle: the word to program, a confirmation or a word count.
Cycle1(f, o, v) ==
    CASE f.cmd = \h10 -> [Ready(DataWrite(f, o, v)) EXCEPT !.wcycle = 0]
      [] f.cmd = \h20 -> IF v = \hD0 THEN [Ready(f) EXCEPT !.wcycle = 0]
                                     ELSE ModeReadArray(f)
      [] f.cmd = \hE8 -> [f EXCEPT !.counter = v, !.wcycle = 2]
      [] f.cmd = \h60 -> IF v \in {\hD0, \h01} THEN [Ready(f) EXCEPT !.wcycle = 0]
                         ELSE IF v = \hFF THEN ModeReadArray(f) ELSE f
      [] f.cmd = \h98 -> IF v = \hFF THEN ModeReadArray(f) ELSE f
      [] OTHER        -> ModeReadArray(f)

\* Third cycle: one of the counter_ + 1 words of a buffered write. With a count
\* of zero no block is opened and the write fails.
Cycle2(f, o, v) ==
    IF f.cmd # \hE8 THEN ModeReadArray(f)
    ELSE LET g == IF f.blkOffset = -1 /\ f.counter # 0
                  THEN BlkWriteStart(f, o) ELSE f
             h == IF g.blkOffset # -1 THEN DataWrite(g, o, v)
                  ELSE [g EXCEPT !.error = TRUE]
         IN  Ready(IF h.counter = 0 THEN [h EXCEPT !.wcycle = 3]
                   ELSE [h EXCEPT !.counter = @ - 1])

(* Wrong variant: the error of a word outside the block is not looked at. *)
Cycle3Blind(f, v) ==
    IF f.cmd = \hE8 /\ v = \hD0
    THEN [Ready(IF f.blkOffset = -1 THEN f ELSE BlkWriteFlush(f))
             EXCEPT !.wcycle = 0]
    ELSE ModeReadArray(BlkWriteAbort(f))

\* Last cycle: the confirmation, refused after an error.
Cycle3(f, v) ==
    IF f.cmd = \hE8 /\ v = \hD0 /\ ~f.error
    THEN [Ready(IF f.blkOffset = -1 THEN f ELSE BlkWriteFlush(f))
             EXCEPT !.wcycle = 0]
    ELSE ModeReadArray(BlkWriteAbort(f))

WriteWord(f, o, v) ==
    CASE f.wcycle = 0 -> Cycle0(f, o, v)
      [] f.wcycle = 1 -> Cycle1(f, o, v)
      [] f.wcycle = 2 -> Cycle2(f, o, v)
      [] f.wcycle = 3 -> Cycle3(f, v)

-----------------------------------------------------------------------------
(* The guest: it may write anything at any time, except that the words it   *)
(* programs and counts are bounded.                                         *)
Fits(f, v) ==
    CASE f.wcycle = 1 /\ f.cmd = \h10 -> v \in Data
      [] f.wcycle = 1 /\ f.cmd = \hE8 -> v \in Counts
      [] f.wcycle = 2                 -> v \in Data
      [] OTHER                        -> v \in Commands \cup {\h01, \hD0}

Remember(s, f, o, v) ==
    IF f.wcycle = 2 THEN Append(s, <<o, v>>)
    ELSE IF f.wcycle = 3 THEN <<>> ELSE s

WriteInternal(o, v) ==
    /\ Fits(flash, v)
    /\ flash' = WriteWord(flash, o, v)
    /\ session' = Remember(session, flash, o, v)
    /\ confirmed' = (flash.wcycle = 3 /\ v = \hD0)

Inputs == Commands \cup Data \cup Counts \cup {\h01, \hD0}

Next ==
    \E o \in Words, v \in Inputs : WriteInternal(o, v)

Spec == Init /\ [][Next]_vars

DataRead(o) == flash.storage[o]

\* What a read of the word at o returns: which register, or the array. The
\* last case, "unknown state", would also reset the command.
ReadInternal(o) ==
    IF flash.readMode \/ flash.cmd = \h00 THEN <<"array", DataRead(o)>>
    ELSE CASE flash.cmd \in {\h10, \h20, \h50, \h60, \h70, \hE8} ->
                  <<"status", flash.ready, flash.error>>
           [] flash.cmd = \h90 -> <<"identifier">>
           [] flash.cmd = \h98 -> <<"query">>
           [] OTHER -> <<"unknown">>

-----------------------------------------------------------------------------
(* Properties.                                                             *)

TypeOK ==
    /\ flash.storage \in [Words -> Data \cup {Erased}]
    /\ flash.wcycle \in 0 .. 3
    /\ flash.cmd \in Commands
    /\ flash.blkOffset \in {-1} \cup {o \in Words : o % WriteBlock = 0}

\* The array is readable exactly when the command machine rests in its initial
\* state, and read_internal never meets a command it does not know: its reset of
\* the machine in the middle of a read is never taken.
ArrayModeIsRest ==
    /\ flash.readMode <=> flash.cmd = \h00
    /\ flash.readMode => flash.wcycle = 0
    /\ \A o \in Words : ReadInternal(o)[1] # "unknown"

\* A block is open only inside a buffered write. Were it open outside, the next
\* single word program would go into the buffer and be lost.
OpenOnlyInBufferedWrite ==
    flash.blkOffset # -1 => flash.cmd = \hE8 /\ flash.wcycle \in {2, 3}

Written(s, o) == {k \in DOMAIN s : s[k][1] = o}
Overlay(storage, s) ==
    [o \in Words |->
        IF Written(s, o) = {} THEN storage[o]
        ELSE s[CHOOSE k \in Written(s, o) : \A j \in Written(s, o) : j <= k][2]]

\* A buffered write is all or nothing. Nothing reaches the array while the words
\* come in. The confirmation puts all of them there, the later of two words for
\* one place winning, and leaves the words around them alone; it is refused only
\* if the error bit is set, which then stays set to tell, and a refused one, like
\* any other command in its place, puts nothing there.
AllOrNothing ==
    [][ flash.cmd = \hE8 /\ flash.wcycle \in {2, 3} =>
          IF flash.wcycle = 3 /\ confirmed' /\ ~flash.error
          THEN flash'.storage = Overlay(flash.storage, session)
          ELSE flash'.storage = flash.storage /\ (confirmed' => flash'.error) ]_vars
=============================================================================
