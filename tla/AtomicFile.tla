----------------------------- MODULE AtomicFile -----------------------------
(***************************************************************************)
(* The atomic fastbufs of ucw/fb-atomic.c: several threads append records  *)
(* to one file, each through its own clone.  A file of fixed-size records  *)
(* has buffers of a whole number of records; with records of variable size *)
(* the buffer is locked, grows instead of being written, and is written by *)
(* fbatomic_commit once less room than a record is left.                   *)
(*                                                                         *)
(* A byte is <<thread, record, place in it, length of it>>.  The clones    *)
(* were opened one after another (their initialization is not thread-safe) *)
(* and tied to a resource pool.  The use count shared by the clones is     *)
(* decremented without a lock: its load and its store are separate steps.  *)
(***************************************************************************)
EXTENDS Integers, Sequences, SequencesExt, FiniteSets

CONSTANTS
  Threads,
  RecordLens,  \* the values of record_len the file may be opened with
  BufSize,
  Lens,        \* the lengths of variable-sized records
  MaxRecords   \* per thread

VARIABLES
  recordLen,  \* af->record_len
  useCount,   \* af->use_count
  fd,         \* "open" or "closed"
  file,       \* what was written to it
  buf,        \* each clone's bytes between buffer and bptr
  cap,        \* bufend - buffer
  slack,      \* slack_size
  left,       \* <<place, length>> of the record being written, or <<>>
  sent,       \* all bytes the thread has put to its clone
  st,         \* "open", "dead" (FB_DEAD), "closing", "loaded", "closed"
  reg,        \* the value of use_count the thread has loaded
  halted      \* the program has died

atomicVars == <<recordLen, useCount, fd, file, buf, cap, slack, left, sent, st, reg, halted>>

\* af->locked
Locked == recordLen < 0

\* expected_max_bptr - buffer
ExpectedMax(t) == cap[t] - slack[t]

Running(t) == ~halted /\ st[t] = "open"

\* fbatomic_open of the master and of all its clones
Init ==
  /\ recordLen \in RecordLens
  /\ useCount = Cardinality(Threads)
  /\ fd = "open"
  /\ file = << >>
  /\ buf = [t \in Threads |-> << >>]
  /\ cap = [t \in Threads |->
              IF recordLen > 0 THEN BufSize + ((-BufSize) % recordLen) ELSE BufSize]
  /\ slack = [t \in Threads |-> IF Locked THEN -recordLen ELSE 0]
  /\ left = [t \in Threads |-> << >>]
  /\ sent = [t \in Threads |-> << >>]
  /\ st = [t \in Threads |-> "open"]
  /\ reg = [t \in Threads |-> 0]
  /\ halted = FALSE

-----------------------------------------------------------------------------

\* fbatomic_internal_write followed by the bytes that go to the emptied buffer
InternalWrite(t, then) ==
  /\ file' = file \o buf[t]
  /\ buf' = [buf EXCEPT ![t] = then]

\* Its failure: nothing or a part is written and bthrow marks the fastbuf dead
WriteFails(t) ==
  /\ buf[t] # << >>
  /\ \E n \in 0 .. Len(buf[t]) - 1 : file' = file \o SubSeq(buf[t], 1, n)
  /\ buf' = [buf EXCEPT ![t] = << >>]
  /\ st' = [st EXCEPT ![t] = "dead"]
  /\ UNCHANGED <<recordLen, useCount, fd, cap, slack, left, sent, reg, halted>>

Number(t) == Cardinality({k \in DOMAIN sent[t] : sent[t][k][3] = 1})

\* The program starts a record of the given length
StartRecord(t, n) ==
  /\ Running(t)
  /\ left[t] = << >>
  /\ Number(t) < MaxRecords
  /\ Locked => Len(buf[t]) < ExpectedMax(t)  \* the last one was committed
  /\ left' = [left EXCEPT ![t] = <<1, n>>]
  /\ UNCHANGED <<recordLen, useCount, fd, file, buf, cap, slack, sent, st, reg, halted>>

\* The next byte of the record
NextByte(t) ==
  <<t, IF left[t][1] = 1 THEN Number(t) + 1 ELSE Number(t), left[t][1], left[t][2]>>

Advance(t) ==
  /\ sent' = [sent EXCEPT ![t] = Append(@, NextByte(t))]
  /\ left' = [left EXCEPT ![t] = IF @[1] = @[2] THEN << >> ELSE <<@[1] + 1, @[2]>>]

\* bputc or a part of bwrite which fits in the buffer
Put(t) ==
  /\ Running(t)
  /\ left[t] # << >>
  /\ Len(buf[t]) < cap[t]
  /\ buf' = [buf EXCEPT ![t] = Append(@, NextByte(t))]
  /\ Advance(t)
  /\ UNCHANGED <<recordLen, useCount, fd, file, cap, slack, st, reg, halted>>

\* Mutant: a full buffer is written although the file is locked
SpoutUnlocked(t) ==
  /\ Running(t)
  /\ left[t] # << >>
  /\ Len(buf[t]) = cap[t]
  /\ InternalWrite(t, <<NextByte(t)>>)
  /\ Advance(t)
  /\ UNCHANGED <<recordLen, useCount, fd, cap, slack, st, reg, halted>>

\* bputc or bwrite with a full buffer: fbatomic_spout, then the byte
Spout(t) ==
  /\ Running(t)
  /\ left[t] # << >>
  /\ Len(buf[t]) = cap[t]
  /\ IF Locked
     THEN /\ cap' = [cap EXCEPT ![t] = @ + slack[t]]
          /\ slack' = [slack EXCEPT ![t] = 2 * @]
          /\ buf' = [buf EXCEPT ![t] = Append(@, NextByte(t))]
          /\ UNCHANGED file
     ELSE /\ InternalWrite(t, <<NextByte(t)>>)
          /\ UNCHANGED <<cap, slack>>
  /\ Advance(t)
  /\ UNCHANGED <<recordLen, useCount, fd, st, reg, halted>>

SpoutFails(t) ==
  /\ Running(t)
  /\ ~Locked
  /\ left[t] # << >>
  /\ Len(buf[t]) = cap[t]
  /\ WriteFails(t)

\* fbatomic_commit; below expected_max_bptr it does nothing
Commit(t) ==
  /\ Running(t)
  /\ Locked
  /\ left[t] = << >>
  /\ Len(buf[t]) >= ExpectedMax(t)
  /\ InternalWrite(t, << >>)
  /\ UNCHANGED <<recordLen, useCount, fd, cap, slack, left, sent, st, reg, halted>>

CommitFails(t) ==
  /\ Running(t)
  /\ Locked
  /\ left[t] = << >>
  /\ Len(buf[t]) >= ExpectedMax(t)
  /\ WriteFails(t)

-----------------------------------------------------------------------------

\* bclose and the write of fbatomic_close, between whole records.  An explicit
\* flush of a buffer that is not full is ignored by fbatomic_spout.
CloseWrite(t) ==
  /\ Running(t)
  /\ left[t] = << >>
  /\ InternalWrite(t, << >>)
  /\ st' = [st EXCEPT ![t] = "closing"]
  /\ UNCHANGED <<recordLen, useCount, fd, cap, slack, left, sent, reg, halted>>

\* bclose has detached the resource, so an error in fbatomic_close is fatal
CloseFails(t) ==
  /\ Running(t)
  /\ left[t] = << >>
  /\ buf[t] # << >>
  /\ \E n \in 0 .. Len(buf[t]) - 1 : file' = file \o SubSeq(buf[t], 1, n)
  /\ halted' = TRUE
  /\ UNCHANGED <<recordLen, useCount, fd, buf, cap, slack, left, sent, st, reg>>

\* The clean-up after an exception closes a dead fastbuf without writing
CloseDead(t) ==
  /\ ~halted
  /\ st[t] = "dead"
  /\ st' = [st EXCEPT ![t] = "closing"]
  /\ UNCHANGED <<recordLen, useCount, fd, file, buf, cap, slack, left, sent, reg, halted>>

\* --af->use_count: the load ...
CloseLoad(t) ==
  /\ ~halted
  /\ st[t] = "closing"
  /\ reg' = [reg EXCEPT ![t] = useCount]
  /\ st' = [st EXCEPT ![t] = "loaded"]
  /\ UNCHANGED <<recordLen, useCount, fd, file, buf, cap, slack, left, sent, halted>>

\* ... and the store, with close() of the file by the one who has reached zero
CloseStore(t) ==
  /\ ~halted
  /\ st[t] = "loaded"
  /\ useCount' = reg[t] - 1
  /\ fd' = IF reg[t] = 1 THEN "closed" ELSE fd
  /\ st' = [st EXCEPT ![t] = "closed"]
  /\ UNCHANGED <<recordLen, file, buf, cap, slack, left, sent, reg, halted>>

Next ==
  \E t \in Threads :
    \/ \E n \in IF Locked THEN Lens ELSE {recordLen} : StartRecord(t, n)
    \/ Put(t)
    \/ Spout(t)
    \/ SpoutFails(t)
    \/ Commit(t)
    \/ CommitFails(t)
    \/ CloseWrite(t)
    \/ CloseFails(t)
    \/ CloseDead(t)
    \/ CloseLoad(t)
    \/ CloseStore(t)

Spec == Init /\ [][Next]_atomicVars

-----------------------------------------------------------------------------

\* A byte added to those of a thread, if it is its own
Keep(t, bytes, b) == IF b[1] = t THEN Append(bytes, b) ELSE bytes

\* The bytes of a thread in a sequence of bytes, in their order
BytesOf(t, bytes) ==
  LET of[n \in 0..Len(bytes)] ==
        IF n = 0 THEN << >> ELSE Keep(t, of[n - 1], bytes[n])
  IN  of[Len(bytes)]

\* The bytes of a record are uninterrupted in the file, whatever the threads
\* do (fastbuf.h:489); only the last block of a failed write may be torn
RecordsWhole ==
  \A k \in DOMAIN file :
    LET b == file[k] IN
    /\ b[3] > 1 => k > 1 /\ file[k - 1] = <<b[1], b[2], b[3] - 1, b[4]>>
    /\ \/ b[3] = b[4]
       \/ k < Len(file) /\ file[k + 1] = <<b[1], b[2], b[3] + 1, b[4]>>
       \/ st[b[1]] # "open" /\ Len(BytesOf(b[1], file)) < Len(sent[b[1]])
       \/ halted

\* Each thread's records are in the file in the order they were put, and what
\* is not there is still in the buffer, unless a write has failed
NothingLost ==
  \A t \in Threads :
    /\ st[t] = "open" /\ ~halted => BytesOf(t, file) \o buf[t] = sent[t]
    /\ IsPrefix(BytesOf(t, file), sent[t])

\* Nobody uses the file, nor the structure freed with it, after close()
NoUseAfterClose == fd = "closed" => \A t \in Threads : st[t] = "closed"

\* A record not longer than announced never makes the buffer grow
GrowthJustified ==
  \A t \in Threads : cap[t] > BufSize /\ Locked =>
    \E k \in DOMAIN sent[t] : sent[t][k][4] > -recordLen

\* Appends of the threads are atomic and complete; the file is not closed early
AtomicSound == RecordsWhole /\ NothingLost /\ NoUseAfterClose /\ GrowthJustified

\* "The file is closed when all fastbufs using it are closed" (fastbuf.h:532)
FileClosedAtLast == (\A t \in Threads : st[t] = "closed") => fd = "closed"

=============================================================================
