------------------------------- MODULE RecIO -------------------------------
(***************************************************************************)
(* Asynchronous record I/O (ucw/main-rec.c): a main_file with a growing    *)
(* read buffer, a queue of write buffers, and flow control between them.   *)
(*                                                                         *)
(* The library is single-threaded; what makes it hard is that the user's   *)
(* callbacks may start, stop, write and delete from inside any of its      *)
(* handlers, and that starting is deferred to a main-loop hook.  Every     *)
(* action is one handler called by the main loop, except that the loop of  *)
(* rec_io_process_read_buf takes one step per call of the user's           *)
(* read_handler (pc = "scan").                                             *)
(*                                                                         *)
(* The peer's bytes are positions 1, 2, ... of a stream; those in Newlines *)
(* end a line, and the user's read_handler is rec_io_parse_line.           *)
(***************************************************************************)
EXTENDS Integers, Sequences

CONSTANTS MaxBytes,       \* bound: bytes the peer ever sends
          Newlines,       \* positions of the ends of lines
          InitBufSize,    \* read_buf_size set by the user before rec_io_add
          RecMax,         \* read_rec_max, 0 for no limit
          Throttle,       \* write_throttle_read, 0 for no flow control
          WriteBufSize,   \* write_buf_size
          WriteLens,      \* lengths of the user's writes
          MaxBuffered     \* bound: bytes buffered for writing

ASSUME RecIOAssumption ==
  /\ MaxBytes \in Nat /\ Newlines \subseteq 1..MaxBytes
  /\ InitBufSize \in Nat \ {0} /\ RecMax \in Nat /\ Throttle \in Nat
  /\ WriteBufSize \in Nat \ {0} /\ WriteLens \subseteq Nat \ {0} /\ MaxBuffered \in Nat

VARIABLES
  rio,     \* the struct main_rec_io
  pc,      \* "loop": in the main loop; "scan": in rec_io_process_read_buf
  sent,    \* bytes the peer has sent so far
  closed,  \* the peer has closed its end
  eaten    \* bytes of the stream eaten as lines: the position of read_rec_start

vars == <<rio, pc, sent, closed, eaten>>

(***************************************************************************)
(* The structure.  read_handler and write_handler are the main_file's,     *)
(* TRUE when not NULL; start_read_hook and timer are TRUE when linked;     *)
(* rec_start is read_rec_start - read_buf; a write buffer is a record of   *)
(* its `full' and `written'.                                               *)
(***************************************************************************)
Rio ==
  [active : BOOLEAN, read_started : BOOLEAN, read_running : BOOLEAN,
   start_read_hook : BOOLEAN, timer : BOOLEAN,
   read_handler : BOOLEAN, write_handler : BOOLEAN,
   read_buf : BOOLEAN, read_buf_size : Nat, rec_start : Nat,
   read_avail : Nat, read_prev_avail : Nat,
   busy : Seq([full : Nat, written : Nat]), idle : Nat,
   write_watermark : Int, write_failed : BOOLEAN]

\* a zero-filled structure with the sizes set, after rec_io_add
RecIoAdd ==
  [active |-> TRUE, read_started |-> FALSE, read_running |-> FALSE,
   start_read_hook |-> FALSE, timer |-> FALSE,
   read_handler |-> FALSE, write_handler |-> FALSE,
   read_buf |-> FALSE, read_buf_size |-> InitBufSize, rec_start |-> 0,
   read_avail |-> 0, read_prev_avail |-> 0,
   busy |-> <<>>, idle |-> 0, write_watermark |-> 0, write_failed |-> FALSE]

\* timer, hook and file are unlinked, the buffers freed; the rest stays
RecIoDel(r) ==
  [r EXCEPT !.active = FALSE, !.timer = FALSE, !.start_read_hook = FALSE,
            !.read_buf = FALSE, !.busy = <<>>, !.idle = 0]

-----------------------------------------------------------------------------
(* Starting and stopping.                                                  *)

Flow(r) == Throttle = 0 \/ r.write_watermark < Throttle

\* Mutants: the deferred start is not scheduled; the handler of the stopped
\* file stays installed.
RecalcReadNoResume(r) ==
  LET run == r.read_started /\ Flow(r) IN
  IF run = r.read_running \/ run THEN r
  ELSE [r EXCEPT !.start_read_hook = FALSE, !.read_handler = FALSE, !.read_running = FALSE]

RecalcReadKeepsHandler(r) ==
  LET run == r.read_started /\ Flow(r) IN
  IF run = r.read_running THEN r
  ELSE IF run THEN [r EXCEPT !.start_read_hook = TRUE]
  ELSE [r EXCEPT !.start_read_hook = FALSE, !.read_running = FALSE]

RecIoRecalcRead(r) ==
  LET run == r.read_started /\ Flow(r) IN
  IF run = r.read_running THEN r
  ELSE IF run THEN [r EXCEPT !.start_read_hook = TRUE]
  ELSE [r EXCEPT !.start_read_hook = FALSE, !.read_handler = FALSE, !.read_running = FALSE]

RecIoStartRead(r) == RecIoRecalcRead([r EXCEPT !.read_started = TRUE])
RecIoStopRead(r)  == RecIoRecalcRead([r EXCEPT !.read_started = FALSE])
RecIoStopWrite(r) == [r EXCEPT !.write_handler = FALSE]

\* rec_io_deferred_start_read, up to its call of rec_io_process_read_buf
DeferredStartRead(r) ==
  [r EXCEPT !.read_buf = TRUE,
            !.rec_start = IF r.read_buf THEN @ ELSE 0,
            !.read_handler = TRUE, !.start_read_hook = FALSE,
            !.read_running = TRUE, !.read_prev_avail = 0]

-----------------------------------------------------------------------------
(* Writing.                                                                *)

Smaller(a, b) == IF a < b THEN a ELSE b

\* the busy buffers after len more bytes: the last one is filled up, and then
\* rec_io_get_buffer supplies as many as needed
Filled(busy, len) ==
  LET n     == Len(busy)
      room  == IF n = 0 THEN 0 ELSE WriteBufSize - busy[n].full
      rest  == len - Smaller(len, room)
      added == (rest + WriteBufSize - 1) \div WriteBufSize
  IN  [i \in 1..(n + added) |->
         IF i < n THEN busy[i]
         ELSE IF i = n THEN [busy[n] EXCEPT !.full = @ + Smaller(len, room)]
         ELSE [full |-> Smaller(WriteBufSize, rest - (i - n - 1) * WriteBufSize), written |-> 0]]

\* rec_io_write of len > 0 bytes.  The code calls rec_io_recalc_read after every
\* buffer it fills; the watermark only grows meanwhile, and a start that the
\* earlier calls could schedule is scheduled already (StartNotLost), so the last
\* call decides.
RecIoWrite(r, len) ==
  LET busy == Filled(r.busy, len)
      used == Len(busy) - Len(r.busy)
  IN  RecIoRecalcRead(
        [r EXCEPT !.busy = busy, !.idle = @ - Smaller(@, used),
                  !.write_watermark = @ + len,
                  !.write_handler = TRUE, !.write_failed = FALSE])

-----------------------------------------------------------------------------
(* What the user may do: in a callback, up to two calls, or deletion.      *)

UserCalls(r) ==
  {r, RecIoStartRead(r), RecIoStopRead(r)}
    \cup {RecIoWrite(r, n) : n \in {n \in WriteLens : r.write_watermark + n <= MaxBuffered}}

UserActs(r) == UNION {UserCalls(x) : x \in UserCalls(r)}

\* notify_handler, which "is allowed to call rec_io_del()" (mainloop.h)
Notified(r) == UserActs(r) \cup {RecIoDel(r)}

-----------------------------------------------------------------------------
(* Reading.                                                                *)

InBuffer(r) == eaten + r.read_avail          \* bytes taken from the descriptor so far
FreeSpace(r) == r.read_buf_size - (r.rec_start + r.read_avail)
Tight(r) == FreeSpace(r) <= r.read_buf_size \div 8

\* Mutant: strict comparison, which finds room in a full buffer of < 8 bytes.
MakeRoomStrict(r) ==
  IF FreeSpace(r) >= r.read_buf_size \div 8 THEN r
  ELSE IF r.rec_start > 0 /\ r.rec_start >= r.read_buf_size \div 2
       THEN [r EXCEPT !.rec_start = 0]
       ELSE [r EXCEPT !.read_buf_size = 2 * @]

\* one pass of the part of rec_io_read_handler from restart to goto restart;
\* invariant BufferGeometry says that no second pass is ever needed
MakeRoom(r) ==
  IF ~Tight(r) THEN r
  ELSE IF r.rec_start > 0 /\ r.rec_start >= r.read_buf_size \div 2
       THEN [r EXCEPT !.rec_start = 0]
       ELSE [r EXCEPT !.read_buf_size = 2 * @]

Reading == pc = "loop" /\ rio.active /\ rio.read_handler
TooLarge(r) == RecMax > 0 /\ r.read_avail >= RecMax

\* rec_io_read_handler, the record is too large
ReadTooLarge ==
  /\ Reading /\ TooLarge(rio)
  /\ rio' \in Notified(RecIoStopRead(rio))
  /\ UNCHANGED <<pc, sent, closed, eaten>>

\* rec_io_read_handler, l bytes arrive; the scan of the buffer follows.  A read
\* that finds nothing (EAGAIN) may resize the buffer, which the next one does too.
ReadSome ==
  /\ Reading /\ ~TooLarge(rio)
  /\ LET r == MakeRoom(rio) IN
     \E l \in 1..FreeSpace(r) :
       /\ InBuffer(r) + l <= sent
       /\ rio' = [r EXCEPT !.read_prev_avail = r.read_avail, !.read_avail = @ + l]
  /\ pc' = "scan"
  /\ UNCHANGED <<sent, closed, eaten>>

\* rec_io_read_handler, read() returns 0
ReadEof ==
  /\ Reading /\ ~TooLarge(rio)
  /\ closed /\ InBuffer(rio) = sent
  /\ rio' \in Notified(RecIoStopRead(MakeRoom(rio)))
  /\ UNCHANGED <<pc, sent, closed, eaten>>

\* rec_io_read_handler, an error of read()
ReadError ==
  /\ Reading /\ ~TooLarge(rio)
  /\ rio' \in Notified(RecIoStopRead(MakeRoom(rio)))
  /\ UNCHANGED <<pc, sent, closed, eaten>>

\* rec_io_parse_line: the length of the first line, looking only at what was
\* not looked at before, or 0
RecIoParseLine(r) ==
  LET ends == {i \in r.read_prev_avail..(r.read_avail - 1) : eaten + i + 1 \in Newlines}
  IN  IF ends = {} THEN 0 ELSE 1 + CHOOSE i \in ends : \A j \in ends : i <= j

\* Mutant: read_prev_avail is not reset after a record.
EatKeepsPrev(r, got) ==
  LET avail == r.read_avail - got IN
  [r EXCEPT !.rec_start = IF avail = 0 THEN 0 ELSE @ + got, !.read_avail = avail]

Eat(r, got) ==
  LET avail == r.read_avail - got IN
  [r EXCEPT !.rec_start = IF avail = 0 THEN 0 ELSE @ + got,
            !.read_avail = avail, !.read_prev_avail = 0]

\* rec_io_process_read_buf: one turn of its loop
ScanRecord ==
  /\ pc = "scan" /\ rio.read_running
  /\ RecIoParseLine(rio) > 0
  /\ LET got == RecIoParseLine(rio) IN
     \E r \in UserActs(rio) :
       /\ rio' = Eat(r, got)
       /\ eaten' = eaten + got
       /\ pc' = IF rio'.read_avail = 0 THEN "loop" ELSE "scan"
  /\ UNCHANGED <<sent, closed>>

\* "When the read handler decides to destroy the main_rec_io, it must return ~0U"
ScanDelete ==
  /\ pc = "scan" /\ rio.read_running
  /\ RecIoParseLine(rio) > 0
  /\ rio' = RecIoDel(rio)
  /\ pc' = "loop"
  /\ UNCHANGED <<sent, closed, eaten>>

\* The loop ends: reading was stopped, or the handler wants more data.
ScanEnd ==
  /\ pc = "scan"
  /\ rio.read_running => RecIoParseLine(rio) = 0
  /\ pc' = "loop"
  /\ UNCHANGED <<rio, sent, closed, eaten>>

-----------------------------------------------------------------------------
(* The other handlers called by the main loop.                             *)

RunStartHook ==
  /\ pc = "loop" /\ rio.start_read_hook
  /\ rio' = DeferredStartRead(rio)
  /\ pc' = "scan"
  /\ UNCHANGED <<sent, closed, eaten>>

\* Mutant: a buffer that is written out is not taken off the queue.
WroteKeepsBuffer(r, l) ==
  [r EXCEPT !.busy[1].written = @ + l, !.write_watermark = @ - l]

\* rec_io_write_handler, after write() took l bytes of the first buffer
Wrote(r, l) ==
  LET b == [Head(r.busy) EXCEPT !.written = @ + l] IN
  [r EXCEPT !.busy = IF b.written = b.full THEN Tail(@) ELSE <<b>> \o Tail(@),
            !.idle = IF b.written = b.full THEN @ + 1 ELSE @,
            !.write_watermark = @ - l]

\* rec_io_write_handler.  Its early return with nothing queued is never taken:
\* see WritesAccounted.
WriteSome ==
  /\ pc = "loop" /\ rio.active /\ rio.write_handler /\ rio.busy # <<>>
  /\ \E l \in 1..(Head(rio.busy).full - Head(rio.busy).written) :
       LET w == Wrote(rio, l)
           s == IF w.write_watermark = 0 THEN RecIoStopWrite(w) ELSE w
       IN  rio' \in Notified(RecIoRecalcRead(s))
  /\ UNCHANGED <<pc, sent, closed, eaten>>

\* rec_io_write_handler, an error of write()
WriteError ==
  /\ pc = "loop" /\ rio.active /\ rio.write_handler /\ rio.busy # <<>>
  /\ rio' \in Notified([RecIoStopWrite(rio) EXCEPT !.write_failed = TRUE])
  /\ UNCHANGED <<pc, sent, closed, eaten>>

\* rec_io_timer_expired
TimerExpired ==
  /\ pc = "loop" /\ rio.timer
  /\ rio' \in Notified([rio EXCEPT !.timer = FALSE])
  /\ UNCHANGED <<pc, sent, closed, eaten>>

\* The user's calls from elsewhere: another timer, hook or file.
UserCall ==
  /\ pc = "loop" /\ rio.active
  /\ \/ rio' \in UserCalls(rio)
     \/ rio' = RecIoDel(rio)
     \/ \E on \in BOOLEAN : rio' = [rio EXCEPT !.timer = on]    \* rec_io_set_timeout
  /\ UNCHANGED <<pc, sent, closed, eaten>>

PeerSends ==
  /\ ~closed /\ sent < MaxBytes
  /\ sent' = sent + 1
  /\ UNCHANGED <<rio, pc, closed, eaten>>

PeerCloses ==
  /\ ~closed
  /\ closed' = TRUE
  /\ UNCHANGED <<rio, pc, sent, eaten>>

-----------------------------------------------------------------------------
Init ==
  /\ rio = RecIoAdd
  /\ pc = "loop" /\ sent = 0 /\ closed = FALSE /\ eaten = 0

ReadStep == ReadTooLarge \/ ReadSome \/ ReadEof
ScanStep == ScanRecord \/ ScanDelete \/ ScanEnd

Next ==
  \/ ReadStep \/ ReadError \/ ScanStep \/ RunStartHook \/ WriteSome \/ WriteError
  \/ TimerExpired \/ UserCall \/ PeerSends \/ PeerCloses

Spec == Init /\ [][Next]_vars

\* A handler runs to its end, and the main loop calls the hooks and the read
\* handlers of ready descriptors.  Nobody else is obliged to anything.
Fairness ==
  /\ []<>(pc = "loop")
  /\ WF_vars(RunStartHook) /\ WF_vars(ReadStep)

FairSpec == Spec /\ Fairness

-----------------------------------------------------------------------------
(* Properties.                                                             *)

TypeOK ==
  /\ rio \in Rio
  /\ pc \in {"loop", "scan"}
  /\ sent \in 0..MaxBytes /\ closed \in BOOLEAN /\ eaten \in 0..sent

\* Whenever the main loop may go to sleep with reading on, no complete line
\* waits in the buffer: neither the shortcut of read_prev_avail nor stopping and
\* starting in the middle of the buffer may leave one there.
NoLineMissed ==
  pc = "loop" /\ rio.active /\ rio.read_running =>
    \A p \in Newlines : ~(eaten < p /\ p <= InBuffer(rio))

\* The record lies inside the read buffer; one pass of the resizing code makes
\* room, so read() is never asked for 0 bytes (its 0 would be taken for EOF);
\* and read_rec_max bounds the memory a peer can make the reader allocate.
BufferGeometry ==
  /\ TypeOK
  /\ rio.active /\ rio.read_buf =>
       /\ rio.rec_start + rio.read_avail <= rio.read_buf_size
       /\ rio.read_prev_avail <= rio.read_avail
       /\ ~Tight(MakeRoom(rio))
       /\ RecMax > 0 => rio.read_buf_size <= InitBufSize \/ rio.read_buf_size <= 6 * RecMax

\* A start that is wanted and not stopped by flow control has happened or is
\* scheduled, and reading that runs has its handler installed.
StartNotLost ==
  rio.active =>
    /\ rio.read_started /\ Flow(rio) => rio.read_running \/ rio.start_read_hook
    /\ rio.read_running <=> rio.read_handler
    /\ rio.read_running => rio.read_buf /\ ~rio.start_read_hook

Pending(busy) ==
  LET sum[n \in 0..Len(busy)] ==
        IF n = 0 THEN 0 ELSE sum[n - 1] + busy[n].full - busy[n].written
  IN  sum[Len(busy)]

\* write_watermark, which drives flow control and decides when writing stops, is
\* the number of bytes queued; no queued buffer is exhausted; data queued after
\* the last error are being written; and the handler is never called for nothing.
WritesAccounted ==
  rio.active =>
    /\ rio.write_watermark = Pending(rio.busy)
    /\ \A i \in DOMAIN rio.busy : rio.busy[i].written < rio.busy[i].full /\ rio.busy[i].full <= WriteBufSize
    /\ rio.busy # <<>> => rio.write_handler \/ rio.write_failed
    /\ rio.write_handler => rio.busy # <<>>

\* "Reading really runs (read_started && not stopped by write_throttle_read)"
\* (mainloop.h, the comment of read_running), when no handler is running.
RunningAsRequested ==
  pc = "loop" /\ rio.active /\ rio.read_running => rio.read_started /\ Flow(rio)

\* If from some time on the user wants to read, flow control permits it and no
\* error, oversized line or callback stops it any more, every line that was sent
\* reaches the user.
LinesDelivered ==
  /\ <>[](rio.active /\ rio.read_started /\ Flow(rio))
  /\ <>[][rio.read_running => rio'.read_running]_vars
  => \A p \in Newlines : sent >= p ~> eaten >= p

=============================================================================
