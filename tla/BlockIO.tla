------------------------------- MODULE BlockIO -------------------------------
(***************************************************************************)
(* Block I/O of the main loop (ucw/main-block.c): one main_block_io on a   *)
(* connection, its reading and writing sides and its timer.                *)
(*                                                                         *)
(* Every read() and write() of a handler is one action, because the peer   *)
(* runs in between; so is the entry of a callback (read_done, write_done,  *)
(* error_handler), and the calls the program makes from callbacks or from  *)
(* other hooks between two handlers.  The main loop is external here: it   *)
(* calls a handler that is set and calls it again after HOOK_RETRY.        *)
(***************************************************************************)
EXTENDS Integers, Sequences

CONSTANTS
  Lens,         \* lengths of requests, with 0 for cancelling
  MaxSent,      \* how many bytes the peer sends
  MaxRequests   \* how many requests the program makes

Sides == {"r", "w"}

VARIABLES
  linked,       \* the file is in one of the main loop's lists
  handler,      \* read_handler and write_handler are set
  pos, len,     \* rpos, wpos and rlen, wlen
  timer,        \* the timer is set
  running,      \* the side whose handler runs, or "none"
  calling,      \* the callback being run, or "none"
  arrived, eof, \* bytes the peer has sent so far, and its end of file
  moved,        \* bytes read or written, by side
  done,         \* bytes of finished requests, by side
  cancelled,    \* bytes moved by requests that were cancelled, by side
  open,         \* a request has been made and neither finished nor cancelled
  requests      \* the number of requests made

blockVars == <<linked, handler, pos, len, timer, running, calling, arrived, eof,
               moved, done, cancelled, open, requests>>

requestVars == <<pos, len, moved, done, cancelled, open, requests>>

\* The program runs: in a callback, or between two handlers
UserRuns == calling # "none" \/ running = "none"

-----------------------------------------------------------------------------
(* Calls of the program *)

\* block_io_add
Add ==
  /\ UserRuns /\ ~linked
  /\ linked' = TRUE
  /\ UNCHANGED <<handler, pos, len, timer, running, calling, arrived, eof, moved,
                 done, cancelled, open, requests>>

\* block_io_del leaves the request and its handler where they are
Del ==
  /\ UserRuns /\ linked
  /\ linked' = FALSE /\ timer' = FALSE
  /\ UNCHANGED <<handler, pos, len, running, calling, arrived, eof, moved, done,
                 cancelled, open, requests>>

\* block_io_read and block_io_write: the previous request is cancelled
Request(s, n) ==
  /\ UserRuns /\ linked /\ requests < MaxRequests
  /\ handler' = [handler EXCEPT ![s] = n > 0]
  /\ pos' = [pos EXCEPT ![s] = 0]
  /\ len' = [len EXCEPT ![s] = n]
  /\ cancelled' = [cancelled EXCEPT ![s] = @ + (IF open[s] THEN pos[s] ELSE 0)]
  /\ open' = [open EXCEPT ![s] = n > 0]
  /\ requests' = requests + 1
  /\ UNCHANGED <<linked, timer, running, calling, arrived, eof, moved, done>>

\* block_io_set_timeout
SetTimeout(on) ==
  /\ UserRuns /\ timer # on
  /\ timer' = on
  /\ UNCHANGED <<linked, handler, running, calling, arrived, eof>>
  /\ UNCHANGED requestVars

\* Mutant: the handler is reset after read_done or write_done, not before it
ReturnResets ==
  /\ calling # "none"
  /\ calling' = "none"
  /\ running' = "none"
  /\ handler' = IF calling = "done" THEN [handler EXCEPT ![running] = FALSE] ELSE handler
  /\ UNCHANGED <<linked, timer, arrived, eof>>
  /\ UNCHANGED requestVars

\* A callback returns.  The handlers that called read_done or write_done give
\* HOOK_RETRY, on which the main loop calls them again if they are set; after
\* an error or a timeout, nothing is retried.
Return ==
  /\ calling # "none"
  /\ calling' = "none"
  /\ running' = IF calling = "done" /\ handler[running] THEN running ELSE "none"
  /\ UNCHANGED <<linked, handler, timer, arrived, eof>>
  /\ UNCHANGED requestVars

-----------------------------------------------------------------------------
(* The main loop and the handlers *)

\* The main loop found the descriptor ready; a signal of an error or hangup
\* comes also when there is nothing to read
CallHandler(s) ==
  /\ running = "none" /\ calling = "none" /\ linked /\ handler[s]
  /\ running' = s
  /\ UNCHANGED <<linked, handler, timer, calling, arrived, eof>>
  /\ UNCHANGED requestVars

InHandler(s) == running = s /\ calling = "none"

\* read() or write() moves n bytes
Transfer(s, n) ==
  /\ InHandler(s) /\ pos[s] < len[s]
  /\ n <= len[s] - pos[s]
  /\ s = "r" => n <= arrived - moved["r"]
  /\ pos' = [pos EXCEPT ![s] = @ + n]
  /\ moved' = [moved EXCEPT ![s] = @ + n]
  /\ UNCHANGED <<linked, handler, len, timer, running, calling, arrived, eof, done,
                 cancelled, open, requests>>

\* EAGAIN or EINTR: HOOK_IDLE
Blocked(s) ==
  /\ InHandler(s) /\ pos[s] < len[s]
  /\ running' = "none"
  /\ UNCHANGED <<linked, handler, timer, calling, arrived, eof>>
  /\ UNCHANGED requestVars

\* Another error: error_handler is called and the request stays
Fails(s) ==
  /\ InHandler(s) /\ pos[s] < len[s]
  /\ calling' = "error"
  /\ UNCHANGED <<linked, handler, timer, running, arrived, eof>>
  /\ UNCHANGED requestVars

\* All is transferred, or read() met the end of file: the handler is reset and
\* read_done or write_done is called
Finish(s) ==
  /\ InHandler(s)
  /\ pos[s] >= len[s] \/ (s = "r" /\ eof /\ moved["r"] = arrived)
  /\ handler' = [handler EXCEPT ![s] = FALSE]
  /\ calling' = "done"
  /\ done' = [done EXCEPT ![s] = @ + pos[s]]
  /\ open' = [open EXCEPT ![s] = FALSE]
  /\ UNCHANGED <<linked, pos, len, timer, running, arrived, eof, moved, cancelled, requests>>

\* block_io_timer_expired
Expire ==
  /\ running = "none" /\ calling = "none" /\ timer
  /\ timer' = FALSE
  /\ calling' = "timeout"
  /\ UNCHANGED <<linked, handler, running, arrived, eof>>
  /\ UNCHANGED requestVars

\* The peer sends a byte or closes the connection
Peer ==
  /\ ~eof
  /\ \/ arrived < MaxSent /\ arrived' = arrived + 1 /\ eof' = eof
     \/ eof' = TRUE /\ arrived' = arrived
  /\ UNCHANGED <<linked, handler, timer, running, calling>>
  /\ UNCHANGED requestVars

-----------------------------------------------------------------------------

Zero == [s \in Sides |-> 0]

Init ==
  /\ linked = FALSE
  /\ handler = [s \in Sides |-> FALSE]
  /\ pos = Zero /\ len = Zero /\ moved = Zero /\ done = Zero /\ cancelled = Zero
  /\ open = [s \in Sides |-> FALSE]
  /\ timer = FALSE /\ running = "none" /\ calling = "none"
  /\ arrived = 0 /\ eof = FALSE /\ requests = 0

Next ==
  \/ Add \/ Del \/ Return \/ Expire \/ Peer
  \/ \E s \in Sides : \/ \E n \in Lens : Request(s, n)
                      \/ \E n \in Lens \ {0} : Transfer(s, n)
                      \/ CallHandler(s) \/ Blocked(s) \/ Fails(s) \/ Finish(s)
  \/ \E on \in BOOLEAN : SetTimeout(on)

Spec == Init /\ [][Next]_blockVars

-----------------------------------------------------------------------------

\* A request in progress is always being polled for, also when it was made
\* from the callback of the previous one, and it owns its handler
RequestPolled == \A s \in Sides : open[s] <=> handler[s]

\* Every byte taken from the descriptor or given to it belongs to a finished
\* request, to one cancelled on the way, or to the one in progress
BytesAccounted ==
  \A s \in Sides :
    moved[s] = done[s] + cancelled[s] + (IF open[s] THEN pos[s] ELSE 0)

\* The requests of a block I/O survive each other: mainloop.h:453-478
BlockSound == RequestPolled /\ BytesAccounted

=============================================================================
