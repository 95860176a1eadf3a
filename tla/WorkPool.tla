------------------------------ MODULE WorkPool ------------------------------
(***************************************************************************)
(* What a thread pool promises its clients (the comment at the head of     *)
(* ucw/workqueue.h), without threads, semaphores or control points:        *)
(* requests of the highest priority are served first, those of priority 0  *)
(* in the order in which they were submitted, and each of them comes back  *)
(* exactly once, to the work queue that submitted it.                      *)
(***************************************************************************)
EXTENDS Naturals, Sequences

CONSTANTS Clients, Works, Priority, None

VARIABLES
  fifo,      \* the waiting requests of priority 0, in order of submission
  urgent,    \* the waiting requests of greater priorities
  serving,   \* the requests being served
  finished,  \* for every client, the replies it has not collected
  owner      \* for every work, the client that waits for it, or None

vars == <<fifo, urgent, serving, finished, owner>>

Init ==
  /\ fifo = <<>> /\ urgent = {} /\ serving = {}
  /\ finished = [c \in Clients |-> {}]
  /\ owner = [w \in Works |-> None]

Submit(c, w) ==
  /\ owner[w] = None
  /\ owner' = [owner EXCEPT ![w] = c]
  /\ IF Priority[w] = 0 THEN fifo' = Append(fifo, w) /\ UNCHANGED urgent
                        ELSE urgent' = urgent \cup {w} /\ UNCHANGED fifo
  /\ UNCHANGED <<serving, finished>>

ServeUrgent(w) ==
  /\ w \in urgent /\ \A v \in urgent : Priority[v] <= Priority[w]
  /\ urgent' = urgent \ {w}
  /\ UNCHANGED fifo

ServeOrdinary(w) ==
  /\ urgent = {} /\ fifo # <<>> /\ w = Head(fifo)
  /\ fifo' = Tail(fifo)
  /\ UNCHANGED urgent

Serve(w) ==
  /\ ServeUrgent(w) \/ ServeOrdinary(w)
  /\ serving' = serving \cup {w}
  /\ UNCHANGED <<finished, owner>>

Finish(w) ==
  /\ w \in serving
  /\ serving' = serving \ {w}
  /\ finished' = [finished EXCEPT ![owner[w]] = @ \cup {w}]
  /\ UNCHANGED <<fifo, urgent, owner>>

\* replies, too, come back in the order of their priorities
Collect(c, w) ==
  /\ w \in finished[c] /\ \A v \in finished[c] : Priority[v] <= Priority[w]
  /\ finished' = [finished EXCEPT ![c] = @ \ {w}]
  /\ owner' = [owner EXCEPT ![w] = None]
  /\ UNCHANGED <<fifo, urgent, serving>>

Next == \E w \in Works :
  \/ Serve(w) \/ Finish(w)
  \/ \E c \in Clients : Submit(c, w) \/ Collect(c, w)

Spec == Init /\ [][Next]_vars
=============================================================================
