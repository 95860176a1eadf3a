-------------------------------- MODULE Asio --------------------------------
(***************************************************************************)
(* Asynchronous I/O (ucw/asio.c): queues of read and write requests, one   *)
(* for each client thread, served by a pool with a single worker thread    *)
(* that is shared by all the queues and exists while any of them does.     *)
(*                                                                         *)
(* The pool is used through its promise, module WorkPool, which WorkQueue  *)
(* implements.  A client's own fields need no lock, so its step reaches    *)
(* from one operation on the pool to the next.                             *)
(***************************************************************************)
EXTENDS Integers, Sequences, FiniteSets

CONSTANTS Queues, Requests, MaxWritebacks, None

ASSUME AsioAssumption ==
  /\ IsFiniteSet(Queues) /\ IsFiniteSet(Requests)
  /\ MaxWritebacks \in Nat \ {0}
  /\ None \notin Queues \cup Requests

VARIABLES
  fifo, urgent, serving, finished, owner,   \* the worker pool
  asio_num_users,
  pc, arg,                                  \* of every queue's thread
  allocated_requests, running_requests, running_writebacks,
  idle_list, done_list, held,               \* where the requests are; held by the user
  op,                                       \* of every request
  order                                     \* history: submitted and not handled, by queue

poolVars  == <<fifo, urgent, serving, finished, owner>>
queueVars == <<allocated_requests, running_requests, running_writebacks, idle_list, done_list, held>>
vars == <<poolVars, asio_num_users, pc, arg, queueVars, op, order>>

Pool == INSTANCE WorkPool WITH
  Clients <- Queues, Works <- Requests, Priority <- [r \in Requests |-> 0]

\* struct asio_request's that nobody has allocated yet
Fresh == {r \in Requests :
  /\ owner[r] = None
  /\ \A q \in Queues : /\ r \notin idle_list[q] \cup held[q]
                      /\ \A i \in DOMAIN done_list[q] : r # done_list[q][i]}

Goto(q, label) == pc' = [pc EXCEPT ![q] = label]

-----------------------------------------------------------------------------
\* asio_init_queue: the first user starts the pool
AsioInitQueue(q) ==
  /\ pc[q] = "none"
  /\ asio_num_users' = asio_num_users + 1
  /\ Goto(q, "run")
  /\ UNCHANGED <<poolVars, arg, queueVars, op, order>>

\* asio_cleanup_queue: its ASSERTs say when the caller may; the idle requests
\* are freed, and the last user stops the pool
AsioCleanupQueue(q) ==
  /\ pc[q] = "run"
  /\ running_requests[q] = 0 /\ running_writebacks[q] = 0
  /\ allocated_requests[q] = 0 /\ done_list[q] = <<>>
  /\ idle_list' = [idle_list EXCEPT ![q] = {}]
  /\ asio_num_users' = asio_num_users - 1
  /\ Goto(q, "none")
  /\ UNCHANGED <<poolVars, arg, allocated_requests, running_requests, running_writebacks,
                 done_list, held, op, order>>

\* asio_get: a recycled request, or a new one when there is none
AsioGet(q, r) ==
  /\ pc[q] = "run"
  /\ IF idle_list[q] = {} THEN r \in Fresh ELSE r \in idle_list[q]
  /\ idle_list' = [idle_list EXCEPT ![q] = @ \ {r}]
  /\ held' = [held EXCEPT ![q] = @ \cup {r}]
  /\ allocated_requests' = [allocated_requests EXCEPT ![q] = @ + 1]
  /\ op' = [op EXCEPT ![r] = "FREE"]
  /\ UNCHANGED <<poolVars, asio_num_users, pc, arg, running_requests, running_writebacks,
                 done_list, order>>

\* Mutant of asio_put: the counter is not decremented.
AsioPutUncounted(q, r) ==
  /\ idle_list' = [idle_list EXCEPT ![q] = @ \cup {r}]
  /\ UNCHANGED allocated_requests

\* asio_put
AsioPut(q, r) ==
  /\ idle_list' = [idle_list EXCEPT ![q] = @ \cup {r}]
  /\ allocated_requests' = [allocated_requests EXCEPT ![q] = @ - 1]

UserPut(q, r) ==
  /\ pc[q] = "run" /\ r \in held[q]
  /\ AsioPut(q, r)
  /\ held' = [held EXCEPT ![q] = @ \ {r}]
  /\ UNCHANGED <<poolVars, asio_num_users, pc, arg, running_requests, running_writebacks,
                 done_list, op, order>>

\* Mutant: a finished write-back keeps its place under the limit.
RawWaitLeaksWriteback(q, r) ==
  /\ Pool!Collect(q, r)
  /\ running_requests' = [running_requests EXCEPT ![q] = @ - 1]
  /\ IF op[r] = "WRITE_BACK"
     THEN AsioPut(q, r) /\ UNCHANGED <<running_writebacks, done_list>>
     ELSE /\ done_list' = [done_list EXCEPT ![q] = Append(@, r)]
          /\ UNCHANGED <<running_writebacks, idle_list, allocated_requests>>

\* asio_raw_wait when work_wait returns r.  A write-back that failed ends the
\* program; one that did not is recycled.
RawWait(q, r) ==
  /\ Pool!Collect(q, r)
  /\ running_requests' = [running_requests EXCEPT ![q] = @ - 1]
  /\ IF op[r] = "WRITE_BACK"
     THEN /\ running_writebacks' = [running_writebacks EXCEPT ![q] = @ - 1]
          /\ AsioPut(q, r)
          /\ UNCHANGED done_list
     ELSE /\ done_list' = [done_list EXCEPT ![q] = Append(@, r)]
          /\ UNCHANGED <<running_writebacks, idle_list, allocated_requests>>

NothingRuns(q) == \A r \in Requests : owner[r] # q     \* work_wait returns NULL

-----------------------------------------------------------------------------
\* The user fills in the request and calls asio_submit.
AsioSubmit(q, r, o) ==
  /\ pc[q] = "run" /\ r \in held[q]
  /\ op' = [op EXCEPT ![r] = o]
  /\ arg' = [arg EXCEPT ![q] = r]
  /\ Goto(q, "submit")
  /\ UNCHANGED <<poolVars, asio_num_users, queueVars, order>>

MustWait(q) == op[arg[q]] = "WRITE_BACK" /\ running_writebacks[q] >= MaxWritebacks

\* asio_submit waits for a free write-back
SubmitWait(q) ==
  /\ pc[q] = "submit" /\ MustWait(q)
  /\ \E r \in Requests : RawWait(q, r)
  /\ UNCHANGED <<asio_num_users, pc, arg, held, op, order>>

SubmitDone(q) ==
  LET r == arg[q] IN
  /\ pc[q] = "submit" /\ ~MustWait(q)
  /\ running_writebacks' = [running_writebacks EXCEPT ![q] = IF op[r] = "WRITE_BACK" THEN @ + 1 ELSE @]
  /\ running_requests' = [running_requests EXCEPT ![q] = @ + 1]
  /\ Pool!Submit(q, r)
  /\ held' = [held EXCEPT ![q] = @ \ {r}]
  /\ order' = [order EXCEPT ![q] = Append(@, r)]
  /\ arg' = [arg EXCEPT ![q] = None]
  /\ Goto(q, "run")
  /\ UNCHANGED <<asio_num_users, allocated_requests, idle_list, done_list, op>>

\* asio_wait: hand over the first finished request.  With nothing running it
\* returns NULL, and nothing changes.
AsioWait(q) ==
  /\ pc[q] = "run"
  /\ done_list[q] # <<>> \/ ~NothingRuns(q)
  /\ Goto(q, "wait")
  /\ UNCHANGED <<poolVars, asio_num_users, arg, queueVars, op, order>>

WaitMore(q) ==
  /\ pc[q] = "wait" /\ done_list[q] = <<>>
  /\ \E r \in Requests : RawWait(q, r)
  /\ UNCHANGED <<asio_num_users, pc, arg, held, op, order>>

\* only write-backs were running: NULL
WaitNull(q) ==
  /\ pc[q] = "wait" /\ done_list[q] = <<>> /\ NothingRuns(q)
  /\ Goto(q, "run")
  /\ UNCHANGED <<poolVars, asio_num_users, arg, queueVars, op, order>>

WaitDone(q) ==
  /\ pc[q] = "wait" /\ done_list[q] # <<>>
  /\ held' = [held EXCEPT ![q] = @ \cup {Head(done_list[q])}]
  /\ done_list' = [done_list EXCEPT ![q] = Tail(@)]
  /\ Goto(q, "run")
  /\ UNCHANGED <<poolVars, asio_num_users, arg, allocated_requests, running_requests,
                 running_writebacks, idle_list, op, order>>

AsioSync(q) ==
  /\ pc[q] = "run" /\ running_requests[q] > 0
  /\ Goto(q, "sync")
  /\ UNCHANGED <<poolVars, asio_num_users, arg, queueVars, op, order>>

SyncWait(q) ==
  /\ pc[q] = "sync" /\ running_requests[q] > 0
  /\ \E r \in Requests : RawWait(q, r)
  /\ UNCHANGED <<asio_num_users, pc, arg, held, op, order>>

SyncDone(q) ==
  /\ pc[q] = "sync" /\ running_requests[q] = 0
  /\ Goto(q, "run")
  /\ UNCHANGED <<poolVars, asio_num_users, arg, queueVars, op, order>>

-----------------------------------------------------------------------------
(* The worker.                                                             *)

\* Mutant: two threads.
ThreadFreeOfTwo == Cardinality(serving) < 2

\* asio_wpool.num_threads = 1
ThreadFree == serving = {}

WorkerTakes(r) ==
  /\ ThreadFree
  /\ Pool!Serve(r)
  /\ UNCHANGED <<asio_num_users, pc, arg, queueVars, op, order>>

\* a sequence without its element r
Without(s, r) ==
  LET i == CHOOSE i \in DOMAIN s : s[i] = r
  IN  SubSeq(s, 1, i - 1) \o SubSeq(s, i + 1, Len(s))

\* asio_handler
AsioHandler(r) ==
  /\ Pool!Finish(r)
  /\ order' = [order EXCEPT ![owner[r]] = Without(@, r)]
  /\ UNCHANGED <<asio_num_users, pc, arg, queueVars, op>>

-----------------------------------------------------------------------------
Init ==
  /\ Pool!Init
  /\ asio_num_users = 0
  /\ pc = [q \in Queues |-> "none"] /\ arg = [q \in Queues |-> None]
  /\ allocated_requests = [q \in Queues |-> 0]
  /\ running_requests = [q \in Queues |-> 0]
  /\ running_writebacks = [q \in Queues |-> 0]
  /\ idle_list = [q \in Queues |-> {}] /\ done_list = [q \in Queues |-> <<>>]
  /\ held = [q \in Queues |-> {}]
  /\ op = [r \in Requests |-> "FREE"]
  /\ order = [q \in Queues |-> <<>>]

\* the inside of the blocking calls
ClientStep(q) ==
  \/ SubmitWait(q) \/ SubmitDone(q) \/ WaitMore(q) \/ WaitNull(q) \/ WaitDone(q)
  \/ SyncWait(q) \/ SyncDone(q)

ClientCall(q) ==
  \/ AsioInitQueue(q) \/ AsioCleanupQueue(q) \/ AsioWait(q) \/ AsioSync(q)
  \/ \E r \in Requests :
       \/ AsioGet(q, r) \/ UserPut(q, r)
       \/ \E o \in {"READ", "WRITE_BACK"} : AsioSubmit(q, r, o)

WorkerStep == \E r \in Requests : WorkerTakes(r) \/ AsioHandler(r)

Next == (\E q \in Queues : ClientStep(q) \/ ClientCall(q)) \/ WorkerStep

Spec == Init /\ [][Next]_vars

\* Threads run, and read() and write() return.
Fairness == WF_vars(WorkerStep) /\ \A q \in Queues : WF_vars(ClientStep(q))

FairSpec == Spec /\ Fairness

-----------------------------------------------------------------------------
(* Properties.                                                             *)

TypeOK ==
  /\ fifo \in Seq(Requests) /\ urgent = {} /\ serving \subseteq Requests
  /\ finished \in [Queues -> SUBSET Requests]
  /\ owner \in [Requests -> Queues \cup {None}]
  /\ asio_num_users \in Nat
  /\ pc \in [Queues -> {"none", "run", "submit", "wait", "sync"}]
  /\ arg \in [Queues -> Requests \cup {None}]
  /\ allocated_requests \in [Queues -> Nat] /\ running_requests \in [Queues -> Nat]
  /\ running_writebacks \in [Queues -> 0..MaxWritebacks]
  /\ idle_list \in [Queues -> SUBSET Requests] /\ held \in [Queues -> SUBSET Requests]
  /\ done_list \in [Queues -> Seq(Requests)]
  /\ op \in [Requests -> {"FREE", "READ", "WRITE_BACK"}]
  /\ order \in [Queues -> Seq(Requests)]

Running(q) == {r \in Requests : owner[r] = q}

\* The counters say what the queue's owner relies on: a call that must not find
\* the queue empty does not (the two ASSERT(0)), a queue whose requests were all
\* put back can be cleaned up (the ASSERTs of asio_cleanup_queue), and the pool
\* is there as long as there is something to serve.
CountersExact ==
  /\ TypeOK
  /\ \A q \in Queues :
       /\ running_requests[q] = Cardinality(Running(q))
       /\ running_writebacks[q] = Cardinality({r \in Running(q) : op[r] = "WRITE_BACK"})
       /\ allocated_requests[q] = running_requests[q] + Cardinality(held[q]) + Len(done_list[q])
       /\ pc[q] = "none" => allocated_requests[q] = 0 /\ Running(q) = {}
  /\ asio_num_users = Cardinality({q \in Queues : pc[q] # "none"})

\* "Requests on a single queue are always processed in order of their submits"
\* (asio.h): when a request is handled, the earlier ones of its queue have been
\* handled completely, so a read sees the write-backs submitted before it.
ProcessedInOrder ==
  \A r \in serving : r = Head(order[owner[r]])

\* "a submit of a write-back request can block" (asio.h), but neither it nor
\* asio_wait nor asio_sync blocks for ever.
CallsReturn ==
  \A q \in Queues : pc[q] \in {"submit", "wait", "sync"} ~> pc[q] = "run"

=============================================================================
