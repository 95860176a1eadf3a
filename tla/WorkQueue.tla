----------------------------- MODULE WorkQueue -----------------------------
(***************************************************************************)
(* Thread pools and work queues (ucw/workqueue.c, ucw/workqueue.h).        *)
(*                                                                         *)
(* A pool has a raw queue of requests served by its worker threads.  Every *)
(* client thread owns one work_queue, whose raw queue `finished' gathers   *)
(* the replies.  The raw queues are named Requests and, for the finished   *)
(* queue of a client, by the client itself.                                *)
(*                                                                         *)
(* A thread's step is the code between two synchronisation points.  All    *)
(* the accesses to pri0_queue and pri_heap lie between one lock and one    *)
(* unlock of queue_mutex, with nothing blocking inside, so such a section  *)
(* is one step and the mutex needs no variable.  The semaphore is          *)
(* different: raw_queue_put posts it after the unlock, and raw_queue_get   *)
(* waits for it before the lock, and other threads run in both gaps.       *)
(*                                                                         *)
(* The heap of the requests with a priority is kept as a set here; the     *)
(* array algorithm is the subject of module Heap.                          *)
(***************************************************************************)
EXTENDS Integers, Sequences, FiniteSets

CONSTANTS Workers,    \* the threads of the pool (num_threads of them)
          Clients,    \* threads that own a work_queue each
          Main,       \* the thread that calls worker_pool_init and _cleanup
          Works,      \* the struct work's the clients submit
          Priority,   \* w->priority, a function on Works
          Requests,   \* the name of the pool's raw queue
          Pill,       \* the on-stack struct work of worker_pool_cleanup
          None        \* no work

Threads   == Workers \cup Clients \cup {Main}
RawQueues == Clients \cup {Requests}
Items     == Works \cup {Pill}

ASSUME WorkQueueAssumption ==
  /\ IsFiniteSet(Workers) /\ IsFiniteSet(Clients) /\ IsFiniteSet(Works)
  /\ Workers # {}
  /\ Workers \cap Clients = {} /\ Main \notin Workers \cup Clients
  /\ Requests \notin Clients
  /\ Pill \notin Works /\ None \notin Items \cup RawQueues
  /\ Priority \in [Works -> Nat]

VARIABLES
  pri0_queue,        \* the FIFO list of every raw queue
  pri_heap,          \* the requests of non-zero priority in every raw queue
  queue_sem,         \* the semaphore of every raw queue
  alive,             \* initialised and not yet cleaned up
  nr_running,        \* of every client's work_queue
  reply_to,          \* of every work
  init_cleanup_sem,  \* the pool's second semaphore
  pc,                \* where every thread is
  q,                 \* the raw queue a thread operates on
  cur,               \* the work a thread holds
  pills              \* loop counter of worker_pool_cleanup

queueVars == <<pri0_queue, pri_heap>>
vars == <<pri0_queue, pri_heap, queue_sem, alive, nr_running, reply_to,
          init_cleanup_sem, pc, q, cur, pills>>

(***************************************************************************)
(* Control points.  "sem_wait": blocked in sem_wait(queue_sem); "do_get":  *)
(* past it, about to lock and dequeue; "post": inserted and unlocked, about*)
(* to sem_post.                                                            *)
(***************************************************************************)
WorkerPc == {"none", "init", "sem_wait", "do_get", "go", "post", "gone"}
ClientPc == {"uninit", "idle", "post", "sem_wait", "do_get", "gone"}
MainPc   == {"create", "init_wait", "run", "put", "post", "cleanup_wait", "join", "done"}

ItemPriority(w) == IF w = Pill THEN 0 ELSE Priority[w]

-----------------------------------------------------------------------------
(* Raw queues.                                                             *)

Empty(r) == pri_heap[r] = {} /\ pri0_queue[r] = <<>>

\* raw_queue_put, up to the unlock
RawQueueInsert(r, w) ==
  IF ItemPriority(w) = 0
  THEN /\ pri0_queue' = [pri0_queue EXCEPT ![r] = Append(@, w)]
       /\ UNCHANGED pri_heap
  ELSE /\ pri_heap' = [pri_heap EXCEPT ![r] = @ \cup {w}]
       /\ UNCHANGED pri0_queue

\* Mutant: the sem_post is forgotten.
RawQueuePostForgotten(t) == UNCHANGED queue_sem

\* raw_queue_put, the sem_post after the unlock
RawQueuePost(t) ==
  queue_sem' = [queue_sem EXCEPT ![q[t]] = @ + 1]

\* sem_wait(q->queue_sem); a successful sem_trywait does the same
RawQueueSemWait(r) ==
  /\ queue_sem[r] > 0
  /\ queue_sem' = [queue_sem EXCEPT ![r] = @ - 1]

\* HEAP_DELETE_MIN under PRI_LESS: some work of the greatest priority
HeapTop(r, w) ==
  /\ w \in pri_heap[r]
  /\ \A v \in pri_heap[r] : ItemPriority(v) <= ItemPriority(w)

\* Mutants of raw_queue_do_get: the list is looked at before the heap; the work
\* is left in the list; the list is used as a stack.
RawQueueDoGetListFirst(r, w) ==
  IF pri0_queue[r] # <<>>
  THEN /\ w = Head(pri0_queue[r])
       /\ pri0_queue' = [pri0_queue EXCEPT ![r] = Tail(@)]
       /\ UNCHANGED pri_heap
  ELSE /\ HeapTop(r, w)
       /\ pri_heap' = [pri_heap EXCEPT ![r] = @ \ {w}]
       /\ UNCHANGED pri0_queue

RawQueueDoGetNoRemove(r, w) ==
  /\ IF pri_heap[r] = {} THEN pri0_queue[r] # <<>> /\ w = Head(pri0_queue[r])
                         ELSE HeapTop(r, w)
  /\ UNCHANGED <<pri_heap, pri0_queue>>

RawQueueDoGetStack(r, w) ==
  IF pri_heap[r] = {}
  THEN LET n == Len(pri0_queue[r]) IN
       /\ n > 0
       /\ w = pri0_queue[r][n]
       /\ pri0_queue' = [pri0_queue EXCEPT ![r] = SubSeq(@, 1, n - 1)]
       /\ UNCHANGED pri_heap
  ELSE /\ HeapTop(r, w)
       /\ pri_heap' = [pri_heap EXCEPT ![r] = @ \ {w}]
       /\ UNCHANGED pri0_queue

\* raw_queue_do_get: w is the work it returns
RawQueueDoGet(r, w) ==
  IF pri_heap[r] = {}
  THEN /\ pri0_queue[r] # <<>>
       /\ w = Head(pri0_queue[r])
       /\ pri0_queue' = [pri0_queue EXCEPT ![r] = Tail(@)]
       /\ UNCHANGED pri_heap
  ELSE /\ HeapTop(r, w)
       /\ pri_heap' = [pri_heap EXCEPT ![r] = @ \ {w}]
       /\ UNCHANGED pri0_queue

Goto(t, label) == pc' = [pc EXCEPT ![t] = label]

-----------------------------------------------------------------------------
(* Worker threads.                                                         *)

\* init_thread() done, sem_post(init_cleanup_sem), enter the service loop
WorkerInit(t) ==
  /\ pc[t] = "init"
  /\ init_cleanup_sem' = init_cleanup_sem + 1
  /\ Goto(t, "sem_wait")
  /\ q' = [q EXCEPT ![t] = Requests]
  /\ UNCHANGED <<queueVars, queue_sem, alive, nr_running, reply_to, cur, pills>>

WorkerSemWait(t) ==
  /\ pc[t] = "sem_wait"
  /\ RawQueueSemWait(Requests)
  /\ Goto(t, "do_get")
  /\ UNCHANGED <<queueVars, alive, nr_running, reply_to, init_cleanup_sem, q, cur, pills>>

WorkerDoGet(t) ==
  /\ pc[t] = "do_get"
  /\ \E w \in Items : RawQueueDoGet(Requests, w) /\ cur' = [cur EXCEPT ![t] = w]
  /\ Goto(t, "go")
  /\ UNCHANGED <<queue_sem, alive, nr_running, reply_to, init_cleanup_sem, q, pills>>

\* w->go() of a client's work returns; the reply is inserted.  From here on
\* the worker knows only the queue: the work may be anyone's already.
WorkerReply(t) ==
  /\ pc[t] = "go" /\ cur[t] \in Works
  /\ RawQueueInsert(reply_to[cur[t]], cur[t])
  /\ q' = [q EXCEPT ![t] = reply_to[cur[t]]]
  /\ cur' = [cur EXCEPT ![t] = None]
  /\ Goto(t, "post")
  /\ UNCHANGED <<queue_sem, alive, nr_running, reply_to, init_cleanup_sem, pills>>

WorkerReplyPost(t) ==
  /\ pc[t] = "post"
  /\ RawQueuePost(t)
  /\ q' = [q EXCEPT ![t] = Requests]
  /\ Goto(t, "sem_wait")
  /\ UNCHANGED <<queueVars, alive, nr_running, reply_to, init_cleanup_sem, cur, pills>>

\* w->go is worker_thread_signal_finish: the thread ends and never replies
WorkerSignalFinish(t) ==
  /\ pc[t] = "go" /\ cur[t] = Pill
  /\ init_cleanup_sem' = init_cleanup_sem + 1
  /\ cur' = [cur EXCEPT ![t] = None]
  /\ Goto(t, "gone")
  /\ UNCHANGED <<queueVars, queue_sem, alive, nr_running, reply_to, q, pills>>

-----------------------------------------------------------------------------
(* Clients.                                                                *)

WorkQueueInit(c) ==
  /\ pc[c] = "uninit" /\ pc[Main] = "run"
  /\ alive' = [alive EXCEPT ![c] = TRUE]
  /\ Goto(c, "idle")
  /\ UNCHANGED <<queueVars, queue_sem, nr_running, reply_to, init_cleanup_sem, q, cur, pills>>

\* The works a client may submit: the ones nobody has submitted.  A work
\* returned by work_wait has no reply_to that anyone will use.
Idle(w) == reply_to[w] = None

\* Nothing in the library keeps a client from submitting to a pool that is
\* being cleaned up; its callers do (asio_cleanup, the test in workqueue.c),
\* hence pc[Main] = "run".
WorkSubmit(c, w) ==
  /\ pc[c] = "idle" /\ pc[Main] = "run"
  /\ Idle(w)
  /\ reply_to' = [reply_to EXCEPT ![w] = c]
  /\ RawQueueInsert(Requests, w)
  /\ q' = [q EXCEPT ![c] = Requests]
  /\ Goto(c, "post")
  /\ UNCHANGED <<queue_sem, alive, nr_running, init_cleanup_sem, cur, pills>>

\* nr_running belongs to the client's thread, so its increment can share a
\* step with the sem_post before it
WorkSubmitPost(c) ==
  /\ pc[c] = "post"
  /\ RawQueuePost(c)
  /\ nr_running' = [nr_running EXCEPT ![c] = @ + 1]
  /\ Goto(c, "idle")
  /\ UNCHANGED <<queueVars, alive, reply_to, init_cleanup_sem, q, cur, pills>>

\* work_wait, which blocks.  With nr_running = 0 it returns NULL at once, and
\* so does a work_try_wait that finds the semaphore at 0: nothing changes.
WorkWait(c) ==
  /\ pc[c] = "idle" /\ nr_running[c] > 0
  /\ q' = [q EXCEPT ![c] = c]
  /\ Goto(c, "sem_wait")
  /\ UNCHANGED <<queueVars, queue_sem, alive, nr_running, reply_to, init_cleanup_sem, cur, pills>>

WorkWaitSem(c) ==
  /\ pc[c] = "sem_wait"
  /\ RawQueueSemWait(c)
  /\ Goto(c, "do_get")
  /\ UNCHANGED <<queueVars, alive, nr_running, reply_to, init_cleanup_sem, q, cur, pills>>

\* Mutant: the result of sem_trywait is ignored.
WorkTryWaitUnchecked(c) ==
  /\ pc[c] = "idle" /\ nr_running[c] > 0
  /\ queue_sem' = [queue_sem EXCEPT ![c] = IF @ > 0 THEN @ - 1 ELSE 0]
  /\ q' = [q EXCEPT ![c] = c]
  /\ Goto(c, "do_get")
  /\ UNCHANGED <<queueVars, alive, nr_running, reply_to, init_cleanup_sem, cur, pills>>

WorkTryWait(c) ==
  /\ pc[c] = "idle" /\ nr_running[c] > 0
  /\ RawQueueSemWait(c)
  /\ q' = [q EXCEPT ![c] = c]
  /\ Goto(c, "do_get")
  /\ UNCHANGED <<queueVars, alive, nr_running, reply_to, init_cleanup_sem, cur, pills>>

\* The work is handed to the caller, who may reuse or free it.
WorkWaitDoGet(c) ==
  /\ pc[c] = "do_get"
  /\ \E w \in Works :
       /\ RawQueueDoGet(c, w)
       /\ reply_to' = [reply_to EXCEPT ![w] = None]
  /\ nr_running' = [nr_running EXCEPT ![c] = @ - 1]
  /\ Goto(c, "idle")
  /\ UNCHANGED <<queue_sem, alive, init_cleanup_sem, q, cur, pills>>

\* ASSERT(!q->nr_running), and the ASSERTs of raw_queue_cleanup are invariants
WorkQueueCleanup(c) ==
  /\ pc[c] = "idle" /\ nr_running[c] = 0
  /\ alive' = [alive EXCEPT ![c] = FALSE]
  /\ Goto(c, "gone")
  /\ UNCHANGED <<queueVars, queue_sem, nr_running, reply_to, init_cleanup_sem, q, cur, pills>>

-----------------------------------------------------------------------------
(* The owner of the pool.                                                  *)

Created == {t \in Workers : pc[t] # "none"}

\* one turn of the loop of worker_pool_init
PoolCreate(t) ==
  /\ pc[Main] = "create" /\ pc[t] = "none"
  /\ pc' = [pc EXCEPT ![t] = "init", ![Main] = "init_wait"]
  /\ UNCHANGED <<queueVars, queue_sem, alive, nr_running, reply_to, init_cleanup_sem, q, cur, pills>>

PoolInitWait ==
  /\ pc[Main] = "init_wait"
  /\ init_cleanup_sem > 0
  /\ init_cleanup_sem' = init_cleanup_sem - 1
  /\ Goto(Main, IF Created = Workers THEN "run" ELSE "create")
  /\ UNCHANGED <<queueVars, queue_sem, alive, nr_running, reply_to, q, cur, pills>>

\* worker_pool_cleanup is called when no client is inside work_submit; they
\* may still have replies to collect.
PoolCleanup ==
  /\ pc[Main] = "run"
  /\ \A c \in Clients : pc[c] # "post"
  /\ Goto(Main, "put")
  /\ UNCHANGED <<queueVars, queue_sem, alive, nr_running, reply_to, init_cleanup_sem, q, cur, pills>>

\* raw_queue_put(&p->requests, &w)
PoolPutPill ==
  /\ pc[Main] = "put"
  /\ RawQueueInsert(Requests, Pill)
  /\ q' = [q EXCEPT ![Main] = Requests]
  /\ Goto(Main, "post")
  /\ UNCHANGED <<queue_sem, alive, nr_running, reply_to, init_cleanup_sem, cur, pills>>

PoolPostPill ==
  /\ pc[Main] = "post"
  /\ RawQueuePost(Main)
  /\ Goto(Main, "cleanup_wait")
  /\ UNCHANGED <<queueVars, alive, nr_running, reply_to, init_cleanup_sem, q, cur, pills>>

\* Mutant: the next turn starts without waiting for the worker to finish.
PoolCleanupNoWait ==
  /\ pc[Main] = "cleanup_wait"
  /\ pills' = pills + 1
  /\ Goto(Main, IF pills' = Cardinality(Workers) THEN "join" ELSE "put")
  /\ UNCHANGED <<queueVars, queue_sem, alive, nr_running, reply_to, init_cleanup_sem, q, cur>>

PoolCleanupWait ==
  /\ pc[Main] = "cleanup_wait"
  /\ init_cleanup_sem > 0
  /\ init_cleanup_sem' = init_cleanup_sem - 1
  /\ pills' = pills + 1
  /\ Goto(Main, IF pills' = Cardinality(Workers) THEN "join" ELSE "put")
  /\ UNCHANGED <<queueVars, queue_sem, alive, nr_running, reply_to, q, cur>>

\* pthread_join of every thread, then raw_queue_cleanup and sem_free
PoolJoin ==
  /\ pc[Main] = "join"
  /\ \A t \in Workers : pc[t] = "gone"
  /\ alive' = [alive EXCEPT ![Requests] = FALSE]
  /\ Goto(Main, "done")
  /\ UNCHANGED <<queueVars, queue_sem, nr_running, reply_to, init_cleanup_sem, q, cur, pills>>

-----------------------------------------------------------------------------
\* worker_pool_init has created the raw queue and the semaphore, no thread yet;
\* every work_queue is still uninitialised memory, shown as an empty queue
Init ==
  /\ pri0_queue = [r \in RawQueues |-> <<>>]
  /\ pri_heap = [r \in RawQueues |-> {}]
  /\ queue_sem = [r \in RawQueues |-> 0]
  /\ alive = [r \in RawQueues |-> r = Requests]
  /\ nr_running = [c \in Clients |-> 0]
  /\ reply_to = [w \in Works |-> None]
  /\ init_cleanup_sem = 0
  /\ pc = [t \in Threads |-> IF t \in Workers THEN "none"
                             ELSE IF t = Main THEN "create" ELSE "uninit"]
  /\ q = [t \in Threads |-> Requests]
  /\ cur = [t \in Workers |-> None]
  /\ pills = 0

WorkerStep(t) ==
  \/ WorkerInit(t) \/ WorkerSemWait(t) \/ WorkerDoGet(t)
  \/ WorkerReply(t) \/ WorkerReplyPost(t) \/ WorkerSignalFinish(t)

\* what a client does once it is inside a call
ClientStep(c) == WorkSubmitPost(c) \/ WorkWaitSem(c) \/ WorkWaitDoGet(c)

\* what a client may choose to do
ClientCall(c) ==
  \/ WorkQueueInit(c) \/ WorkWait(c) \/ WorkTryWait(c) \/ WorkQueueCleanup(c)
  \/ \E w \in Works : WorkSubmit(c, w)

MainStep ==
  \/ \E t \in Workers : PoolCreate(t)
  \/ PoolInitWait \/ PoolPutPill \/ PoolPostPill \/ PoolCleanupWait \/ PoolJoin

Next ==
  \/ \E t \in Workers : WorkerStep(t)
  \/ \E c \in Clients : ClientStep(c) \/ ClientCall(c)
  \/ MainStep
  \/ PoolCleanup

Spec == Init /\ [][Next]_vars

\* Threads that can run do run, and go() returns.  Nothing obliges a client to
\* call anything, or the owner to clean the pool up.
Fairness ==
  /\ \A t \in Workers : WF_vars(WorkerStep(t))
  /\ \A c \in Clients : WF_vars(ClientStep(c))
  /\ WF_vars(MainStep)

FairSpec == Spec /\ Fairness

-----------------------------------------------------------------------------
(* Properties.                                                             *)

TypeOK ==
  /\ pri0_queue \in [RawQueues -> Seq(Items)]
  /\ pri_heap \in [RawQueues -> SUBSET Works]
  /\ queue_sem \in [RawQueues -> Nat]
  /\ alive \in [RawQueues -> BOOLEAN]
  /\ nr_running \in [Clients -> Int]
  /\ reply_to \in [Works -> Clients \cup {None}]
  /\ init_cleanup_sem \in Nat
  /\ pc \in [Threads -> WorkerPc \cup ClientPc \cup MainPc]
  /\ \A t \in Workers : pc[t] \in WorkerPc
  /\ \A c \in Clients : pc[c] \in ClientPc
  /\ pc[Main] \in MainPc
  /\ q \in [Threads -> RawQueues]
  /\ cur \in [Workers -> Items \cup {None}]
  /\ pills \in Nat

Getters(r) == {t \in Threads : pc[t] = "do_get" /\ q[t] = r}
Posters(r) == {t \in Threads : pc[t] = "post" /\ q[t] = r}

\* "sem_t *queue_sem; // Number of requests queued" (workqueue.h): it is that
\* number only up to the threads caught between the mutex and the semaphore.
SemCount ==
  \A r \in RawQueues :
    queue_sem[r] + Cardinality(Getters(r)) + Cardinality(Posters(r))
      = Len(pri0_queue[r]) + Cardinality(pri_heap[r])

\* ASSERT(w) of raw_queue_do_get: a thread that got past the semaphore finds a
\* work, whatever the other threads took in between.
DequeueFindsWork ==
  \A t \in Threads : pc[t] = "do_get" => ~Empty(q[t])

\* Where a submitted work can be.
Occurrences(s, w) == Cardinality({i \in DOMAIN s : s[i] = w})
InQueue(r, w) == Occurrences(pri0_queue[r], w) + (IF w \in pri_heap[r] THEN 1 ELSE 0)
Holders(w) == {t \in Workers : cur[t] = w}

\* A work is never lost or duplicated: a submitted one is in exactly one of the
\* request queue, the hands of one worker, and the finished queue of the client
\* that submitted it; any other work is nowhere.
OnePlace ==
  \A w \in Works :
    /\ InQueue(Requests, w) + Cardinality(Holders(w))
         + (IF reply_to[w] = None THEN 0 ELSE InQueue(reply_to[w], w))
       = (IF reply_to[w] = None THEN 0 ELSE 1)
    /\ \A c \in Clients : c # reply_to[w] => InQueue(c, w) = 0

\* "uint nr_running; // Number of requests in service" (workqueue.h): it counts
\* the client's works that are out, except inside work_submit, which counts late.
NrRunningExact ==
  \A c \in Clients :
    nr_running[c] + (IF pc[c] = "post" THEN 1 ELSE 0)
      = Cardinality({w \in Works : reply_to[w] = c})

\* Every submitted work is in exactly one place until its client gets it back,
\* and nr_running counts just these: work_wait never says NULL while a reply is
\* due and never blocks when none is.
WorkConservation == OnePlace /\ NrRunningExact

\* No thread touches a raw queue that raw_queue_cleanup has freed, although the
\* worker's sem_post comes after the insertion that lets the client see the
\* work; and the queue was empty then (the ASSERTs of raw_queue_cleanup).
NoUseAfterCleanup ==
  \A r \in RawQueues : ~alive[r] =>
    /\ Empty(r) /\ queue_sem[r] = 0
    /\ \A t \in Threads : pc[t] \in {"sem_wait", "do_get", "post"} => q[t] # r
    /\ \A t \in Workers : cur[t] \in Works => reply_to[cur[t]] # r

\* "These callbacks are serialized and worker_pool_init() function waits until
\* all of them finish" (workqueue.h).
InitSerialized ==
  /\ \A t, u \in Workers : pc[t] = "init" /\ pc[u] = "init" => t = u
  /\ pc[Main] \notin {"create", "init_wait"} => \A t \in Workers : pc[t] \notin {"none", "init"}

\* The on-stack struct work of worker_pool_cleanup is referenced only during its
\* own turn of the loop, and each turn ends exactly one worker.
PillScope ==
  LET inUse == Occurrences(pri0_queue[Requests], Pill) + Cardinality(Holders(Pill))
  IN  /\ inUse = (IF \/ pc[Main] = "post"
                     \/ pc[Main] = "cleanup_wait" /\ init_cleanup_sem = 0
                  THEN 1 ELSE 0)
      /\ Cardinality({t \in Workers : pc[t] = "gone"})
           = pills + (IF pc[Main] = "cleanup_wait" THEN init_cleanup_sem ELSE 0)

\* The two uses of init_cleanup_sem: threads are initialised one at a time before
\* worker_pool_init returns, and worker_pool_cleanup ends one per turn, its local
\* struct work never outliving the turn.  Queues are cleaned up by their owners
\* meanwhile, and nobody uses one that was.
PoolLifecycle == InitSerialized /\ PillScope /\ NoUseAfterCleanup

\* Once worker_pool_cleanup runs, everything submitted is served and it returns.
CleanupCompletes == pc[Main] = "put" ~> pc[Main] = "done"

Finished(w) == reply_to[w] # None /\ InQueue(reply_to[w], w) = 1

\* A submitted work is served, unless urgent works keep overtaking it: "Requests
\* with the highest priority are served first" (workqueue.h) allows just that.
EveryWorkServed ==
  <>[](pri_heap[Requests] = {}) =>
    \A w \in Works : reply_to[w] # None ~> (reply_to[w] = None \/ Finished(w))

(***************************************************************************)
(* The pool as its clients see it: the control points, the semaphores and  *)
(* the pills disappear.                                                    *)
(***************************************************************************)
\* the pill of worker_pool_cleanup, if it is in the list, is behind every work
WithoutPill(s) ==
  IF s # <<>> /\ s[Len(s)] = Pill THEN SubSeq(s, 1, Len(s) - 1) ELSE s

Pool == INSTANCE WorkPool WITH
  fifo     <- WithoutPill(pri0_queue[Requests]),
  urgent   <- pri_heap[Requests],
  serving  <- {cur[t] : t \in Workers} \cap Works,
  finished <- [c \in Clients |-> {pri0_queue[c][i] : i \in DOMAIN pri0_queue[c]} \cup pri_heap[c]],
  owner    <- reply_to

\* Every interleaving of the threads is a behaviour of the abstract pool: the
\* order of service documented at the head of workqueue.h, and one reply, to
\* the right queue, for every request.
ImplementsWorkPool == Pool!Spec

=============================================================================
