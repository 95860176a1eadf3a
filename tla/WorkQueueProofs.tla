-------------------------- MODULE WorkQueueProofs --------------------------
(***************************************************************************)
(* The inductive invariant of WorkQueue and what follows from it, for any  *)
(* number of workers, clients and works.                                   *)
(*                                                                         *)
(* The semaphore of a raw queue counts its works up to the threads caught  *)
(* between the mutex and the semaphore (SemCount).  That the count is kept *)
(* rests on no work being queued twice, and that on a work having one      *)
(* place at a time (Placement), which also keeps reply_to valid while a    *)
(* worker holds the work.                                                  *)
(***************************************************************************)
EXTENDS WorkQueue, FiniteSetTheorems, TLAPS

Elems(s) == {s[i] : i \in DOMAIN s}
Content(r) == Elems(pri0_queue[r]) \cup pri_heap[r]

\* Ordinary works are in the list and urgent ones in the heap, none twice.
QueueShape ==
  \A r \in RawQueues :
    /\ \A i \in DOMAIN pri0_queue[r] : ItemPriority(pri0_queue[r][i]) = 0
    /\ \A i, j \in DOMAIN pri0_queue[r] :
         pri0_queue[r][i] = pri0_queue[r][j] /\ pri0_queue[r][i] \in Works => i = j
    /\ \A w \in pri_heap[r] : ItemPriority(w) # 0

InRequests ==
  \A w \in Works : w \in Content(Requests) =>
    /\ reply_to[w] \in Clients
    /\ \A t \in Workers : cur[t] # w
    /\ \A c \in Clients : w \notin Content(c)

InService ==
  \A t \in Workers : cur[t] \in Works =>
    /\ reply_to[cur[t]] \in Clients
    /\ \A u \in Workers : cur[u] = cur[t] => u = t
    /\ \A c \in Clients : cur[t] \notin Content(c)

InFinished ==
  \A c \in Clients : \A w \in Content(c) : w \in Works /\ reply_to[w] = c

Placement == QueueShape /\ InRequests /\ InService /\ InFinished

\* What a thread's control point says of its locals.
Control ==
  /\ \A t \in Workers : pc[t] \in {"sem_wait", "do_get"} => q[t] = Requests
  /\ \A t \in Workers : pc[t] # "go" => cur[t] = None
  /\ \A c \in Clients : pc[c] \in {"sem_wait", "do_get"} => q[c] = c

IInv == TypeOK /\ Control /\ Placement /\ SemCount

-----------------------------------------------------------------------------
(* Raw queues.                                                             *)

LEMMA ConstantTypes ==
  /\ Workers \cap Clients = {} /\ Main \notin Workers /\ Main \notin Clients
  /\ Requests \in RawQueues /\ Requests \notin Clients
  /\ Pill \notin Works /\ None \notin Works /\ None # Pill /\ None \notin Clients
  /\ \A w \in Items : ItemPriority(w) \in Nat
BY WorkQueueAssumption DEF RawQueues, Items, ItemPriority

\* raw_queue_put adds the work to the content of the queue and to nothing else.
LEMMA InsertContent ==
  ASSUME TypeOK, NEW r \in RawQueues, NEW w \in Items, RawQueueInsert(r, w)
  PROVE  /\ pri0_queue' \in [RawQueues -> Seq(Items)]
         /\ pri_heap' \in [RawQueues -> SUBSET Works]
         /\ Content(r)' = Content(r) \cup {w}
         /\ \A s \in RawQueues \ {r} : Content(s)' = Content(s)
<1>1. pri0_queue[r] \in Seq(Items)
  BY DEF TypeOK
<1>2. CASE ItemPriority(w) = 0
  <2> DEFINE old == pri0_queue[r]
             new == Append(old, w)
  <2>1. /\ new \in Seq(Items)
        /\ DOMAIN new = 1..(Len(old) + 1) /\ DOMAIN old = 1..Len(old) /\ Len(old) \in Nat
        /\ \A i \in 1..Len(old) : new[i] = old[i]
        /\ new[Len(old) + 1] = w
    BY <1>1
  <2>2. Elems(new) = Elems(old) \cup {w}
    <3> HIDE DEF old, new
    <3>1. \A i \in DOMAIN new : i = Len(old) + 1 \/ i \in DOMAIN old
      BY <2>1
    <3>2. Len(old) + 1 \in DOMAIN new /\ DOMAIN old \subseteq DOMAIN new
      BY <2>1
    <3> QED
      BY <2>1, <3>1, <3>2 DEF Elems
  <2>3. /\ pri0_queue' = [pri0_queue EXCEPT ![r] = new] /\ pri_heap' = pri_heap
        /\ pri0_queue'[r] = new
        /\ \A s \in RawQueues \ {r} : pri0_queue'[s] = pri0_queue[s]
    BY <1>2 DEF RawQueueInsert, TypeOK
  <2>4. pri0_queue' \in [RawQueues -> Seq(Items)]
    BY <2>1, <2>3 DEF TypeOK
  <2>5. Content(r)' = Elems(new) \cup pri_heap[r] /\ Content(r) = Elems(old) \cup pri_heap[r]
    BY <2>3 DEF Content, Elems
  <2>6. \A s \in RawQueues \ {r} : Content(s)' = Content(s)
    BY <2>3 DEF Content, Elems
  <2>7. pri_heap' \in [RawQueues -> SUBSET Works]
    BY <2>3 DEF TypeOK
  <2> HIDE DEF old, new
  <2> QED
    BY <2>2, <2>4, <2>5, <2>6, <2>7
<1>3. CASE ItemPriority(w) # 0
  <2>1. w \in Works
    BY <1>3 DEF ItemPriority, Items
  <2>2. /\ pri_heap'[r] = pri_heap[r] \cup {w} /\ pri0_queue' = pri0_queue
        /\ \A s \in RawQueues \ {r} : pri_heap'[s] = pri_heap[s]
        /\ pri_heap' = [pri_heap EXCEPT ![r] = pri_heap[r] \cup {w}]
    BY <1>3 DEF RawQueueInsert, TypeOK
  <2>3. Content(r)' = Elems(pri0_queue[r]) \cup (pri_heap[r] \cup {w})
    BY <2>2 DEF Content, Elems
  <2>4. \A s \in RawQueues \ {r} : Content(s)' = Content(s)
    BY <2>2 DEF Content, Elems
  <2>5. Content(r) = Elems(pri0_queue[r]) \cup pri_heap[r]
    BY DEF Content
  <2>6. pri0_queue' \in [RawQueues -> Seq(Items)]
    BY <2>2 DEF TypeOK
  <2>7. pri_heap[r] \cup {w} \in SUBSET Works
    BY <2>1 DEF TypeOK
  <2>8. pri_heap' \in [RawQueues -> SUBSET Works]
    BY <2>2, <2>7 DEF TypeOK
  <2> QED
    BY <2>3, <2>4, <2>5, <2>6, <2>8
<1> QED
  BY <1>2, <1>3

\* A work that is not in the queue may be put there without spoiling its shape.
LEMMA InsertShape ==
  ASSUME TypeOK, QueueShape, NEW r \in RawQueues, NEW w \in Items,
         RawQueueInsert(r, w), w \in Works => w \notin Content(r)
  PROVE  QueueShape'
<1>1. \A s \in RawQueues : pri0_queue[s] \in Seq(Items)
  BY DEF TypeOK
<1>2. CASE ItemPriority(w) = 0
  <2>1. pri0_queue' = [pri0_queue EXCEPT ![r] = Append(@, w)] /\ pri_heap' = pri_heap
    BY <1>2 DEF RawQueueInsert
  <2>2. \A i \in DOMAIN pri0_queue[r] : w \in Works => pri0_queue[r][i] # w
    BY DEF Content, Elems
  <2>3. ASSUME NEW s \in RawQueues
        PROVE  /\ \A i \in DOMAIN pri0_queue'[s] : ItemPriority(pri0_queue'[s][i]) = 0
               /\ \A i, j \in DOMAIN pri0_queue'[s] :
                    pri0_queue'[s][i] = pri0_queue'[s][j] /\ pri0_queue'[s][i] \in Works => i = j
    <3>1. CASE s # r
      BY <2>1, <3>1 DEF QueueShape, TypeOK
    <3>2. CASE s = r
      <4> DEFINE old == pri0_queue[r]
                 new == Append(old, w)
      <4>1. old \in Seq(Items) /\ pri0_queue'[s] = new
        BY <1>1, <2>1, <3>2 DEF TypeOK
      <4>2. /\ DOMAIN new = 1..(Len(old) + 1) /\ DOMAIN old = 1..Len(old) /\ Len(old) \in Nat
            /\ \A i \in 1..Len(old) : new[i] = old[i]
            /\ new[Len(old) + 1] = w
        BY <4>1
      <4>3. /\ \A i \in DOMAIN old : ItemPriority(old[i]) = 0
            /\ \A i, j \in DOMAIN old : old[i] = old[j] /\ old[i] \in Works => i = j
        BY DEF QueueShape
      <4> HIDE DEF old, new
      <4>4. \A i \in DOMAIN new : i = Len(old) + 1 \/ i \in DOMAIN old
        BY <4>2
      <4>5. \A i \in DOMAIN old : w \in Works => old[i] # w
        BY <2>2 DEF old
      <4> QED
        BY <1>2, <4>1, <4>2, <4>3, <4>4, <4>5
    <3> QED
      BY <3>1, <3>2
  <2> QED
    BY <2>1, <2>3 DEF QueueShape
<1>3. CASE ItemPriority(w) # 0
  <2>1. /\ pri0_queue' = pri0_queue /\ pri_heap'[r] = pri_heap[r] \cup {w}
        /\ \A s \in RawQueues \ {r} : pri_heap'[s] = pri_heap[s]
    BY <1>3 DEF RawQueueInsert, TypeOK
  <2>2. \A s \in RawQueues : \A v \in pri_heap'[s] : ItemPriority(v) # 0
    BY <1>3, <2>1 DEF QueueShape
  <2> QED
    BY <2>1, <2>2 DEF QueueShape
<1> QED
  BY <1>2, <1>3

\* raw_queue_put adds one to the number of queued works.
LEMMA InsertCount ==
  ASSUME TypeOK, NEW r \in RawQueues, NEW w \in Items,
         RawQueueInsert(r, w), w \in Works => w \notin Content(r)
  PROVE  /\ Len(pri0_queue'[r]) + Cardinality(pri_heap'[r])
              = Len(pri0_queue[r]) + Cardinality(pri_heap[r]) + 1
         /\ Len(pri0_queue'[r]) \in Nat /\ Cardinality(pri_heap'[r]) \in Nat
         /\ \A s \in RawQueues \ {r} : pri0_queue'[s] = pri0_queue[s] /\ pri_heap'[s] = pri_heap[s]
<1>0. /\ pri0_queue[r] \in Seq(Items) /\ pri_heap[r] \in SUBSET Works
      /\ IsFiniteSet(pri_heap[r])
  BY FS_Subset, WorkQueueAssumption DEF TypeOK
<1>1. Cardinality(pri_heap[r]) \in Nat
  BY <1>0, FS_CardinalityType
<1>2. CASE ItemPriority(w) = 0
  <2>1. /\ pri0_queue'[r] = Append(pri0_queue[r], w) /\ pri_heap' = pri_heap
        /\ \A s \in RawQueues \ {r} : pri0_queue'[s] = pri0_queue[s]
    BY <1>2 DEF RawQueueInsert, TypeOK
  <2>2. Len(pri0_queue'[r]) = Len(pri0_queue[r]) + 1 /\ Len(pri0_queue[r]) \in Nat
    BY <1>0, <2>1
  <2>3. pri_heap'[r] = pri_heap[r]
    BY <2>1
  <2> QED
    BY <1>1, <2>1, <2>2, <2>3
<1>3. CASE ItemPriority(w) # 0
  <2>1. w \in Works /\ w \notin pri_heap[r]
    BY <1>3 DEF ItemPriority, Items, Content
  <2>2. Cardinality(pri_heap[r] \cup {w}) = Cardinality(pri_heap[r]) + 1
    BY <1>0, <2>1, FS_AddElement
  <2>3. pri_heap'[r] = pri_heap[r] \cup {w} /\ pri0_queue' = pri0_queue
    BY <1>3 DEF RawQueueInsert, TypeOK
  <2>4. \A s \in RawQueues \ {r} : pri_heap'[s] = pri_heap[s]
    BY <1>3 DEF RawQueueInsert, TypeOK
  <2> QED
    BY <1>0, <1>1, <2>2, <2>3, <2>4
<1> QED
  BY <1>2, <1>3

\* raw_queue_do_get returns a work of the queue and takes it out.
LEMMA GetContent ==
  ASSUME TypeOK, QueueShape, NEW r \in RawQueues, NEW w, RawQueueDoGet(r, w)
  PROVE  /\ pri0_queue' \in [RawQueues -> Seq(Items)]
         /\ pri_heap' \in [RawQueues -> SUBSET Works]
         /\ w \in Content(r) /\ w \in Items
         /\ Content(r)' \subseteq Content(r)
         /\ w \in Works => w \notin Content(r)'
         /\ \A s \in RawQueues \ {r} : Content(s)' = Content(s)
         /\ QueueShape'
<1>1. pri0_queue[r] \in Seq(Items)
  BY DEF TypeOK
<1>2. CASE pri_heap[r] = {}
  <2> DEFINE old == pri0_queue[r]
  <2>1. /\ old # <<>> /\ w = old[1] /\ pri_heap' = pri_heap
        /\ pri0_queue' = [pri0_queue EXCEPT ![r] = Tail(@)]
    BY <1>1, <1>2 DEF RawQueueDoGet
  <2>2. /\ Tail(old) \in Seq(Items) /\ Len(old) \in Nat /\ Len(old) > 0
        /\ DOMAIN old = 1..Len(old) /\ DOMAIN Tail(old) = 1..(Len(old) - 1)
        /\ \A i \in 1..(Len(old) - 1) : Tail(old)[i] = old[i + 1]
        /\ old[1] \in Items
    BY <1>1, <2>1
  <2>3. \A i \in DOMAIN Tail(old) : i + 1 \in DOMAIN old /\ Tail(old)[i] = old[i + 1] /\ i + 1 # 1
    BY <2>2
  <2>4. /\ pri0_queue' \in [RawQueues -> Seq(Items)]
        /\ pri0_queue'[r] = Tail(old)
        /\ \A s \in RawQueues \ {r} : pri0_queue'[s] = pri0_queue[s]
    BY <2>1, <2>2 DEF TypeOK
  <2>5. /\ \A i \in DOMAIN old : ItemPriority(old[i]) = 0
        /\ \A i, j \in DOMAIN old : old[i] = old[j] /\ old[i] \in Works => i = j
    BY DEF QueueShape
  <2>6. 1 \in DOMAIN old
    BY <2>2
  <2>7. w \in Works => \A i \in DOMAIN Tail(old) : Tail(old)[i] # w
    BY <2>1, <2>3, <2>5, <2>6
  <2>8. /\ \A i \in DOMAIN Tail(old) : ItemPriority(Tail(old)[i]) = 0
        /\ \A i, j \in DOMAIN Tail(old) :
             Tail(old)[i] = Tail(old)[j] /\ Tail(old)[i] \in Works => i = j
    <3>1. \A i \in DOMAIN Tail(old) : i \in Int
      BY <2>2
    <3> QED
      BY <2>3, <2>5, <3>1
  <2>9. QueueShape'
    BY <2>1, <2>4, <2>8 DEF QueueShape
  <2>10. w \in Elems(old) /\ Elems(Tail(old)) \subseteq Elems(old)
    BY <2>1, <2>3, <2>6 DEF Elems
  <2>11. Content(r)' = Elems(Tail(old)) /\ Content(r) = Elems(old)
    BY <1>2, <2>1, <2>4 DEF Content, Elems
  <2>12. w \in Works => w \notin Elems(Tail(old))
    BY <2>7 DEF Elems
  <2>13. \A s \in RawQueues \ {r} : Content(s)' = Content(s)
    BY <2>1, <2>4 DEF Content, Elems
  <2> HIDE DEF old
  <2> QED
    BY <2>1, <2>2, <2>4, <2>9, <2>10, <2>11, <2>12, <2>13 DEF TypeOK
<1>3. CASE pri_heap[r] # {}
  <2>1. /\ w \in pri_heap[r] /\ pri_heap' = [pri_heap EXCEPT ![r] = @ \ {w}]
        /\ pri0_queue' = pri0_queue
    BY <1>3 DEF RawQueueDoGet, HeapTop
  <2>2. /\ pri_heap'[r] = pri_heap[r] \ {w}
        /\ \A s \in RawQueues \ {r} : pri_heap'[s] = pri_heap[s]
        /\ pri_heap' \in [RawQueues -> SUBSET Works]
    BY <2>1 DEF TypeOK
  <2>3. w \in Works /\ w \notin Elems(pri0_queue[r])
    BY <2>1 DEF TypeOK, QueueShape, Elems
  <2> QED
    BY <2>1, <2>2, <2>3 DEF Content, Elems, QueueShape, TypeOK, Items
<1> QED
  BY <1>2, <1>3

\* ... and takes one from the number of queued works.
LEMMA GetCount ==
  ASSUME TypeOK, NEW r \in RawQueues, NEW w, RawQueueDoGet(r, w)
  PROVE  /\ Len(pri0_queue'[r]) + Cardinality(pri_heap'[r])
              = Len(pri0_queue[r]) + Cardinality(pri_heap[r]) - 1
         /\ Len(pri0_queue'[r]) \in Nat /\ Cardinality(pri_heap'[r]) \in Nat
         /\ \A s \in RawQueues \ {r} : pri0_queue'[s] = pri0_queue[s] /\ pri_heap'[s] = pri_heap[s]
<1>0. /\ pri0_queue[r] \in Seq(Items) /\ pri_heap[r] \in SUBSET Works
      /\ IsFiniteSet(pri_heap[r])
  BY FS_Subset, WorkQueueAssumption DEF TypeOK
<1>1. Cardinality(pri_heap[r]) \in Nat
  BY <1>0, FS_CardinalityType
<1>2. CASE pri_heap[r] = {}
  <2>1. /\ pri0_queue[r] # <<>> /\ pri_heap' = pri_heap
        /\ pri0_queue'[r] = Tail(pri0_queue[r])
        /\ \A s \in RawQueues \ {r} : pri0_queue'[s] = pri0_queue[s]
    BY <1>2 DEF RawQueueDoGet, TypeOK
  <2>2. Len(Tail(pri0_queue[r])) = Len(pri0_queue[r]) - 1 /\ Len(pri0_queue[r]) \in Nat
    BY <1>0, <2>1
  <2> QED
    BY <1>1, <2>1, <2>2
<1>3. CASE pri_heap[r] # {}
  <2>1. /\ w \in pri_heap[r] /\ pri_heap'[r] = pri_heap[r] \ {w}
        /\ pri0_queue' = pri0_queue
        /\ \A s \in RawQueues \ {r} : pri_heap'[s] = pri_heap[s]
    BY <1>3 DEF RawQueueDoGet, HeapTop, TypeOK
  <2>2. Cardinality(pri_heap[r] \ {w}) = Cardinality(pri_heap[r]) - 1
    BY <1>0, <2>1, FS_RemoveElement
  <2>3. Len(pri0_queue[r]) \in Nat
    BY <1>0
  <2>4. Cardinality(pri_heap'[r]) = Cardinality(pri_heap[r]) - 1 /\ Cardinality(pri_heap'[r]) \in Nat
    BY <1>0, <2>1, <2>2, FS_CardinalityType, FS_RemoveElement
  <2> QED
    BY <1>1, <2>1, <2>3, <2>4
<1> QED
  BY <1>2, <1>3

-----------------------------------------------------------------------------
(* Threads between the mutex and the semaphore.                            *)

\* The balance of one raw queue.
Balance(r) ==
  queue_sem[r] + Cardinality(Getters(r)) + Cardinality(Posters(r))
    = Len(pri0_queue[r]) + Cardinality(pri_heap[r])

LEMMA ThreadsFinite ==
  ASSUME NEW r
  PROVE  /\ IsFiniteSet(Getters(r)) /\ Cardinality(Getters(r)) \in Nat
         /\ IsFiniteSet(Posters(r)) /\ Cardinality(Posters(r)) \in Nat
<1>1. IsFiniteSet(Threads)
  <2>1. IsFiniteSet({Main})
    BY FS_Singleton
  <2>2. IsFiniteSet(Workers \cup Clients)
    BY FS_Union, WorkQueueAssumption
  <2> QED
    BY <2>1, <2>2, FS_Union DEF Threads
<1>2. IsFiniteSet(Getters(r)) /\ IsFiniteSet(Posters(r))
  BY <1>1, FS_Subset DEF Getters, Posters
<1> QED
  BY <1>2, FS_CardinalityType

LEMMA QueuedNat ==
  ASSUME TypeOK, NEW r \in RawQueues
  PROVE  /\ queue_sem[r] \in Nat /\ Len(pri0_queue[r]) \in Nat
         /\ IsFiniteSet(pri_heap[r]) /\ Cardinality(pri_heap[r]) \in Nat
<1>1. pri0_queue[r] \in Seq(Items) /\ pri_heap[r] \in SUBSET Works /\ queue_sem[r] \in Nat
  BY DEF TypeOK
<1>2. IsFiniteSet(pri_heap[r])
  BY <1>1, FS_Subset, WorkQueueAssumption
<1> QED
  BY <1>1, <1>2, FS_CardinalityType

\* Steps that move no thread in or out of the two gaps.
LEMMA StepElsewhere ==
  ASSUME TypeOK, SemCount, UNCHANGED <<pri0_queue, pri_heap, queue_sem>>,
         \A u \in Threads : pc'[u] # pc[u] =>
           {pc[u], pc'[u]} \cap {"do_get", "post"} = {},
         \A u \in Threads : pc[u] \in {"do_get", "post"} => q'[u] = q[u]
  PROVE  SemCount'
<1>1. \A r \in RawQueues : Getters(r)' = Getters(r) /\ Posters(r)' = Posters(r)
  BY DEF Getters, Posters
<1> QED
  BY <1>1 DEF SemCount

\* sem_wait: the semaphore falls by one and the thread is about to dequeue.
LEMMA StepSemWait ==
  ASSUME TypeOK, SemCount, NEW t \in Threads, NEW r \in RawQueues,
         pc[t] \notin {"do_get", "post"}, RawQueueSemWait(r), Goto(t, "do_get"),
         q'[t] = r, \A u \in Threads \ {t} : q'[u] = q[u], UNCHANGED <<pri0_queue, pri_heap>>
  PROVE  SemCount' /\ queue_sem' \in [RawQueues -> Nat]
<1>0. /\ queue_sem[r] \in Nat /\ queue_sem[r] > 0 /\ queue_sem'[r] = queue_sem[r] - 1
      /\ \A s \in RawQueues \ {r} : queue_sem'[s] = queue_sem[s]
      /\ queue_sem' \in [RawQueues -> Nat]
  BY DEF RawQueueSemWait, TypeOK
<1>1. pc'[t] = "do_get" /\ \A u \in Threads \ {t} : pc'[u] = pc[u]
  BY DEF Goto, TypeOK
<1>2. t \notin Getters(r) /\ Getters(r)' = Getters(r) \cup {t}
  BY <1>1 DEF Getters
<1>3. \A s \in RawQueues \ {r} : Getters(s)' = Getters(s)
  BY <1>1 DEF Getters
<1>4. \A s \in RawQueues : Posters(s)' = Posters(s)
  BY <1>1 DEF Posters
<1>5. Cardinality(Getters(r)') = Cardinality(Getters(r)) + 1
  BY <1>2, ThreadsFinite, FS_AddElement
<1>8. /\ Cardinality(Getters(r)) \in Nat /\ Cardinality(Posters(r)) \in Nat
      /\ queue_sem[r] \in Nat /\ Len(pri0_queue[r]) \in Nat /\ Cardinality(pri_heap[r]) \in Nat
  BY ThreadsFinite, QueuedNat
<1>9. queue_sem[r] + Cardinality(Getters(r)) + Cardinality(Posters(r))
        = Len(pri0_queue[r]) + Cardinality(pri_heap[r])
  BY DEF SemCount
<1>12. Cardinality(Posters(r)') = Cardinality(Posters(r))
  BY <1>4
<1>13. pri0_queue'[r] = pri0_queue[r] /\ pri_heap'[r] = pri_heap[r]
  OBVIOUS
<1>14. queue_sem'[r] = queue_sem[r] - 1
  BY <1>0
<1>15. (queue_sem[r] - 1) + (Cardinality(Getters(r)) + 1) + Cardinality(Posters(r))
         = Len(pri0_queue[r]) + Cardinality(pri_heap[r])
  <2> DEFINE S == queue_sem[r]
             G == Cardinality(Getters(r))
             P == Cardinality(Posters(r))
             N == Len(pri0_queue[r])
             H == Cardinality(pri_heap[r])
  <2>1. S \in Nat /\ G \in Nat /\ P \in Nat /\ N \in Nat /\ H \in Nat /\ S + G + P = N + H
    BY <1>8, <1>9
  <2> HIDE DEF S, G, P, N, H
  <2>2. (S - 1) + (G + 1) + P = N + H
    BY <2>1
  <2> QED
    BY <2>2 DEF S, G, P, N, H
<1>16. queue_sem'[r] + Cardinality(Getters(r)') + Cardinality(Posters(r)')
         = Len(pri0_queue[r]) + Cardinality(pri_heap[r])
  BY <1>5, <1>12, <1>14, <1>15
<1>11. queue_sem'[r] + Cardinality(Getters(r)') + Cardinality(Posters(r)')
         = Len(pri0_queue'[r]) + Cardinality(pri_heap'[r])
  BY <1>13, <1>16
<1>6. Balance(r)'
  BY <1>11 DEF Balance
<1>7. \A s \in RawQueues \ {r} : Balance(s)'
  BY <1>0, <1>3, <1>4 DEF Balance, SemCount
<1> QED
  BY <1>0, <1>6, <1>7 DEF Balance, SemCount

\* raw_queue_do_get: the thread leaves the gap with a work.
LEMMA StepDoGet ==
  ASSUME TypeOK, SemCount, NEW t \in Threads, NEW r \in RawQueues, NEW w, NEW l,
         pc[t] = "do_get", q[t] = r, l \notin {"do_get", "post"},
         RawQueueDoGet(r, w), Goto(t, l), UNCHANGED <<q, queue_sem>>
  PROVE  SemCount'
<1>1. pc'[t] = l /\ \A u \in Threads \ {t} : pc'[u] = pc[u]
  BY DEF Goto, TypeOK
<1>2. t \in Getters(r) /\ Getters(r)' = Getters(r) \ {t}
  BY <1>1 DEF Getters
<1>3. \A s \in RawQueues \ {r} : Getters(s)' = Getters(s)
  BY <1>1 DEF Getters
<1>4. \A s \in RawQueues : Posters(s)' = Posters(s)
  BY <1>1 DEF Posters
<1>5. Cardinality(Getters(r)') = Cardinality(Getters(r)) - 1
  BY <1>2, ThreadsFinite, FS_RemoveElement
<1>8. /\ Cardinality(Getters(r)) \in Nat /\ Cardinality(Posters(r)) \in Nat
      /\ queue_sem[r] \in Nat /\ Len(pri0_queue[r]) \in Nat /\ Cardinality(pri_heap[r]) \in Nat
  BY ThreadsFinite, QueuedNat
<1>9. queue_sem[r] + Cardinality(Getters(r)) + Cardinality(Posters(r))
        = Len(pri0_queue[r]) + Cardinality(pri_heap[r])
  BY DEF SemCount
<1>10. /\ Len(pri0_queue'[r]) + Cardinality(pri_heap'[r])
             = Len(pri0_queue[r]) + Cardinality(pri_heap[r]) - 1
       /\ Len(pri0_queue'[r]) \in Nat /\ Cardinality(pri_heap'[r]) \in Nat
  BY GetCount
<1>12. Cardinality(Posters(r)') = Cardinality(Posters(r))
  BY <1>4
<1>15. queue_sem[r] + (Cardinality(Getters(r)) - 1) + Cardinality(Posters(r))
         = Len(pri0_queue[r]) + Cardinality(pri_heap[r]) - 1
  <2> DEFINE S == queue_sem[r]
             G == Cardinality(Getters(r))
             P == Cardinality(Posters(r))
             N == Len(pri0_queue[r])
             H == Cardinality(pri_heap[r])
  <2>1. S \in Nat /\ G \in Nat /\ P \in Nat /\ N \in Nat /\ H \in Nat /\ S + G + P = N + H
    BY <1>8, <1>9
  <2> HIDE DEF S, G, P, N, H
  <2>2. S + (G - 1) + P = N + H - 1
    BY <2>1
  <2> QED
    BY <2>2 DEF S, G, P, N, H
<1>16. queue_sem'[r] + Cardinality(Getters(r)') + Cardinality(Posters(r)')
         = Len(pri0_queue[r]) + Cardinality(pri_heap[r]) - 1
  BY <1>5, <1>12, <1>15
<1>11. queue_sem'[r] + Cardinality(Getters(r)') + Cardinality(Posters(r)')
         = Len(pri0_queue'[r]) + Cardinality(pri_heap'[r])
  BY <1>10, <1>16
<1>6. Balance(r)'
  BY <1>11 DEF Balance
<1>7. \A s \in RawQueues \ {r} : Balance(s)'
  BY <1>3, <1>4, GetCount DEF Balance, SemCount
<1> QED
  BY <1>6, <1>7 DEF Balance, SemCount

\* raw_queue_put up to the unlock: the thread enters the gap before sem_post.
LEMMA StepInsert ==
  ASSUME TypeOK, SemCount, NEW t \in Threads, NEW r \in RawQueues, NEW w \in Items,
         pc[t] \notin {"do_get", "post"}, RawQueueInsert(r, w), w \in Works => w \notin Content(r),
         Goto(t, "post"), q'[t] = r, \A u \in Threads \ {t} : q'[u] = q[u], UNCHANGED queue_sem
  PROVE  SemCount'
<1>1. pc'[t] = "post" /\ \A u \in Threads \ {t} : pc'[u] = pc[u]
  BY DEF Goto, TypeOK
<1>2. t \notin Posters(r) /\ Posters(r)' = Posters(r) \cup {t}
  BY <1>1 DEF Posters
<1>3. \A s \in RawQueues \ {r} : Posters(s)' = Posters(s)
  BY <1>1 DEF Posters
<1>4. \A s \in RawQueues : Getters(s)' = Getters(s)
  BY <1>1 DEF Getters
<1>5. Cardinality(Posters(r)') = Cardinality(Posters(r)) + 1
  BY <1>2, ThreadsFinite, FS_AddElement
<1>8. /\ Cardinality(Getters(r)) \in Nat /\ Cardinality(Posters(r)) \in Nat
      /\ queue_sem[r] \in Nat /\ Len(pri0_queue[r]) \in Nat /\ Cardinality(pri_heap[r]) \in Nat
  BY ThreadsFinite, QueuedNat
<1>9. queue_sem[r] + Cardinality(Getters(r)) + Cardinality(Posters(r))
        = Len(pri0_queue[r]) + Cardinality(pri_heap[r])
  BY DEF SemCount
<1>10. /\ Len(pri0_queue'[r]) + Cardinality(pri_heap'[r])
             = Len(pri0_queue[r]) + Cardinality(pri_heap[r]) + 1
       /\ Len(pri0_queue'[r]) \in Nat /\ Cardinality(pri_heap'[r]) \in Nat
  BY InsertCount
<1>12. Cardinality(Getters(r)') = Cardinality(Getters(r))
  BY <1>4
<1>15. queue_sem[r] + Cardinality(Getters(r)) + (Cardinality(Posters(r)) + 1)
         = Len(pri0_queue[r]) + Cardinality(pri_heap[r]) + 1
  <2> DEFINE S == queue_sem[r]
             G == Cardinality(Getters(r))
             P == Cardinality(Posters(r))
             N == Len(pri0_queue[r])
             H == Cardinality(pri_heap[r])
  <2>1. S \in Nat /\ G \in Nat /\ P \in Nat /\ N \in Nat /\ H \in Nat /\ S + G + P = N + H
    BY <1>8, <1>9
  <2> HIDE DEF S, G, P, N, H
  <2>2. S + G + (P + 1) = N + H + 1
    BY <2>1
  <2> QED
    BY <2>2 DEF S, G, P, N, H
<1>16. queue_sem'[r] + Cardinality(Getters(r)') + Cardinality(Posters(r)')
         = Len(pri0_queue[r]) + Cardinality(pri_heap[r]) + 1
  BY <1>5, <1>12, <1>15
<1>11. queue_sem'[r] + Cardinality(Getters(r)') + Cardinality(Posters(r)')
         = Len(pri0_queue'[r]) + Cardinality(pri_heap'[r])
  BY <1>10, <1>16
<1>6. Balance(r)'
  BY <1>11 DEF Balance
<1>7. \A s \in RawQueues \ {r} : Balance(s)'
  BY <1>3, <1>4, InsertCount DEF Balance, SemCount
<1> QED
  BY <1>6, <1>7 DEF Balance, SemCount

\* The sem_post that ends raw_queue_put.
LEMMA StepPost ==
  ASSUME TypeOK, SemCount, NEW t \in Threads, NEW r \in RawQueues, NEW l,
         pc[t] = "post", q[t] = r, l \notin {"do_get", "post"}, RawQueuePost(t), Goto(t, l),
         \A u \in Threads \ {t} : q'[u] = q[u], UNCHANGED <<pri0_queue, pri_heap>>
  PROVE  SemCount' /\ queue_sem' \in [RawQueues -> Nat]
<1>0. /\ queue_sem[r] \in Nat /\ queue_sem'[r] = queue_sem[r] + 1
      /\ \A s \in RawQueues \ {r} : queue_sem'[s] = queue_sem[s]
      /\ queue_sem' \in [RawQueues -> Nat]
  BY DEF RawQueuePost, TypeOK
<1>1. pc'[t] = l /\ \A u \in Threads \ {t} : pc'[u] = pc[u]
  BY DEF Goto, TypeOK
<1>2. t \in Posters(r) /\ Posters(r)' = Posters(r) \ {t}
  BY <1>1 DEF Posters
<1>3. \A s \in RawQueues \ {r} : Posters(s)' = Posters(s)
  BY <1>1 DEF Posters
<1>4. \A s \in RawQueues : Getters(s)' = Getters(s)
  BY <1>1 DEF Getters
<1>5. Cardinality(Posters(r)') = Cardinality(Posters(r)) - 1
  BY <1>2, ThreadsFinite, FS_RemoveElement
<1>8. /\ Cardinality(Getters(r)) \in Nat /\ Cardinality(Posters(r)) \in Nat
      /\ queue_sem[r] \in Nat /\ Len(pri0_queue[r]) \in Nat /\ Cardinality(pri_heap[r]) \in Nat
  BY ThreadsFinite, QueuedNat
<1>9. queue_sem[r] + Cardinality(Getters(r)) + Cardinality(Posters(r))
        = Len(pri0_queue[r]) + Cardinality(pri_heap[r])
  BY DEF SemCount
<1>12. Cardinality(Getters(r)') = Cardinality(Getters(r))
  BY <1>4
<1>13. pri0_queue'[r] = pri0_queue[r] /\ pri_heap'[r] = pri_heap[r]
  OBVIOUS
<1>14. queue_sem'[r] = queue_sem[r] + 1
  BY <1>0
<1>15. (queue_sem[r] + 1) + Cardinality(Getters(r)) + (Cardinality(Posters(r)) - 1)
         = Len(pri0_queue[r]) + Cardinality(pri_heap[r])
  <2> DEFINE S == queue_sem[r]
             G == Cardinality(Getters(r))
             P == Cardinality(Posters(r))
             N == Len(pri0_queue[r])
             H == Cardinality(pri_heap[r])
  <2>1. S \in Nat /\ G \in Nat /\ P \in Nat /\ N \in Nat /\ H \in Nat /\ S + G + P = N + H
    BY <1>8, <1>9
  <2> HIDE DEF S, G, P, N, H
  <2>2. (S + 1) + G + (P - 1) = N + H
    BY <2>1
  <2> QED
    BY <2>2 DEF S, G, P, N, H
<1>16. queue_sem'[r] + Cardinality(Getters(r)') + Cardinality(Posters(r)')
         = Len(pri0_queue[r]) + Cardinality(pri_heap[r])
  BY <1>5, <1>12, <1>14, <1>15
<1>11. queue_sem'[r] + Cardinality(Getters(r)') + Cardinality(Posters(r)')
         = Len(pri0_queue'[r]) + Cardinality(pri_heap'[r])
  BY <1>13, <1>16
<1>6. Balance(r)'
  BY <1>11 DEF Balance
<1>7. \A s \in RawQueues \ {r} : Balance(s)'
  BY <1>0, <1>3, <1>4 DEF Balance, SemCount
<1> QED
  BY <1>0, <1>6, <1>7 DEF Balance, SemCount

-----------------------------------------------------------------------------
(* The invariant.                                                          *)

LEMMA InitInvariant == Init => IInv
<1> SUFFICES ASSUME Init PROVE IInv
  OBVIOUS
<1> USE ConstantTypes
<1>1. TypeOK
  BY DEF Init, TypeOK, Threads, WorkerPc, ClientPc, MainPc, RawQueues
<1>2. Control
  BY DEF Init, Control, Threads
<1>3. \A r \in RawQueues : Content(r) = {}
  BY DEF Init, Content, Elems
<1>4. QueueShape
  BY DEF Init, QueueShape
<1>5. Placement
  BY <1>3, <1>4 DEF Init, Placement, InRequests, InService, InFinished, RawQueues
<1>6. SemCount
  <2> SUFFICES ASSUME NEW r \in RawQueues PROVE Balance(r)
    BY DEF SemCount, Balance
  <2>1. Getters(r) = {} /\ Posters(r) = {}
    BY DEF Init, Getters, Posters, Threads
  <2>2. queue_sem[r] = 0 /\ pri0_queue[r] = <<>> /\ pri_heap[r] = {}
    BY DEF Init
  <2> QED
    BY <2>1, <2>2, FS_EmptySet DEF Balance
<1> QED
  BY <1>1, <1>2, <1>5, <1>6 DEF IInv

\* Placement survives a step that moves no work.
LEMMA PlacementFrame ==
  ASSUME Placement, UNCHANGED <<pri0_queue, pri_heap, reply_to>>,
         \A t \in Workers : cur'[t] = cur[t] \/ cur'[t] \notin Works
  PROVE  Placement'
<1>1. \A r \in RawQueues : Content(r)' = Content(r)
  BY DEF Content, Elems
<1> QED
  BY <1>1, ConstantTypes DEF Placement, QueueShape, InRequests, InService, InFinished, RawQueues

\* A worker's steps.
LEMMA WorkerInvariant ==
  ASSUME IInv, NEW t \in Workers, WorkerStep(t)
  PROVE  IInv'
<1> USE ConstantTypes
<1>0. t \in Threads /\ t \notin Clients /\ t # Main /\ TypeOK /\ Control /\ Placement /\ SemCount
  BY DEF IInv, Threads
<1>1. CASE WorkerInit(t)
  <2>1. TypeOK'
    BY <1>0, <1>1 DEF WorkerInit, Goto, TypeOK, WorkerPc, queueVars
  <2>2. Control'
    BY <1>0, <1>1 DEF WorkerInit, Goto, TypeOK, Control, queueVars, Threads
  <2>3. Placement'
    BY <1>0, <1>1, PlacementFrame DEF WorkerInit, queueVars
  <2>4. SemCount'
    <3>1. pc[t] = "init" /\ pc'[t] = "sem_wait" /\ \A u \in Threads \ {t} : pc'[u] = pc[u] /\ q'[u] = q[u]
      BY <1>0, <1>1 DEF WorkerInit, Goto, TypeOK
    <3> QED
      BY <1>0, <1>1, <3>1, StepElsewhere DEF WorkerInit, queueVars
  <2> QED
    BY <2>1, <2>2, <2>3, <2>4 DEF IInv
<1>2. CASE WorkerSemWait(t)
  <2>1. /\ pc[t] = "sem_wait" /\ q[t] = Requests /\ RawQueueSemWait(Requests) /\ Goto(t, "do_get")
        /\ UNCHANGED <<pri0_queue, pri_heap, alive, nr_running, reply_to, init_cleanup_sem, q, cur, pills>>
    BY <1>0, <1>2 DEF WorkerSemWait, queueVars, Control
  <2>2. SemCount' /\ queue_sem' \in [RawQueues -> Nat]
    BY <1>0, <2>1, StepSemWait
  <2>3. TypeOK'
    BY <1>0, <2>1, <2>2 DEF Goto, TypeOK, WorkerPc
  <2>4. Control'
    BY <1>0, <2>1 DEF Goto, TypeOK, Control, Threads
  <2>5. Placement'
    BY <1>0, <2>1, PlacementFrame
  <2> QED
    BY <2>2, <2>3, <2>4, <2>5 DEF IInv
<1>3. CASE WorkerDoGet(t)
  <2> PICK w \in Items : RawQueueDoGet(Requests, w) /\ cur' = [cur EXCEPT ![t] = w]
    BY <1>3 DEF WorkerDoGet
  <2>1. /\ pc[t] = "do_get" /\ q[t] = Requests /\ Goto(t, "go") /\ cur[t] = None
        /\ UNCHANGED <<queue_sem, alive, nr_running, reply_to, init_cleanup_sem, q, pills>>
    BY <1>0, <1>3 DEF WorkerDoGet, Control
  <2>2. /\ pri0_queue' \in [RawQueues -> Seq(Items)]
        /\ pri_heap' \in [RawQueues -> SUBSET Works]
        /\ w \in Content(Requests)
        /\ Content(Requests)' \subseteq Content(Requests)
        /\ w \in Works => w \notin Content(Requests)'
        /\ \A s \in RawQueues \ {Requests} : Content(s)' = Content(s)
        /\ QueueShape'
    BY <1>0, GetContent DEF Placement
  <2>3. SemCount'
    BY <1>0, <2>1, StepDoGet
  <2>4. TypeOK'
    BY <1>0, <2>1, <2>2 DEF Goto, TypeOK, WorkerPc
  <2>5. Control'
    BY <1>0, <2>1 DEF Goto, TypeOK, Control, Threads
  <2>6. \A c \in Clients : Content(c)' = Content(c)
    BY <2>2 DEF RawQueues
  <2>7. cur'[t] = w /\ \A u \in Workers \ {t} : cur'[u] = cur[u]
    BY <1>0 DEF TypeOK
  <2>8. InRequests'
    <3> SUFFICES ASSUME NEW v \in Works, v \in Content(Requests)'
                 PROVE  /\ reply_to'[v] \in Clients /\ \A u \in Workers : cur'[u] # v
                        /\ \A c \in Clients : v \notin Content(c)'
      BY DEF InRequests
    <3>1. v # w /\ v \in Content(Requests)
      BY <2>2
    <3> QED
      BY <1>0, <2>1, <2>6, <2>7, <3>1 DEF Placement, InRequests
  <2>9. InService'
    <3> SUFFICES ASSUME NEW u \in Workers, cur'[u] \in Works
                 PROVE  /\ reply_to'[cur'[u]] \in Clients
                        /\ \A v \in Workers : cur'[v] = cur'[u] => v = u
                        /\ \A c \in Clients : cur'[u] \notin Content(c)'
      BY DEF InService
    <3>1. CASE u = t
      BY <1>0, <2>1, <2>2, <2>6, <2>7, <3>1 DEF Placement, InRequests
    <3>2. CASE u # t
      <4>1. cur'[u] = cur[u] /\ cur[u] \in Works
        BY <2>7, <3>2
      <4>2. cur[u] # w
        BY <1>0, <2>2, <4>1 DEF Placement, InRequests
      <4> QED
        BY <1>0, <2>1, <2>6, <2>7, <4>1, <4>2 DEF Placement, InService
    <3> QED
      BY <3>1, <3>2
  <2>10. InFinished'
    BY <1>0, <2>1, <2>6 DEF Placement, InFinished
  <2> QED
    BY <2>2, <2>3, <2>4, <2>5, <2>8, <2>9, <2>10 DEF IInv, Placement
<1>4. CASE WorkerReply(t)
  <2> DEFINE w == cur[t]
             r == reply_to[w]
  <2>1. /\ pc[t] = "go" /\ w \in Works /\ r \in Clients /\ r \in RawQueues
        /\ \A c \in Clients : w \notin Content(c)
    BY <1>0, <1>4 DEF WorkerReply, Placement, InService, RawQueues
  <2>2. PICK v, s : v = w /\ s = r
    OBVIOUS
  <2>3. /\ RawQueueInsert(s, v) /\ Goto(t, "post") /\ q' = [q EXCEPT ![t] = s]
        /\ cur' = [cur EXCEPT ![t] = None] /\ s \in Clients /\ v \in Works /\ s \in RawQueues
        /\ UNCHANGED <<queue_sem, alive, nr_running, reply_to, init_cleanup_sem, pills>>
        /\ v \in Items /\ v \notin Content(s) /\ cur[t] = v /\ reply_to[v] = s
    BY <1>4, <2>1, <2>2 DEF WorkerReply, Items
  <2>4. /\ pri0_queue' \in [RawQueues -> Seq(Items)]
        /\ pri_heap' \in [RawQueues -> SUBSET Works]
        /\ Content(s)' = Content(s) \cup {v}
        /\ \A x \in RawQueues \ {s} : Content(x)' = Content(x)
    BY <1>0, <2>3, InsertContent
  <2>5. QueueShape'
    BY <1>0, <2>3, InsertShape DEF Placement
  <2>6. q'[t] = s /\ \A u \in Threads \ {t} : q'[u] = q[u]
    BY <1>0, <2>3 DEF TypeOK
  <2>7. SemCount'
    BY <1>0, <2>1, <2>3, <2>6, StepInsert
  <2>8. TypeOK'
    BY <1>0, <2>3, <2>4 DEF Goto, TypeOK, WorkerPc
  <2>9. Control'
    BY <1>0, <2>3 DEF Goto, TypeOK, Control, Threads
  <2>10. cur'[t] = None /\ \A u \in Workers \ {t} : cur'[u] = cur[u]
    BY <1>0, <2>3 DEF TypeOK
  <2>11. \A u \in Workers : cur'[u] \in Works => u # t /\ cur'[u] = cur[u] /\ cur[u] # v
    BY <1>0, <2>3, <2>10 DEF Placement, InService
  <2>12. Content(Requests)' = Content(Requests) /\ v \notin Content(Requests)
    BY <1>0, <2>3, <2>4 DEF Placement, InRequests
  <2>13. \A c \in Clients : \A x \in Content(c)' : x \in Content(c) \/ (c = s /\ x = v)
    BY <2>4 DEF RawQueues
  <2>14. InRequests'
    BY <1>0, <2>3, <2>11, <2>12, <2>13 DEF Placement, InRequests
  <2>15. InService'
    BY <1>0, <2>3, <2>10, <2>11, <2>13 DEF Placement, InService
  <2>16. InFinished'
    BY <1>0, <2>3, <2>13 DEF Placement, InFinished
  <2> QED
    BY <2>5, <2>7, <2>8, <2>9, <2>14, <2>15, <2>16 DEF IInv, Placement
<1>5. CASE WorkerReplyPost(t)
  <2>1. /\ pc[t] = "post" /\ RawQueuePost(t) /\ Goto(t, "sem_wait") /\ q' = [q EXCEPT ![t] = Requests]
        /\ UNCHANGED <<pri0_queue, pri_heap, alive, nr_running, reply_to, init_cleanup_sem, cur, pills>>
    BY <1>5 DEF WorkerReplyPost, queueVars
  <2>2. q[t] \in RawQueues /\ \A u \in Threads \ {t} : q'[u] = q[u]
    BY <1>0, <2>1 DEF TypeOK
  <2>3. SemCount' /\ queue_sem' \in [RawQueues -> Nat]
    BY <1>0, <2>1, <2>2, StepPost
  <2>4. TypeOK'
    BY <1>0, <2>1, <2>3 DEF Goto, TypeOK, WorkerPc
  <2>5. Control'
    BY <1>0, <2>1 DEF Goto, TypeOK, Control, Threads
  <2>6. Placement'
    BY <1>0, <2>1, PlacementFrame
  <2> QED
    BY <2>3, <2>4, <2>5, <2>6 DEF IInv
<1>6. CASE WorkerSignalFinish(t)
  <2>1. TypeOK'
    BY <1>0, <1>6 DEF WorkerSignalFinish, Goto, TypeOK, WorkerPc, queueVars
  <2>2. Control'
    BY <1>0, <1>6 DEF WorkerSignalFinish, Goto, TypeOK, Control, queueVars, Threads
  <2>3. Placement'
    <3>1. \A u \in Workers : cur'[u] = cur[u] \/ cur'[u] \notin Works
      BY <1>0, <1>6 DEF WorkerSignalFinish, TypeOK
    <3> QED
      BY <1>0, <1>6, <3>1, PlacementFrame DEF WorkerSignalFinish, queueVars
  <2>4. SemCount'
    <3>1. pc[t] = "go" /\ pc'[t] = "gone" /\ \A u \in Threads \ {t} : pc'[u] = pc[u]
      BY <1>0, <1>6 DEF WorkerSignalFinish, Goto, TypeOK
    <3> QED
      BY <1>0, <1>6, <3>1, StepElsewhere DEF WorkerSignalFinish, queueVars
  <2> QED
    BY <2>1, <2>2, <2>3, <2>4 DEF IInv
<1> QED
  BY <1>1, <1>2, <1>3, <1>4, <1>5, <1>6 DEF WorkerStep

\* A client's steps.
LEMMA ClientInvariant ==
  ASSUME IInv, NEW c \in Clients, ClientStep(c) \/ ClientCall(c)
  PROVE  IInv'
<1> USE ConstantTypes
<1>0. /\ c \in Threads /\ c \notin Workers /\ c # Main /\ c \in RawQueues
      /\ TypeOK /\ Control /\ Placement /\ SemCount
  BY DEF IInv, Threads, RawQueues
<1>1. CASE WorkQueueInit(c)
  <2>1. TypeOK'
    BY <1>0, <1>1 DEF WorkQueueInit, Goto, TypeOK, ClientPc, WorkerPc, MainPc, queueVars, Threads, RawQueues
  <2>2. Control'
    BY <1>0, <1>1 DEF WorkQueueInit, Goto, TypeOK, Control, queueVars, Threads
  <2>3. Placement'
    BY <1>0, <1>1, PlacementFrame DEF WorkQueueInit, queueVars
  <2>4. SemCount'
    <3>1. /\ pc[c] = "uninit" /\ pc'[c] = "idle"
          /\ \A u \in Threads \ {c} : pc'[u] = pc[u] /\ q'[u] = q[u]
      BY <1>0, <1>1 DEF WorkQueueInit, Goto, TypeOK, Threads
    <3> QED
      BY <1>0, <1>1, <3>1, StepElsewhere DEF WorkQueueInit, queueVars
  <2> QED
    BY <2>1, <2>2, <2>3, <2>4 DEF IInv
<1>2. CASE WorkWait(c)
  <2>1. TypeOK'
    BY <1>0, <1>2 DEF WorkWait, Goto, TypeOK, ClientPc, WorkerPc, MainPc, queueVars, Threads, RawQueues
  <2>2. Control'
    BY <1>0, <1>2 DEF WorkWait, Goto, TypeOK, Control, queueVars, Threads
  <2>3. Placement'
    BY <1>0, <1>2, PlacementFrame DEF WorkWait, queueVars
  <2>4. SemCount'
    <3>1. /\ pc[c] = "idle" /\ pc'[c] = "sem_wait"
          /\ \A u \in Threads \ {c} : pc'[u] = pc[u] /\ q'[u] = q[u]
      BY <1>0, <1>2 DEF WorkWait, Goto, TypeOK, Threads
    <3> QED
      BY <1>0, <1>2, <3>1, StepElsewhere DEF WorkWait, queueVars
  <2> QED
    BY <2>1, <2>2, <2>3, <2>4 DEF IInv
<1>3. CASE WorkQueueCleanup(c)
  <2>1. TypeOK'
    BY <1>0, <1>3 DEF WorkQueueCleanup, Goto, TypeOK, ClientPc, WorkerPc, MainPc, queueVars, Threads, RawQueues
  <2>2. Control'
    BY <1>0, <1>3 DEF WorkQueueCleanup, Goto, TypeOK, Control, queueVars, Threads
  <2>3. Placement'
    BY <1>0, <1>3, PlacementFrame DEF WorkQueueCleanup, queueVars
  <2>4. SemCount'
    <3>1. /\ pc[c] = "idle" /\ pc'[c] = "gone"
          /\ \A u \in Threads \ {c} : pc'[u] = pc[u] /\ q'[u] = q[u]
      BY <1>0, <1>3 DEF WorkQueueCleanup, Goto, TypeOK, Threads
    <3> QED
      BY <1>0, <1>3, <3>1, StepElsewhere DEF WorkQueueCleanup, queueVars
  <2> QED
    BY <2>1, <2>2, <2>3, <2>4 DEF IInv
<1>4. CASE WorkTryWait(c) \/ WorkWaitSem(c)
  <2>1. /\ pc[c] \in {"sem_wait", "idle"} /\ RawQueueSemWait(c) /\ Goto(c, "do_get")
        /\ q'[c] = c /\ q' \in [Threads -> RawQueues] /\ \A u \in Threads \ {c} : q'[u] = q[u]
        /\ UNCHANGED <<pri0_queue, pri_heap, alive, nr_running, reply_to, init_cleanup_sem, cur, pills>>
    BY <1>0, <1>4 DEF WorkTryWait, WorkWaitSem, queueVars, Control, TypeOK
  <2>2. SemCount' /\ queue_sem' \in [RawQueues -> Nat]
    BY <1>0, <2>1, StepSemWait
  <2>3. TypeOK'
    BY <1>0, <2>1, <2>2 DEF Goto, TypeOK, ClientPc
  <2>4. Control'
    BY <1>0, <2>1 DEF Goto, TypeOK, Control, Threads
  <2>5. Placement'
    BY <1>0, <2>1, PlacementFrame
  <2> QED
    BY <2>2, <2>3, <2>4, <2>5 DEF IInv
<1>5. CASE WorkSubmitPost(c)
  <2>1. /\ pc[c] = "post" /\ RawQueuePost(c) /\ Goto(c, "idle") /\ nr_running' \in [Clients -> Int]
        /\ UNCHANGED <<pri0_queue, pri_heap, alive, reply_to, init_cleanup_sem, q, cur, pills>>
    BY <1>0, <1>5 DEF WorkSubmitPost, queueVars, TypeOK
  <2>2. q[c] \in RawQueues /\ \A u \in Threads \ {c} : q'[u] = q[u]
    BY <1>0, <2>1 DEF TypeOK
  <2>3. SemCount' /\ queue_sem' \in [RawQueues -> Nat]
    BY <1>0, <2>1, <2>2, StepPost
  <2>4. TypeOK'
    <3>1. /\ pc' \in [Threads -> WorkerPc \cup ClientPc \cup MainPc] /\ pc'[c] = "idle"
          /\ \A u \in Threads \ {c} : pc'[u] = pc[u]
      BY <1>0, <2>1 DEF Goto, TypeOK, ClientPc
    <3>2. /\ \A t \in Workers : pc'[t] \in WorkerPc
          /\ \A d \in Clients : pc'[d] \in ClientPc
          /\ pc'[Main] \in MainPc
      BY <1>0, <3>1 DEF TypeOK, ClientPc, Threads
    <3> QED
      BY <1>0, <2>1, <2>3, <3>1, <3>2 DEF TypeOK
  <2>5. Control'
    BY <1>0, <2>1 DEF Goto, TypeOK, Control, Threads
  <2>6. Placement'
    BY <1>0, <2>1, PlacementFrame
  <2> QED
    BY <2>3, <2>4, <2>5, <2>6 DEF IInv
<1>6. ASSUME NEW w \in Works, WorkSubmit(c, w)
      PROVE  IInv'
  <2>1. /\ pc[c] = "idle" /\ reply_to[w] = None /\ Goto(c, "post") /\ q' = [q EXCEPT ![c] = Requests]
        /\ reply_to' = [reply_to EXCEPT ![w] = c] /\ RawQueueInsert(Requests, w) /\ w \in Items
        /\ UNCHANGED <<queue_sem, alive, nr_running, init_cleanup_sem, cur, pills>>
    BY <1>6 DEF WorkSubmit, Idle, Items
  <2>2. /\ w \notin Content(Requests) /\ \A t \in Workers : cur[t] # w
        /\ \A d \in Clients : w \notin Content(d)
    BY <1>0, <2>1 DEF Placement, InRequests, InService, InFinished
  <2>3. /\ pri0_queue' \in [RawQueues -> Seq(Items)]
        /\ pri_heap' \in [RawQueues -> SUBSET Works]
        /\ Content(Requests)' = Content(Requests) \cup {w}
        /\ \A x \in RawQueues \ {Requests} : Content(x)' = Content(x)
    BY <1>0, <2>1, InsertContent
  <2>4. QueueShape'
    BY <1>0, <2>1, <2>2, InsertShape DEF Placement
  <2>5. q'[c] = Requests /\ \A u \in Threads \ {c} : q'[u] = q[u]
    BY <1>0, <2>1 DEF TypeOK
  <2>6. SemCount'
    BY <1>0, <2>1, <2>2, <2>5, StepInsert
  <2>7. TypeOK'
    BY <1>0, <2>1, <2>3 DEF Goto, TypeOK, ClientPc
  <2>8. Control'
    BY <1>0, <2>1 DEF Goto, TypeOK, Control, Threads
  <2>9. \A d \in Clients : Content(d)' = Content(d)
    BY <2>3 DEF RawQueues
  <2>10. reply_to'[w] = c /\ \A v \in Works \ {w} : reply_to'[v] = reply_to[v]
    BY <1>0, <2>1 DEF TypeOK
  <2>11. InRequests'
    BY <1>0, <2>1, <2>2, <2>3, <2>9, <2>10 DEF Placement, InRequests
  <2>12. InService'
    <3> SUFFICES ASSUME NEW u \in Workers, cur[u] \in Works
                 PROVE  /\ reply_to'[cur[u]] \in Clients
                        /\ \A v \in Workers : cur[v] = cur[u] => v = u
                        /\ \A d \in Clients : cur[u] \notin Content(d)
      BY <2>1, <2>9 DEF InService
    <3> QED
      BY <1>0, <2>2, <2>10 DEF Placement, InService
  <2>13. InFinished'
    BY <1>0, <2>2, <2>9, <2>10 DEF Placement, InFinished
  <2> QED
    BY <2>4, <2>6, <2>7, <2>8, <2>11, <2>12, <2>13 DEF IInv, Placement
<1>7. CASE WorkWaitDoGet(c)
  <2> PICK w \in Works : RawQueueDoGet(c, w) /\ reply_to' = [reply_to EXCEPT ![w] = None]
    BY <1>7 DEF WorkWaitDoGet
  <2>1. /\ pc[c] = "do_get" /\ q[c] = c /\ Goto(c, "idle") /\ nr_running' \in [Clients -> Int]
        /\ UNCHANGED <<queue_sem, alive, init_cleanup_sem, q, cur, pills>>
    BY <1>0, <1>7 DEF WorkWaitDoGet, Control, TypeOK
  <2>2. /\ pri0_queue' \in [RawQueues -> Seq(Items)]
        /\ pri_heap' \in [RawQueues -> SUBSET Works]
        /\ w \in Content(c)
        /\ Content(c)' \subseteq Content(c)
        /\ w \notin Content(c)'
        /\ \A s \in RawQueues \ {c} : Content(s)' = Content(s)
        /\ QueueShape'
    BY <1>0, GetContent DEF Placement
  <2>3. SemCount'
    BY <1>0, <2>1, StepDoGet
  <2>4. TypeOK'
    BY <1>0, <2>1, <2>2 DEF Goto, TypeOK, ClientPc
  <2>5. Control'
    BY <1>0, <2>1 DEF Goto, TypeOK, Control, Threads
  <2>6. /\ Content(Requests)' = Content(Requests)
        /\ \A d \in Clients : Content(d)' \subseteq Content(d)
        /\ \A d \in Clients : w \notin Content(d)'
    <3>1. \A d \in Clients \ {c} : w \notin Content(d)
      BY <1>0, <2>2 DEF Placement, InFinished
    <3>2. \A d \in Clients \ {c} : Content(d)' = Content(d)
      BY <2>2 DEF RawQueues
    <3> QED
      BY <1>0, <2>2, <3>1, <3>2
  <2>7. reply_to'[w] = None /\ \A v \in Works \ {w} : reply_to'[v] = reply_to[v]
    BY <1>0 DEF TypeOK
  <2>8. w \notin Content(Requests) /\ \A t \in Workers : cur[t] # w
    BY <1>0, <2>2 DEF Placement, InRequests, InService
  <2>9. InRequests'
    BY <1>0, <2>1, <2>6, <2>7, <2>8 DEF Placement, InRequests
  <2>10. InService'
    <3> SUFFICES ASSUME NEW u \in Workers, cur[u] \in Works
                 PROVE  /\ reply_to'[cur[u]] \in Clients
                        /\ \A v \in Workers : cur[v] = cur[u] => v = u
                        /\ \A d \in Clients : cur[u] \notin Content(d)'
      BY <2>1 DEF InService
    <3> QED
      BY <1>0, <2>6, <2>7, <2>8 DEF Placement, InService
  <2>11. InFinished'
    BY <1>0, <2>6, <2>7 DEF Placement, InFinished
  <2> QED
    BY <2>2, <2>3, <2>4, <2>5, <2>9, <2>10, <2>11 DEF IInv, Placement
<1> QED
  BY <1>1, <1>2, <1>3, <1>4, <1>5, <1>6, <1>7 DEF ClientStep, ClientCall

\* The steps of the pool's owner.
LEMMA MainInvariant ==
  ASSUME IInv, MainStep \/ PoolCleanup
  PROVE  IInv'
<1> USE ConstantTypes
<1>0. Main \in Threads /\ Requests \in RawQueues /\ Workers \subseteq Threads /\ TypeOK /\ Control /\ Placement /\ SemCount
  BY DEF IInv, Threads
<1>1. ASSUME NEW t \in Workers, PoolCreate(t)
      PROVE  IInv'
  <2>1. TypeOK'
    <3>1. /\ pc' \in [Threads -> WorkerPc \cup ClientPc \cup MainPc]
          /\ pc'[t] = "init" /\ pc'[Main] = "init_wait"
          /\ \A u \in Threads \ {Main, t} : pc'[u] = pc[u]
      BY <1>0, <1>1 DEF PoolCreate, TypeOK, WorkerPc, MainPc
    <3>2. /\ \A u \in Workers : pc'[u] \in WorkerPc
          /\ \A d \in Clients : pc'[d] \in ClientPc
          /\ pc'[Main] \in MainPc
      BY <1>0, <3>1 DEF TypeOK, WorkerPc, MainPc, Threads
    <3> QED
      BY <1>0, <1>1, <3>1, <3>2 DEF PoolCreate, TypeOK, queueVars
  <2>2. Control'
    BY <1>0, <1>1 DEF PoolCreate, TypeOK, Control, queueVars, Threads
  <2>3. Placement'
    BY <1>0, <1>1, PlacementFrame DEF PoolCreate, queueVars
  <2>4. SemCount'
    <3>1. /\ pc[Main] = "create" /\ pc'[Main] = "init_wait" /\ pc[t] = "none" /\ pc'[t] = "init"
          /\ \A u \in Threads \ {Main, t} : pc'[u] = pc[u]
      BY <1>0, <1>1 DEF PoolCreate, TypeOK
    <3> QED
      BY <1>0, <1>1, <3>1, StepElsewhere DEF PoolCreate, queueVars
  <2> QED
    BY <2>1, <2>2, <2>3, <2>4 DEF IInv
<1>2. CASE PoolInitWait
  <2>1. TypeOK'
    BY <1>0, <1>2 DEF PoolInitWait, Goto, TypeOK, WorkerPc, MainPc, queueVars
  <2>2. Control'
    BY <1>0, <1>2 DEF PoolInitWait, Goto, TypeOK, Control, queueVars, Threads
  <2>3. Placement'
    BY <1>0, <1>2, PlacementFrame DEF PoolInitWait, queueVars
  <2>4. SemCount'
    <3>1. /\ pc[Main] = "init_wait" /\ pc'[Main] \in {"run", "create"}
          /\ \A u \in Threads \ {Main} : pc'[u] = pc[u] /\ q'[u] = q[u]
      BY <1>0, <1>2 DEF PoolInitWait, Goto, TypeOK
    <3> QED
      BY <1>0, <1>2, <3>1, StepElsewhere DEF PoolInitWait, queueVars
  <2> QED
    BY <2>1, <2>2, <2>3, <2>4 DEF IInv
<1>3. CASE PoolCleanup
  <2>1. TypeOK'
    BY <1>0, <1>3 DEF PoolCleanup, Goto, TypeOK, WorkerPc, MainPc, queueVars
  <2>2. Control'
    BY <1>0, <1>3 DEF PoolCleanup, Goto, TypeOK, Control, queueVars, Threads
  <2>3. Placement'
    BY <1>0, <1>3, PlacementFrame DEF PoolCleanup, queueVars
  <2>4. SemCount'
    <3>1. /\ pc[Main] = "run" /\ pc'[Main] = "put"
          /\ \A u \in Threads \ {Main} : pc'[u] = pc[u] /\ q'[u] = q[u]
      BY <1>0, <1>3 DEF PoolCleanup, Goto, TypeOK
    <3> QED
      BY <1>0, <1>3, <3>1, StepElsewhere DEF PoolCleanup, queueVars
  <2> QED
    BY <2>1, <2>2, <2>3, <2>4 DEF IInv
<1>4. CASE PoolCleanupWait
  <2>1. TypeOK'
    BY <1>0, <1>4 DEF PoolCleanupWait, Goto, TypeOK, WorkerPc, MainPc, queueVars
  <2>2. Control'
    BY <1>0, <1>4 DEF PoolCleanupWait, Goto, TypeOK, Control, queueVars, Threads
  <2>3. Placement'
    BY <1>0, <1>4, PlacementFrame DEF PoolCleanupWait, queueVars
  <2>4. SemCount'
    <3>1. /\ pc[Main] = "cleanup_wait" /\ pc'[Main] \in {"join", "put"}
          /\ \A u \in Threads \ {Main} : pc'[u] = pc[u] /\ q'[u] = q[u]
      BY <1>0, <1>4 DEF PoolCleanupWait, Goto, TypeOK
    <3> QED
      BY <1>0, <1>4, <3>1, StepElsewhere DEF PoolCleanupWait, queueVars
  <2> QED
    BY <2>1, <2>2, <2>3, <2>4 DEF IInv
<1>5. CASE PoolJoin
  <2>1. TypeOK'
    BY <1>0, <1>5 DEF PoolJoin, Goto, TypeOK, WorkerPc, MainPc, queueVars
  <2>2. Control'
    BY <1>0, <1>5 DEF PoolJoin, Goto, TypeOK, Control, queueVars, Threads
  <2>3. Placement'
    BY <1>0, <1>5, PlacementFrame DEF PoolJoin, queueVars
  <2>4. SemCount'
    <3>1. /\ pc[Main] = "join" /\ pc'[Main] = "done"
          /\ \A u \in Threads \ {Main} : pc'[u] = pc[u] /\ q'[u] = q[u]
      BY <1>0, <1>5 DEF PoolJoin, Goto, TypeOK
    <3> QED
      BY <1>0, <1>5, <3>1, StepElsewhere DEF PoolJoin, queueVars
  <2> QED
    BY <2>1, <2>2, <2>3, <2>4 DEF IInv
<1>6. CASE PoolPutPill
  <2>1. /\ pc[Main] = "put" /\ Goto(Main, "post") /\ q' = [q EXCEPT ![Main] = Requests]
        /\ RawQueueInsert(Requests, Pill) /\ Pill \in Items
        /\ UNCHANGED <<queue_sem, alive, nr_running, reply_to, init_cleanup_sem, cur, pills>>
    BY <1>6 DEF PoolPutPill, Items
  <2>2. /\ pri0_queue' \in [RawQueues -> Seq(Items)]
        /\ pri_heap' \in [RawQueues -> SUBSET Works]
        /\ Content(Requests)' = Content(Requests) \cup {Pill}
        /\ \A x \in RawQueues \ {Requests} : Content(x)' = Content(x)
    BY <1>0, <2>1, InsertContent
  <2>3. QueueShape'
    BY <1>0, <2>1, InsertShape DEF Placement
  <2>4. q'[Main] = Requests /\ \A u \in Threads \ {Main} : q'[u] = q[u]
    BY <1>0, <2>1 DEF TypeOK
  <2>5. SemCount'
    BY <1>0, <2>1, <2>4, StepInsert
  <2>6. TypeOK'
    BY <1>0, <2>1, <2>2 DEF Goto, TypeOK, MainPc
  <2>7. Control'
    BY <1>0, <2>1 DEF Goto, TypeOK, Control, Threads
  <2>8. \A d \in Clients : Content(d)' = Content(d)
    BY <2>2 DEF RawQueues
  <2>9. InRequests' /\ InService' /\ InFinished'
    BY <1>0, <2>1, <2>2, <2>8 DEF Placement, InRequests, InService, InFinished
  <2> QED
    BY <2>3, <2>5, <2>6, <2>7, <2>9 DEF IInv, Placement
<1>7. CASE PoolPostPill
  <2>1. /\ pc[Main] = "post" /\ RawQueuePost(Main) /\ Goto(Main, "cleanup_wait")
        /\ UNCHANGED <<pri0_queue, pri_heap, alive, nr_running, reply_to, init_cleanup_sem, q, cur, pills>>
    BY <1>7 DEF PoolPostPill, queueVars
  <2>2. q[Main] \in RawQueues /\ \A u \in Threads \ {Main} : q'[u] = q[u]
    BY <1>0, <2>1 DEF TypeOK
  <2>3. SemCount' /\ queue_sem' \in [RawQueues -> Nat]
    BY <1>0, <2>1, <2>2, StepPost
  <2>4. TypeOK'
    BY <1>0, <2>1, <2>3 DEF Goto, TypeOK, MainPc
  <2>5. Control'
    BY <1>0, <2>1 DEF Goto, TypeOK, Control, Threads
  <2>6. Placement'
    BY <1>0, <2>1, PlacementFrame
  <2> QED
    BY <2>3, <2>4, <2>5, <2>6 DEF IInv
<1> QED
  BY <1>1, <1>2, <1>3, <1>4, <1>5, <1>6, <1>7 DEF MainStep

LEMMA StutterInvariant == IInv /\ UNCHANGED vars => IInv'
<1> SUFFICES ASSUME IInv, UNCHANGED vars PROVE IInv'
  OBVIOUS
<1>1. TypeOK'
  BY DEF IInv, TypeOK, vars
<1>2. Control'
  BY DEF IInv, Control, vars
<1>3. Placement'
  BY PlacementFrame DEF IInv, vars
<1>4. SemCount'
  BY StepElsewhere DEF IInv, vars
<1> QED
  BY <1>1, <1>2, <1>3, <1>4 DEF IInv

\* The inductive invariant holds in every reachable state: semaphores and queues
\* are in balance and every work is in one place.
THEOREM Invariance == Spec => []IInv
<1>1. IInv /\ [Next]_vars => IInv'
  BY WorkerInvariant, ClientInvariant, MainInvariant, StutterInvariant DEF Next
<1> QED
  BY <1>1, InitInvariant, PTL DEF Spec

\* The types of the state, whatever the number of threads and works; among them
\* that a worker always replies to a real work queue.
THEOREM TypeCorrect == Spec => []TypeOK
BY Invariance, PTL DEF IInv

\* ASSERT(w) in raw_queue_do_get cannot fail: a thread that passed the semaphore
\* is one of the getters that SemCount counts, so the queue holds a work.
THEOREM DequeueSafe == Spec => []DequeueFindsWork
<1>1. IInv => DequeueFindsWork
  <2> SUFFICES ASSUME IInv, NEW t \in Threads, pc[t] = "do_get"
               PROVE  ~Empty(q[t])
    BY DEF DequeueFindsWork
  <2>1. TypeOK /\ SemCount
    BY DEF IInv
  <2>2. PICK r \in RawQueues : r = q[t]
    BY <2>1 DEF TypeOK
  <2>3. t \in Getters(r) /\ IsFiniteSet(Getters(r))
    BY <2>2, ThreadsFinite DEF Getters
  <2>4. Cardinality(Getters(r)) # 0
    BY <2>3, FS_EmptySet
  <2>5. SUFFICES ASSUME Empty(r) PROVE FALSE
    BY <2>2
  <2>6. Len(pri0_queue[r]) = 0 /\ Cardinality(pri_heap[r]) = 0
    BY <2>5, FS_EmptySet DEF Empty
  <2>7. /\ Cardinality(Getters(r)) \in Nat /\ Cardinality(Posters(r)) \in Nat /\ queue_sem[r] \in Nat
        /\ queue_sem[r] + Cardinality(Getters(r)) + Cardinality(Posters(r)) = 0
    BY <2>1, <2>6, ThreadsFinite, QueuedNat DEF SemCount
  <2> DEFINE G == Cardinality(Getters(r))
             P == Cardinality(Posters(r))
             S == queue_sem[r]
  <2> HIDE DEF G, P, S
  <2>8. G \in Nat /\ P \in Nat /\ S \in Nat /\ S + G + P = 0 /\ G # 0
    BY <2>4, <2>7 DEF G, P, S
  <2> QED
    BY <2>8
<1> QED
  BY <1>1, Invariance, PTL

-----------------------------------------------------------------------------
(***************************************************************************)
(* What a thread pool promises, on top of IInv.                            *)
(*                                                                         *)
(* Conserved: no submitted work is lost, and nr_running counts the works   *)
(* of a client.  Life: threads start one at a time, the struct work on the *)
(* stack of worker_pool_cleanup (the pill) does not outlive a turn of its  *)
(* loop, and nobody uses a queue that has been cleaned up.  It rests on    *)
(* the pill being behind every work that waits: then nobody takes it       *)
(* before its sem_post, and whoever takes it leaves an empty queue.        *)
(*                                                                         *)
(* Both together show that the threads implement module WorkPool.          *)
(***************************************************************************)

\* A submitted work is in the request queue, with a worker, or among the replies
\* of its client.
Kept ==
  \A w \in Works : reply_to[w] # None =>
    \/ w \in Content(Requests)
    \/ \E t \in Workers : cur[t] = w
    \/ \E c \in Clients : reply_to[w] = c /\ w \in Content(c)

\* Where threads may be caught between the insertion and the sem_post, and what
\* a work queue that does not exist has running.
Posting ==
  /\ \A t \in Workers : pc[t] = "post" => q[t] # Requests
  /\ \A c \in Clients : pc[c] = "post" => q[c] = Requests
  /\ \A c \in Clients : pc[c] \in {"uninit", "gone"} => nr_running[c] = 0
  /\ pc[Main] = "post" => q[Main] = Requests

Conserved == Kept /\ NrRunningExact /\ Posting

Starting == pc[Main] \in {"create", "init_wait"}
Stopping == pc[Main] \notin {"create", "init_wait", "run"}

Queued(w) == w \in Elems(pri0_queue[Requests])
Held(w) == \E t \in Workers : cur[t] = w

\* The first use of init_cleanup_sem: a thread that has just been created either
\* runs init_thread or has posted the semaphore.
InitTurn ==
  /\ \A t, u \in Workers : pc[t] = "init" /\ pc[u] = "init" => t = u
  /\ (\E t \in Workers : pc[t] = "init") => pc[Main] = "init_wait" /\ init_cleanup_sem = 0
  /\ pc[Main] = "init_wait" => init_cleanup_sem \in {0, 1}
  /\ ~Starting => \A t \in Workers : pc[t] # "none"
  /\ ~Stopping => pills = 0 /\ \A t \in Workers : pc[t] # "gone"

\* The second use: the pill is in the request queue behind all works, or with one
\* worker, or that worker has gone and posted the semaphore.
PillTurn ==
  /\ \A i \in DOMAIN pri0_queue[Requests] :
       pri0_queue[Requests][i] = Pill => i = Len(pri0_queue[Requests])
  /\ \A t, u \in Workers : cur[t] = Pill /\ cur[u] = Pill => t = u
  /\ Held(Pill) => ~Queued(Pill)
  /\ pc[Main] = "post" => Queued(Pill)
  /\ pc[Main] = "cleanup_wait" =>
       \/ init_cleanup_sem = 0 /\ (Queued(Pill) \/ Held(Pill))
       \/ init_cleanup_sem = 1 /\ ~Queued(Pill) /\ ~Held(Pill)
  /\ pc[Main] \notin {"post", "cleanup_wait"} => ~Queued(Pill) /\ ~Held(Pill)
  /\ pc[Main] \notin {"init_wait", "cleanup_wait"} => init_cleanup_sem = 0

GoneCount ==
  Cardinality({t \in Workers : pc[t] = "gone"})
    = pills + (IF pc[Main] = "cleanup_wait" THEN init_cleanup_sem ELSE 0)

\* Nobody submits to a pool that is being cleaned up, so once a pill has been
\* taken, no work is left.
Drained ==
  /\ Stopping => \A c \in Clients : pc[c] # "post"
  /\ Stopping /\ (pills > 0 \/ (pc[Main] = "cleanup_wait" /\ ~Queued(Pill))) =>
       \A w \in Works : w \notin Content(Requests)
  /\ pc[Main] \in {"join", "done"} => pills > 0
  /\ pc[Main] = "done" => \A t \in Workers : pc[t] = "gone"

AliveExact ==
  /\ alive[Requests] <=> pc[Main] # "done"
  /\ \A c \in Clients : alive[c] <=> pc[c] \notin {"uninit", "gone"}

Life == InitTurn /\ PillTurn /\ GoneCount /\ Drained /\ AliveExact

-----------------------------------------------------------------------------
(* Raw queues.                                                             *)

LEMMA AppendElems ==
  ASSUME NEW S, NEW s \in Seq(S), NEW e \in S
  PROVE  /\ Elems(Append(s, e)) = Elems(s) \cup {e}
         /\ Len(Append(s, e)) = Len(s) + 1 /\ Append(s, e)[Len(s) + 1] = e
         /\ \A i \in DOMAIN Append(s, e) : i = Len(s) + 1 \/ (i \in DOMAIN s /\ Append(s, e)[i] = s[i])
<1> DEFINE new == Append(s, e)
<1>1. /\ DOMAIN new = 1..(Len(s) + 1) /\ DOMAIN s = 1..Len(s) /\ Len(s) \in Nat
      /\ \A i \in 1..Len(s) : new[i] = s[i]
      /\ new[Len(s) + 1] = e /\ Len(new) = Len(s) + 1
  OBVIOUS
<1> HIDE DEF new
<1>2. \A i \in DOMAIN new : i = Len(s) + 1 \/ (i \in DOMAIN s /\ new[i] = s[i])
  BY <1>1
<1>3. Len(s) + 1 \in DOMAIN new /\ DOMAIN s \subseteq DOMAIN new /\ \A i \in DOMAIN s : new[i] = s[i]
  BY <1>1
<1>4. Elems(new) = Elems(s) \cup {e}
  BY <1>1, <1>2, <1>3 DEF Elems
<1> QED
  BY <1>1, <1>2, <1>4 DEF new

LEMMA TailElems ==
  ASSUME NEW S, NEW s \in Seq(S), s # <<>>
  PROVE  /\ Elems(s) = Elems(Tail(s)) \cup {Head(s)}
         /\ Len(Tail(s)) = Len(s) - 1 /\ Len(s) \in Nat /\ Len(s) > 0
         /\ Head(s) = s[1] /\ 1 \in DOMAIN s
         /\ \A i \in DOMAIN Tail(s) : i \in Nat /\ i + 1 \in DOMAIN s /\ Tail(s)[i] = s[i + 1]
<1> DEFINE new == Tail(s)
<1>1. /\ DOMAIN new = 1..(Len(s) - 1) /\ DOMAIN s = 1..Len(s) /\ Len(s) \in Nat /\ Len(s) > 0
      /\ \A i \in 1..(Len(s) - 1) : new[i] = s[i + 1]
      /\ Len(new) = Len(s) - 1 /\ Head(s) = s[1]
  OBVIOUS
<1> HIDE DEF new
<1>2. \A i \in DOMAIN new : i \in Nat /\ i + 1 \in DOMAIN s /\ new[i] = s[i + 1]
  BY <1>1
<1>3. \A i \in DOMAIN s : i = 1 \/ (i - 1 \in DOMAIN new /\ new[i - 1] = s[i])
  BY <1>1
<1>4. 1 \in DOMAIN s
  BY <1>1
<1>5. Elems(s) = Elems(new) \cup {Head(s)}
  <2>1. \A e \in Elems(s) : e \in Elems(new) \cup {s[1]}
    BY <1>3 DEF Elems
  <2>2. \A e \in Elems(new) : e \in Elems(s)
    BY <1>2 DEF Elems
  <2>3. s[1] \in Elems(s)
    BY <1>4 DEF Elems
  <2> QED
    BY <1>1, <2>1, <2>2, <2>3
<1> QED
  BY <1>1, <1>2, <1>4, <1>5 DEF new

\* raw_queue_do_get leaves everything but the work it returns.
LEMMA GetKeeps ==
  ASSUME TypeOK, NEW r \in RawQueues, NEW w \in Items, RawQueueDoGet(r, w)
  PROVE  Content(r) \subseteq Content(r)' \cup {w}
<1>0. pri0_queue[r] \in Seq(Items)
  BY DEF TypeOK
<1>1. CASE pri_heap[r] = {}
  <2>1. /\ pri0_queue[r] # <<>> /\ w = Head(pri0_queue[r])
        /\ pri0_queue'[r] = Tail(pri0_queue[r]) /\ pri_heap'[r] = pri_heap[r]
    BY <1>1 DEF RawQueueDoGet, TypeOK
  <2>2. Elems(pri0_queue[r]) = Elems(Tail(pri0_queue[r])) \cup {w}
    BY <1>0, <2>1, TailElems
  <2>3. Content(r)' = Elems(Tail(pri0_queue[r])) \cup pri_heap[r]
    BY <2>1 DEF Content, Elems
  <2> QED
    BY <2>2, <2>3 DEF Content
<1>2. CASE pri_heap[r] # {}
  <2>1. pri0_queue' = pri0_queue /\ pri_heap'[r] = pri_heap[r] \ {w}
    BY <1>2 DEF RawQueueDoGet, TypeOK
  <2>2. Content(r)' = Elems(pri0_queue[r]) \cup (pri_heap[r] \ {w})
    BY <2>1 DEF Content, Elems
  <2> QED
    BY <2>2 DEF Content
<1> QED
  BY <1>1, <1>2

LEMMA GotoFacts ==
  ASSUME TypeOK, NEW t \in Threads, NEW x, Goto(t, x)
  PROVE  pc'[t] = x /\ \A u \in Threads \ {t} : pc'[u] = pc[u]
BY DEF TypeOK, Goto

LEMMA Membership ==
  /\ Workers \subseteq Threads /\ Clients \subseteq Threads /\ Main \in Threads
  /\ Clients \subseteq RawQueues /\ Requests \in RawQueues
  /\ \A t \in Workers : t \notin Clients /\ t # Main
  /\ \A c \in Clients : c \notin Workers /\ c # Main /\ c # Requests
BY ConstantTypes DEF Threads, RawQueues

-----------------------------------------------------------------------------
(* Conservation of works.                                                  *)

LEMMA KeptFrame ==
  ASSUME Kept, UNCHANGED <<pri0_queue, pri_heap, reply_to>>,
         \A t \in Workers : cur[t] \in Works => cur'[t] = cur[t]
  PROVE  Kept'
<1>1. \A r : Content(r)' = Content(r)
  BY DEF Content, Elems
<1> QED
  BY <1>1 DEF Kept

LEMMA CountFrame ==
  ASSUME NrRunningExact, UNCHANGED <<nr_running, reply_to>>,
         \A c \in Clients : pc'[c] = "post" <=> pc[c] = "post"
  PROVE  NrRunningExact'
BY DEF NrRunningExact

LEMMA WorksOfFinite ==
  ASSUME NEW c
  PROVE  /\ IsFiniteSet({w \in Works : reply_to[w] = c})
         /\ Cardinality({w \in Works : reply_to[w] = c}) \in Nat
<1>1. IsFiniteSet({w \in Works : reply_to[w] = c})
  BY FS_Subset, WorkQueueAssumption
<1> QED
  BY <1>1, FS_CardinalityType

LEMMA ConservedInit == Init => Conserved
<1> SUFFICES ASSUME Init PROVE Conserved
  OBVIOUS
<1> USE ConstantTypes, Membership
<1>1. Kept
  BY DEF Init, Kept
<1>2. NrRunningExact
  <2> SUFFICES ASSUME NEW c \in Clients
               PROVE  nr_running[c] + (IF pc[c] = "post" THEN 1 ELSE 0)
                        = Cardinality({w \in Works : reply_to[w] = c})
    BY DEF NrRunningExact
  <2>1. {w \in Works : reply_to[w] = c} = {}
    BY DEF Init
  <2>2. nr_running[c] = 0 /\ pc[c] # "post"
    BY DEF Init
  <2> QED
    BY <2>1, <2>2, FS_EmptySet
<1>3. Posting
  BY DEF Init, Posting
<1> QED
  BY <1>1, <1>2, <1>3 DEF Conserved

LEMMA ConservedWorker ==
  ASSUME IInv, Conserved, NEW t \in Workers, WorkerStep(t)
  PROVE  Conserved'
<1> USE ConstantTypes, Membership
<1>0. TypeOK /\ Control /\ Placement /\ Kept /\ NrRunningExact /\ Posting
  BY DEF IInv, Conserved
<1>1. CASE WorkerInit(t)
  <2>1. pc'[t] = "sem_wait" /\ \A u \in Threads \ {t} : pc'[u] = pc[u]
    BY <1>0, <1>1, GotoFacts DEF WorkerInit
  <2>2. Kept' /\ NrRunningExact'
    BY <1>0, <1>1, <2>1, KeptFrame, CountFrame DEF WorkerInit, queueVars
  <2>3. \A u \in Threads \ {t} : q'[u] = q[u]
    BY <1>0, <1>1 DEF WorkerInit, TypeOK
  <2>4. Posting'
    BY <1>0, <1>1, <2>1, <2>3 DEF WorkerInit, Posting
  <2> QED
    BY <2>2, <2>4 DEF Conserved
<1>2. CASE WorkerSemWait(t)
  <2>1. pc'[t] = "do_get" /\ \A u \in Threads \ {t} : pc'[u] = pc[u]
    BY <1>0, <1>2, GotoFacts DEF WorkerSemWait
  <2>2. Kept' /\ NrRunningExact'
    BY <1>0, <1>2, <2>1, KeptFrame, CountFrame DEF WorkerSemWait, queueVars
  <2>3. Posting'
    BY <1>0, <1>2, <2>1 DEF WorkerSemWait, Posting
  <2> QED
    BY <2>2, <2>3 DEF Conserved
<1>3. CASE WorkerDoGet(t)
  <2> PICK w \in Items : RawQueueDoGet(Requests, w) /\ cur' = [cur EXCEPT ![t] = w]
    BY <1>3 DEF WorkerDoGet
  <2>1. pc'[t] = "go" /\ \A u \in Threads \ {t} : pc'[u] = pc[u]
    BY <1>0, <1>3, GotoFacts DEF WorkerDoGet
  <2>2. /\ Content(Requests) \subseteq Content(Requests)' \cup {w}
        /\ \A s \in RawQueues \ {Requests} : Content(s)' = Content(s)
    BY <1>0, GetKeeps, GetContent DEF Placement
  <2>3. cur'[t] = w /\ cur[t] = None /\ \A u \in Workers \ {t} : cur'[u] = cur[u]
    BY <1>0, <1>3 DEF TypeOK, Control, WorkerDoGet
  <2>4. Kept'
    <3> SUFFICES ASSUME NEW v \in Works, reply_to[v] # None
                 PROVE  \/ v \in Content(Requests)' \/ \E u \in Workers : cur'[u] = v
                        \/ \E c \in Clients : reply_to[v] = c /\ v \in Content(c)'
      BY <1>3 DEF Kept, WorkerDoGet
    <3>1. CASE v \in Content(Requests)
      BY <2>2, <2>3, <3>1
    <3>2. CASE \E u \in Workers : cur[u] = v
      BY <2>3, <3>2
    <3>3. CASE \E c \in Clients : reply_to[v] = c /\ v \in Content(c)
      BY <2>2, <3>3
    <3> QED
      BY <1>0, <3>1, <3>2, <3>3 DEF Kept
  <2>5. NrRunningExact'
    BY <1>0, <1>3, <2>1, CountFrame DEF WorkerDoGet
  <2>6. Posting'
    BY <1>0, <1>3, <2>1 DEF WorkerDoGet, Posting
  <2> QED
    BY <2>4, <2>5, <2>6 DEF Conserved
<1>4. CASE WorkerReply(t)
  <2>1. PICK v, s : v = cur[t] /\ s = reply_to[cur[t]]
    OBVIOUS
  <2>2. /\ RawQueueInsert(s, v) /\ q' = [q EXCEPT ![t] = s] /\ reply_to[v] = s
        /\ v \in Works /\ s \in Clients /\ s \in RawQueues /\ v \in Items
        /\ reply_to' = reply_to /\ cur' = [cur EXCEPT ![t] = None]
        /\ nr_running' = nr_running
    BY <1>0, <1>4, <2>1 DEF WorkerReply, Placement, InService, Items
  <2>3. pc'[t] = "post" /\ \A u \in Threads \ {t} : pc'[u] = pc[u]
    BY <1>0, <1>4, GotoFacts DEF WorkerReply
  <2>4. /\ Content(s)' = Content(s) \cup {v}
        /\ \A x \in RawQueues \ {s} : Content(x)' = Content(x)
    BY <1>0, <2>2, InsertContent
  <2>5. \A u \in Workers \ {t} : cur'[u] = cur[u]
    BY <1>0, <2>2 DEF TypeOK
  <2>6. Kept'
    <3> SUFFICES ASSUME NEW w \in Works, reply_to[w] # None
                 PROVE  \/ w \in Content(Requests)' \/ \E u \in Workers : cur'[u] = w
                        \/ \E c \in Clients : reply_to[w] = c /\ w \in Content(c)'
      BY <2>2 DEF Kept
    <3>1. CASE w = v
      BY <2>2, <2>4, <3>1
    <3>2. CASE w # v
      <4>1. \A x \in RawQueues : Content(x) \subseteq Content(x)'
        BY <2>4
      <4> QED
        BY <1>0, <2>1, <2>5, <3>2, <4>1 DEF Kept
    <3> QED
      BY <3>1, <3>2
  <2>7. NrRunningExact'
    BY <1>0, <2>2, <2>3, CountFrame
  <2>8. q'[t] = s /\ \A u \in Threads \ {t} : q'[u] = q[u]
    BY <1>0, <2>2 DEF TypeOK
  <2>9. Posting'
    BY <1>0, <2>2, <2>3, <2>8 DEF Posting
  <2> QED
    BY <2>6, <2>7, <2>9 DEF Conserved
<1>5. CASE WorkerReplyPost(t)
  <2>1. pc'[t] = "sem_wait" /\ \A u \in Threads \ {t} : pc'[u] = pc[u]
    BY <1>0, <1>5, GotoFacts DEF WorkerReplyPost
  <2>2. Kept' /\ NrRunningExact'
    BY <1>0, <1>5, <2>1, KeptFrame, CountFrame DEF WorkerReplyPost, queueVars
  <2>3. \A u \in Threads \ {t} : q'[u] = q[u]
    BY <1>0, <1>5 DEF WorkerReplyPost, TypeOK
  <2>4. Posting'
    BY <1>0, <1>5, <2>1, <2>3 DEF WorkerReplyPost, Posting
  <2> QED
    BY <2>2, <2>4 DEF Conserved
<1>6. CASE WorkerSignalFinish(t)
  <2>1. pc'[t] = "gone" /\ \A u \in Threads \ {t} : pc'[u] = pc[u]
    BY <1>0, <1>6, GotoFacts DEF WorkerSignalFinish
  <2>2. \A u \in Workers : cur[u] \in Works => cur'[u] = cur[u]
    BY <1>0, <1>6 DEF WorkerSignalFinish, TypeOK
  <2>3. Kept' /\ NrRunningExact'
    BY <1>0, <1>6, <2>1, <2>2, KeptFrame, CountFrame DEF WorkerSignalFinish, queueVars
  <2>4. Posting'
    BY <1>0, <1>6, <2>1 DEF WorkerSignalFinish, Posting
  <2> QED
    BY <2>3, <2>4 DEF Conserved
<1> QED
  BY <1>1, <1>2, <1>3, <1>4, <1>5, <1>6 DEF WorkerStep

\* A client's steps.
LEMMA ConservedClient ==
  ASSUME IInv, Conserved, NEW c \in Clients, ClientStep(c) \/ ClientCall(c)
  PROVE  Conserved'
<1> USE ConstantTypes, Membership
<1>0. TypeOK /\ Control /\ Placement /\ Kept /\ NrRunningExact /\ Posting
  BY DEF IInv, Conserved
<1>1. CASE WorkQueueInit(c)
  <2>1. pc'[c] = "idle" /\ \A u \in Threads \ {c} : pc'[u] = pc[u]
    BY <1>0, <1>1, GotoFacts DEF WorkQueueInit
  <2>2. pc[c] = "uninit" /\ nr_running' = nr_running /\ q' = q
    BY <1>1 DEF WorkQueueInit
  <2>3. Kept' /\ NrRunningExact'
    BY <1>0, <1>1, <2>1, <2>2, KeptFrame, CountFrame DEF WorkQueueInit, queueVars
  <2>4. Posting'
    BY <1>0, <2>1, <2>2 DEF Posting
  <2> QED
    BY <2>3, <2>4 DEF Conserved
<1>2. CASE WorkWait(c)
  <2>1. pc'[c] = "sem_wait" /\ \A u \in Threads \ {c} : pc'[u] = pc[u]
    BY <1>0, <1>2, GotoFacts DEF WorkWait
  <2>2. pc[c] = "idle" /\ nr_running' = nr_running /\ \A u \in Threads \ {c} : q'[u] = q[u]
    BY <1>0, <1>2 DEF WorkWait, TypeOK
  <2>3. Kept' /\ NrRunningExact'
    BY <1>0, <1>2, <2>1, <2>2, KeptFrame, CountFrame DEF WorkWait, queueVars
  <2>4. Posting'
    BY <1>0, <2>1, <2>2 DEF Posting
  <2> QED
    BY <2>3, <2>4 DEF Conserved
<1>3. CASE WorkQueueCleanup(c)
  <2>1. pc'[c] = "gone" /\ \A u \in Threads \ {c} : pc'[u] = pc[u]
    BY <1>0, <1>3, GotoFacts DEF WorkQueueCleanup
  <2>2. pc[c] = "idle" /\ nr_running' = nr_running /\ q' = q /\ nr_running[c] = 0
    BY <1>3 DEF WorkQueueCleanup
  <2>3. Kept' /\ NrRunningExact'
    BY <1>0, <1>3, <2>1, <2>2, KeptFrame, CountFrame DEF WorkQueueCleanup, queueVars
  <2>4. Posting'
    BY <1>0, <2>1, <2>2 DEF Posting
  <2> QED
    BY <2>3, <2>4 DEF Conserved
<1>4. CASE WorkTryWait(c) \/ WorkWaitSem(c)
  <2>1. pc'[c] = "do_get" /\ \A u \in Threads \ {c} : pc'[u] = pc[u]
    BY <1>0, <1>4, GotoFacts DEF WorkTryWait, WorkWaitSem
  <2>2. pc[c] \in {"idle", "sem_wait"} /\ nr_running' = nr_running /\ \A u \in Threads \ {c} : q'[u] = q[u]
    BY <1>0, <1>4 DEF WorkTryWait, WorkWaitSem, TypeOK
  <2>3. Kept' /\ NrRunningExact'
    BY <1>0, <1>4, <2>1, <2>2, KeptFrame, CountFrame DEF WorkTryWait, WorkWaitSem, queueVars
  <2>4. Posting'
    BY <1>0, <2>1, <2>2 DEF Posting
  <2> QED
    BY <2>3, <2>4 DEF Conserved
<1>5. CASE WorkSubmitPost(c)
  <2>1. pc'[c] = "idle" /\ \A u \in Threads \ {c} : pc'[u] = pc[u]
    BY <1>0, <1>5, GotoFacts DEF WorkSubmitPost
  <2>2. /\ pc[c] = "post" /\ q' = q /\ nr_running[c] \in Int /\ nr_running'[c] = nr_running[c] + 1
        /\ \A d \in Clients \ {c} : nr_running'[d] = nr_running[d]
    BY <1>0, <1>5 DEF WorkSubmitPost, TypeOK
  <2>3. Kept'
    BY <1>0, <1>5, KeptFrame DEF WorkSubmitPost, queueVars
  <2>4. NrRunningExact'
    <3> SUFFICES ASSUME NEW d \in Clients
                 PROVE  nr_running'[d] + (IF pc'[d] = "post" THEN 1 ELSE 0)
                          = Cardinality({w \in Works : reply_to[w] = d})
      BY <1>5 DEF NrRunningExact, WorkSubmitPost
    <3>1. nr_running[d] + (IF pc[d] = "post" THEN 1 ELSE 0) = Cardinality({w \in Works : reply_to[w] = d})
      BY <1>0 DEF NrRunningExact
    <3> QED
      BY <2>1, <2>2, <3>1
  <2>5. Posting'
    BY <1>0, <2>1, <2>2 DEF Posting
  <2> QED
    BY <2>3, <2>4, <2>5 DEF Conserved
<1>6. ASSUME NEW w \in Works, WorkSubmit(c, w)
      PROVE  Conserved'
  <2>1. /\ pc[c] = "idle" /\ reply_to[w] = None /\ RawQueueInsert(Requests, w) /\ w \in Items
        /\ cur' = cur /\ nr_running' = nr_running
    BY <1>6 DEF WorkSubmit, Idle, Items
  <2>2. pc'[c] = "post" /\ \A u \in Threads \ {c} : pc'[u] = pc[u]
    BY <1>0, <1>6, GotoFacts DEF WorkSubmit
  <2>3. q'[c] = Requests /\ \A u \in Threads \ {c} : q'[u] = q[u]
    BY <1>0, <1>6 DEF WorkSubmit, TypeOK
  <2>4. reply_to'[w] = c /\ \A v \in Works \ {w} : reply_to'[v] = reply_to[v]
    BY <1>0, <1>6 DEF WorkSubmit, TypeOK
  <2>5. /\ w \in Content(Requests)'
        /\ \A x \in RawQueues : Content(x) \subseteq Content(x)'
    BY <1>0, <2>1, InsertContent, SMTT(30)
  <2>6. Kept'
    BY <1>0, <2>1, <2>4, <2>5 DEF Kept
  <2>7. NrRunningExact'
    <3> SUFFICES ASSUME NEW d \in Clients
                 PROVE  nr_running[d] + (IF pc'[d] = "post" THEN 1 ELSE 0)
                          = Cardinality({v \in Works : reply_to'[v] = d})
      BY <2>1 DEF NrRunningExact
    <3> DEFINE old == {v \in Works : reply_to[v] = d}
               new == {v \in Works : reply_to'[v] = d}
    <3>1. nr_running[d] + (IF pc[d] = "post" THEN 1 ELSE 0) = Cardinality(old)
      BY <1>0 DEF NrRunningExact
    <3>2. CASE d = c
      <4>1. new = old \cup {w} /\ w \notin old
        BY <2>1, <2>4, <3>2
      <4>2. Cardinality(new) = Cardinality(old) + 1
        <5> HIDE DEF old, new
        <5>1. IsFiniteSet(old)
          BY WorksOfFinite DEF old
        <5> QED
          BY <4>1, <5>1, FS_AddElement
      <4>3. nr_running[d] \in Int /\ Cardinality(old) \in Nat
        BY <1>0, WorksOfFinite DEF TypeOK
      <4> HIDE DEF old, new
      <4>4. Cardinality(new) = nr_running[d] + 1
        BY <2>1, <3>1, <3>2, <4>2, <4>3
      <4> QED
        BY <2>2, <3>2, <4>4 DEF new
    <3>3. CASE d # c
      <4>1. new = old
        BY <2>1, <2>4, <3>3
      <4> QED
        BY <2>2, <3>1, <3>3, <4>1
    <3> QED
      BY <3>2, <3>3
  <2>8. Posting'
    BY <1>0, <2>1, <2>2, <2>3 DEF Posting
  <2> QED
    BY <2>6, <2>7, <2>8 DEF Conserved
<1>7. CASE WorkWaitDoGet(c)
  <2> PICK w \in Works : RawQueueDoGet(c, w) /\ reply_to' = [reply_to EXCEPT ![w] = None]
    BY <1>7 DEF WorkWaitDoGet
  <2>1. /\ pc[c] = "do_get" /\ q' = q /\ cur' = cur /\ w \in Items /\ nr_running[c] \in Int
        /\ nr_running'[c] = nr_running[c] - 1
        /\ \A d \in Clients \ {c} : nr_running'[d] = nr_running[d]
    BY <1>0, <1>7 DEF WorkWaitDoGet, TypeOK, Items
  <2>2. pc'[c] = "idle" /\ \A u \in Threads \ {c} : pc'[u] = pc[u]
    BY <1>0, <1>7, GotoFacts DEF WorkWaitDoGet
  <2>3. /\ w \in Content(c) /\ Content(c) \subseteq Content(c)' \cup {w}
        /\ \A s \in RawQueues \ {c} : Content(s)' = Content(s)
    BY <1>0, <2>1, GetKeeps, GetContent DEF Placement
  <2>4. reply_to[w] = c /\ reply_to'[w] = None /\ \A v \in Works \ {w} : reply_to'[v] = reply_to[v]
    BY <1>0, <2>3 DEF TypeOK, Placement, InFinished
  <2>5. Kept'
    <3> SUFFICES ASSUME NEW v \in Works, reply_to'[v] # None
                 PROVE  \/ v \in Content(Requests)' \/ \E u \in Workers : cur'[u] = v
                        \/ \E d \in Clients : reply_to'[v] = d /\ v \in Content(d)'
      BY DEF Kept
    <3>1. v # w /\ reply_to'[v] = reply_to[v]
      BY <2>4
    <3>2. \A x \in RawQueues : v \in Content(x) => v \in Content(x)'
      BY <2>3, <3>1
    <3> QED
      BY <1>0, <2>1, <3>1, <3>2 DEF Kept
  <2>6. NrRunningExact'
    <3> SUFFICES ASSUME NEW d \in Clients
                 PROVE  nr_running'[d] + (IF pc'[d] = "post" THEN 1 ELSE 0)
                          = Cardinality({v \in Works : reply_to'[v] = d})
      BY DEF NrRunningExact
    <3> DEFINE old == {v \in Works : reply_to[v] = d}
               new == {v \in Works : reply_to'[v] = d}
    <3>1. nr_running[d] + (IF pc[d] = "post" THEN 1 ELSE 0) = Cardinality(old)
      BY <1>0 DEF NrRunningExact
    <3>2. CASE d = c
      <4>1. new = old \ {w} /\ w \in old
        BY <2>4, <3>2
      <4>2. Cardinality(new) = Cardinality(old) - 1
        <5> HIDE DEF old, new
        <5>1. IsFiniteSet(old)
          BY WorksOfFinite DEF old
        <5> QED
          BY <4>1, <5>1, FS_RemoveElement
      <4>3. nr_running[d] \in Int /\ Cardinality(old) \in Nat
        BY <1>0, WorksOfFinite DEF TypeOK
      <4> HIDE DEF old, new
      <4>4. Cardinality(new) = nr_running'[d]
        BY <2>1, <3>1, <3>2, <4>2, <4>3
      <4>5. nr_running'[d] \in Int
        BY <2>1, <3>2
      <4> QED
        BY <2>2, <3>2, <4>4, <4>5 DEF new
    <3>3. CASE d # c
      <4>1. new = old
        BY <2>4, <3>3
      <4> QED
        BY <2>1, <2>2, <3>1, <3>3, <4>1
    <3> QED
      BY <3>2, <3>3
  <2>7. Posting'
    BY <1>0, <2>1, <2>2 DEF Posting
  <2> QED
    BY <2>5, <2>6, <2>7 DEF Conserved
<1> QED
  BY <1>1, <1>2, <1>3, <1>4, <1>5, <1>6, <1>7 DEF ClientStep, ClientCall

\* The steps of the pool's owner, who moves no client's work.
LEMMA ConservedMain ==
  ASSUME IInv, Conserved, MainStep \/ PoolCleanup
  PROVE  Conserved'
<1> USE ConstantTypes, Membership
<1>0. TypeOK /\ Control /\ Placement /\ Kept /\ NrRunningExact /\ Posting
  BY DEF IInv, Conserved
<1>1. ASSUME NEW t \in Workers, PoolCreate(t)
      PROVE  Conserved'
  <2>1. /\ pc'[t] = "init" /\ pc'[Main] = "init_wait"
        /\ \A u \in Threads \ {t, Main} : pc'[u] = pc[u]
    BY <1>0, <1>1 DEF PoolCreate, TypeOK
  <2>2. Kept' /\ NrRunningExact'
    BY <1>0, <1>1, <2>1, KeptFrame, CountFrame DEF PoolCreate, queueVars
  <2>3. Posting'
    BY <1>0, <1>1, <2>1 DEF PoolCreate, Posting
  <2> QED
    BY <2>2, <2>3 DEF Conserved
<1>2. CASE PoolInitWait \/ PoolCleanupWait \/ PoolJoin \/ PoolCleanup
  <2>1. /\ \A u \in Threads \ {Main} : pc'[u] = pc[u]
        /\ pc'[Main] # "post" /\ q' = q /\ nr_running' = nr_running
    BY <1>0, <1>2 DEF PoolInitWait, PoolCleanupWait, PoolJoin, PoolCleanup, Goto, TypeOK
  <2>2. Kept' /\ NrRunningExact'
    BY <1>0, <1>2, <2>1, KeptFrame, CountFrame
    DEF PoolInitWait, PoolCleanupWait, PoolJoin, PoolCleanup, queueVars
  <2>3. Posting'
    BY <1>0, <2>1 DEF Posting
  <2> QED
    BY <2>2, <2>3 DEF Conserved
<1>3. CASE PoolPutPill
  <2>1. pc'[Main] = "post" /\ \A u \in Threads \ {Main} : pc'[u] = pc[u]
    BY <1>0, <1>3, GotoFacts DEF PoolPutPill
  <2>2. q'[Main] = Requests /\ \A u \in Threads \ {Main} : q'[u] = q[u]
    BY <1>0, <1>3 DEF PoolPutPill, TypeOK
  <2>3. RawQueueInsert(Requests, Pill) /\ Pill \in Items /\ UNCHANGED <<cur, nr_running, reply_to>>
    BY <1>3 DEF PoolPutPill, Items
  <2>4. \A x \in RawQueues : Content(x) \subseteq Content(x)'
    BY <1>0, <2>3, InsertContent
  <2>5. Kept'
    BY <1>0, <2>3, <2>4 DEF Kept
  <2>6. NrRunningExact'
    BY <1>0, <2>1, <2>3, CountFrame
  <2>7. Posting'
    BY <1>0, <2>1, <2>2, <2>3 DEF Posting
  <2> QED
    BY <2>5, <2>6, <2>7 DEF Conserved
<1>4. CASE PoolPostPill
  <2>1. pc'[Main] = "cleanup_wait" /\ \A u \in Threads \ {Main} : pc'[u] = pc[u]
    BY <1>0, <1>4, GotoFacts DEF PoolPostPill
  <2>2. Kept' /\ NrRunningExact'
    BY <1>0, <1>4, <2>1, KeptFrame, CountFrame DEF PoolPostPill, queueVars
  <2>3. Posting'
    BY <1>0, <1>4, <2>1 DEF PoolPostPill, Posting
  <2> QED
    BY <2>2, <2>3 DEF Conserved
<1> QED
  BY <1>1, <1>2, <1>3, <1>4 DEF MainStep

LEMMA ConservedStutter == Conserved /\ UNCHANGED vars => Conserved'
<1> SUFFICES ASSUME Conserved, UNCHANGED vars PROVE Conserved'
  OBVIOUS
<1>1. Kept' /\ NrRunningExact'
  BY KeptFrame, CountFrame DEF Conserved, vars
<1> QED
  BY <1>1 DEF Conserved, Posting, vars

\* A work is in a raw queue once or not at all.
LEMMA QueueCount ==
  ASSUME IInv, NEW r \in RawQueues, NEW w \in Works
  PROVE  InQueue(r, w) = IF w \in Content(r) THEN 1 ELSE 0
<1> DEFINE at == {i \in DOMAIN pri0_queue[r] : pri0_queue[r][i] = w}
<1>0. QueueShape
  BY DEF IInv, Placement
<1>1. CASE w \in Elems(pri0_queue[r])
  <2>1. PICK k \in DOMAIN pri0_queue[r] : pri0_queue[r][k] = w
    BY <1>1 DEF Elems
  <2>2. at = {k}
    BY <1>0, <2>1 DEF QueueShape
  <2>3. Cardinality(at) = 1
    BY <2>2, FS_Singleton
  <2>4. w \notin pri_heap[r]
    BY <1>0, <2>1 DEF QueueShape
  <2> QED
    BY <1>1, <2>3, <2>4 DEF InQueue, Occurrences, Content
<1>2. CASE w \notin Elems(pri0_queue[r])
  <2>1. at = {}
    BY <1>2 DEF Elems
  <2>2. Cardinality(at) = 0
    BY <2>1, FS_EmptySet
  <2> QED
    BY <1>2, <2>2 DEF InQueue, Occurrences, Content
<1> QED
  BY <1>1, <1>2

LEMMA HolderCount ==
  ASSUME NEW w, \A t, u \in Workers : cur[t] = w /\ cur[u] = w => t = u
  PROVE  Cardinality(Holders(w)) = IF Held(w) THEN 1 ELSE 0
<1>1. CASE Held(w)
  <2>1. PICK t \in Workers : cur[t] = w
    BY <1>1 DEF Held
  <2>2. Holders(w) = {t}
    BY <2>1 DEF Holders
  <2> QED
    BY <1>1, <2>2, FS_Singleton
<1>2. CASE ~Held(w)
  <2>1. Holders(w) = {}
    BY <1>2 DEF Holders, Held
  <2> QED
    BY <1>2, <2>1, FS_EmptySet
<1> QED
  BY <1>1, <1>2

LEMMA ConservedGivesOnePlace == IInv /\ Conserved => WorkConservation
<1> SUFFICES ASSUME IInv, Conserved PROVE WorkConservation
  OBVIOUS
<1> USE ConstantTypes, Membership
<1>0. TypeOK /\ Placement /\ Kept /\ NrRunningExact
  BY DEF IInv, Conserved
<1> SUFFICES ASSUME NEW w \in Works
             PROVE  /\ InQueue(Requests, w) + Cardinality(Holders(w))
                         + (IF reply_to[w] = None THEN 0 ELSE InQueue(reply_to[w], w))
                       = (IF reply_to[w] = None THEN 0 ELSE 1)
                    /\ \A c \in Clients : c # reply_to[w] => InQueue(c, w) = 0
  BY <1>0 DEF WorkConservation, OnePlace
<1>1. \A r \in RawQueues : InQueue(r, w) = IF w \in Content(r) THEN 1 ELSE 0
  BY QueueCount
<1>2. Cardinality(Holders(w)) = IF Held(w) THEN 1 ELSE 0
  BY <1>0, HolderCount DEF Placement, InService
<1>3. \A c \in Clients : w \in Content(c) => reply_to[w] = c
  BY <1>0 DEF Placement, InFinished
<1>4. \A c \in Clients : c # reply_to[w] => InQueue(c, w) = 0
  BY <1>1, <1>3
<1>5. w \in Content(Requests) => reply_to[w] # None /\ ~Held(w) /\ \A c \in Clients : w \notin Content(c)
  BY <1>0 DEF Placement, InRequests, Held
<1>6. Held(w) => reply_to[w] # None /\ \A c \in Clients : w \notin Content(c)
  BY <1>0 DEF Placement, InService, Held
<1>7. CASE reply_to[w] = None
  BY <1>1, <1>2, <1>4, <1>5, <1>6, <1>7
<1>8. CASE reply_to[w] # None
  <2>1. PICK c \in Clients : reply_to[w] = c
    BY <1>0, <1>8 DEF TypeOK
  <2>2. w \in Content(Requests) \/ Held(w) \/ w \in Content(c)
    BY <1>0, <1>8, <2>1 DEF Kept, Held
  <2>3. InQueue(Requests, w) + Cardinality(Holders(w)) + InQueue(c, w) = 1
    BY <1>1, <1>2, <1>5, <1>6, <2>2
  <2> QED
    BY <1>4, <1>8, <2>1, <2>3
<1> QED
  BY <1>7, <1>8

\* Works are conserved in every reachable state.
LEMMA Conservation == Spec => []Conserved
<1>1. IInv /\ Conserved /\ [Next]_vars => Conserved'
  BY ConservedWorker, ConservedClient, ConservedMain, ConservedStutter DEF Next
<1> QED
  BY <1>1, ConservedInit, Invariance, PTL DEF Spec

\* A submitted work is in exactly one of the request queue, the hands of one
\* worker and the finished queue of the client that submitted it, and nr_running
\* counts the client's works, whatever raw_queue_put, raw_queue_get and the
\* threads between a mutex and a semaphore do.
THEOREM WorksConserved == Spec => []WorkConservation
BY Conservation, Invariance, ConservedGivesOnePlace, PTL

-----------------------------------------------------------------------------
(* The life of the pool.                                                   *)

\* A step of a thread that neither starts nor ends, and that leaves the request
\* queue and the owner alone.
LEMMA LifeFrame ==
  ASSUME Life, UNCHANGED <<init_cleanup_sem, pills, alive>>, pc'[Main] = pc[Main],
         pri0_queue'[Requests] = pri0_queue[Requests], pri_heap'[Requests] = pri_heap[Requests],
         \A t \in Workers : cur'[t] = Pill <=> cur[t] = Pill,
         \A t \in Workers : \A x \in {"none", "init", "gone"} : pc'[t] = x <=> pc[t] = x,
         \A c \in Clients : pc'[c] \in {"uninit", "gone"} <=> pc[c] \in {"uninit", "gone"},
         \A c \in Clients : pc'[c] = "post" => pc[c] = "post"
  PROVE  Life'
<1>1. /\ Queued(Pill)' <=> Queued(Pill)
      /\ Held(Pill)' <=> Held(Pill)
      /\ Content(Requests)' = Content(Requests)
      /\ Starting' = Starting /\ Stopping' = Stopping
  BY DEF Queued, Held, Content, Elems, Starting, Stopping
<1>2. InitTurn'
  BY <1>1 DEF Life, InitTurn
<1>3. PillTurn'
  BY <1>1 DEF Life, PillTurn
<1>4. GoneCount'
  <2>1. {t \in Workers : pc'[t] = "gone"} = {t \in Workers : pc[t] = "gone"}
    OBVIOUS
  <2> QED
    BY <2>1 DEF Life, GoneCount
<1>5. Drained'
  BY <1>1 DEF Life, Drained
<1>6. AliveExact'
  BY DEF Life, AliveExact
<1> QED
  BY <1>2, <1>3, <1>4, <1>5, <1>6 DEF Life

LEMMA GoneFinite ==
  /\ IsFiniteSet({t \in Workers : pc[t] = "gone"})
  /\ Cardinality({t \in Workers : pc[t] = "gone"}) \in Nat
<1>1. IsFiniteSet({t \in Workers : pc[t] = "gone"})
  BY FS_Subset, WorkQueueAssumption
<1> QED
  BY <1>1, FS_CardinalityType

LEMMA LifeInit == Init => Life
<1> SUFFICES ASSUME Init PROVE Life
  OBVIOUS
<1> USE ConstantTypes, Membership
<1>1. InitTurn
  BY DEF Init, InitTurn, Starting, Stopping
<1>2. ~Queued(Pill) /\ ~Held(Pill)
  BY DEF Init, Queued, Elems, Held
<1>3. PillTurn
  BY <1>2 DEF Init, PillTurn
<1>4. GoneCount
  <2>1. {t \in Workers : pc[t] = "gone"} = {}
    BY DEF Init
  <2>2. pc[Main] = "create" /\ pills = 0
    BY DEF Init
  <2> QED
    BY <2>1, <2>2, FS_EmptySet DEF GoneCount
<1>5. Drained
  BY DEF Init, Drained, Stopping
<1>6. AliveExact
  BY DEF Init, AliveExact
<1> QED
  BY <1>1, <1>3, <1>4, <1>5, <1>6 DEF Life

\* The pill is not taken before its own sem_post: the works in front of it
\* account for every worker that has passed the semaphore.
LEMMA PillNotStolen ==
  ASSUME IInv, Conserved, Life, NEW t \in Workers, pc[t] = "do_get",
         RawQueueDoGet(Requests, Pill)
  PROVE  /\ pc[Main] # "post" /\ Queued(Pill)
         /\ pri0_queue'[Requests] = <<>> /\ pri_heap'[Requests] = {}
<1> USE ConstantTypes, Membership
<1> DEFINE Q == pri0_queue[Requests]
<1>0. TypeOK /\ Control /\ SemCount /\ PillTurn /\ Posting /\ Q \in Seq(Items)
  BY DEF IInv, Life, Conserved, TypeOK
<1>1. /\ pri_heap[Requests] = {} /\ Q # <<>> /\ Pill = Head(Q)
      /\ pri0_queue'[Requests] = Tail(Q) /\ pri_heap'[Requests] = pri_heap[Requests]
  <2>1. pri_heap[Requests] = {}
    BY <1>0 DEF RawQueueDoGet, HeapTop, TypeOK
  <2> QED
    BY <1>0, <2>1 DEF RawQueueDoGet, TypeOK
<1>2. Len(Q) = 1
  BY <1>0, <1>1, TailElems DEF PillTurn
<1>3. Tail(Q) = <<>>
  BY <1>0, <1>1, <1>2, TailElems
<1>4. Queued(Pill)
  BY <1>0, <1>1, TailElems DEF Queued
<1>5. ASSUME pc[Main] = "post"
      PROVE  FALSE
  <2>1. t \in Getters(Requests) /\ Main \in Posters(Requests)
    BY <1>0, <1>5 DEF Getters, Posters, Control, Posting
  <2>2. IsFiniteSet(Getters(Requests)) /\ IsFiniteSet(Posters(Requests))
    BY ThreadsFinite DEF Getters, Posters
  <2>3. /\ Cardinality(Getters(Requests)) \in Nat /\ Cardinality(Getters(Requests)) # 0
        /\ Cardinality(Posters(Requests)) \in Nat /\ Cardinality(Posters(Requests)) # 0
    BY <2>1, <2>2, FS_EmptySet, FS_CardinalityType
  <2>4. queue_sem[Requests] + Cardinality(Getters(Requests)) + Cardinality(Posters(Requests)) = 1
    <3>1. Cardinality(pri_heap[Requests]) = 0
      BY <1>1, FS_EmptySet
    <3>2. queue_sem[Requests] + Cardinality(Getters(Requests)) + Cardinality(Posters(Requests))
            = Len(Q) + Cardinality(pri_heap[Requests])
      BY <1>0 DEF SemCount
    <3> QED
      BY <1>2, <3>1, <3>2
  <2>5. queue_sem[Requests] \in Nat
    BY <1>0 DEF TypeOK
  <2> QED
    BY <2>3, <2>4, <2>5
<1> QED
  BY <1>1, <1>3, <1>4, <1>5

\* A worker's steps.
LEMMA LifeWorker ==
  ASSUME IInv, Conserved, Life, NEW t \in Workers, WorkerStep(t)
  PROVE  Life'
<1> USE ConstantTypes, Membership
<1>0. /\ TypeOK /\ Control /\ Placement /\ Posting
      /\ InitTurn /\ PillTurn /\ GoneCount /\ Drained /\ AliveExact
  BY DEF IInv, Conserved, Life
<1>1. CASE WorkerInit(t)
  <2>1. pc[t] = "init" /\ pc'[t] = "sem_wait" /\ \A u \in Threads \ {t} : pc'[u] = pc[u]
    BY <1>0, <1>1, GotoFacts DEF WorkerInit
  <2>2. /\ pc[Main] = "init_wait" /\ init_cleanup_sem = 0 /\ init_cleanup_sem' = 1
        /\ UNCHANGED <<pri0_queue, pri_heap, cur, pills, alive>>
    BY <1>0, <1>1, <2>1 DEF WorkerInit, InitTurn, queueVars
  <2>3. InitTurn'
    BY <1>0, <2>1, <2>2 DEF InitTurn, Starting, Stopping
  <2>4. PillTurn'
    BY <1>0, <2>1, <2>2 DEF PillTurn, Queued, Held, Elems
  <2>5. GoneCount'
    <3>1. {u \in Workers : pc'[u] = "gone"} = {u \in Workers : pc[u] = "gone"}
      BY <2>1
    <3> QED
      BY <1>0, <2>1, <2>2, <3>1 DEF GoneCount
  <2>6. Drained' /\ AliveExact'
    BY <1>0, <2>1, <2>2 DEF Drained, Stopping, AliveExact
  <2> QED
    BY <2>3, <2>4, <2>5, <2>6 DEF Life
<1>2. CASE WorkerSemWait(t)
  <2>1. pc[t] = "sem_wait" /\ pc'[t] = "do_get" /\ \A u \in Threads \ {t} : pc'[u] = pc[u]
    BY <1>0, <1>2, GotoFacts DEF WorkerSemWait
  <2> QED
    BY <1>2, <2>1, LifeFrame DEF WorkerSemWait, queueVars
<1>3. CASE WorkerDoGet(t)
  <2> PICK w \in Items : RawQueueDoGet(Requests, w) /\ cur' = [cur EXCEPT ![t] = w]
    BY <1>3 DEF WorkerDoGet
  <2> DEFINE Q == pri0_queue[Requests]
             R == pri0_queue'[Requests]
  <2>1. pc[t] = "do_get" /\ pc'[t] = "go" /\ \A u \in Threads \ {t} : pc'[u] = pc[u]
    BY <1>0, <1>3, GotoFacts DEF WorkerDoGet
  <2>2. UNCHANGED <<alive, init_cleanup_sem, pills>> /\ Q \in Seq(Items)
    BY <1>0, <1>3 DEF WorkerDoGet, TypeOK
  <2>3. cur'[t] = w /\ cur[t] = None /\ \A u \in Workers \ {t} : cur'[u] = cur[u]
    BY <1>0, <2>1 DEF TypeOK, Control
  <2>4. Content(Requests)' \subseteq Content(Requests)
    BY <1>0, GetContent DEF Placement
  <2>5. InitTurn'
    BY <1>0, <2>1, <2>2 DEF InitTurn, Starting, Stopping
  <2>6. GoneCount'
    <3>1. {u \in Workers : pc'[u] = "gone"} = {u \in Workers : pc[u] = "gone"}
      BY <2>1
    <3> QED
      BY <1>0, <2>1, <2>2, <3>1 DEF GoneCount
  <2>7. AliveExact'
    BY <1>0, <2>1, <2>2 DEF AliveExact
  <2>8. CASE w = Pill
    <3>1. pc[Main] # "post" /\ Queued(Pill) /\ R = <<>> /\ pri_heap'[Requests] = {}
      BY <2>1, <2>8, PillNotStolen
    <3>2. ~Held(Pill) /\ pc[Main] = "cleanup_wait" /\ init_cleanup_sem = 0
      BY <1>0, <3>1 DEF PillTurn
    <3>3. Queued(Pill)' = FALSE /\ Held(Pill)' = TRUE /\ Content(Requests)' = {}
      BY <2>3, <2>8, <3>1 DEF Queued, Held, Content, Elems
    <3>4. \A u, v \in Workers : cur'[u] = Pill /\ cur'[v] = Pill => u = v
      BY <2>3, <3>2 DEF Held
    <3>5. PillTurn'
      BY <2>1, <2>2, <3>1, <3>2, <3>3, <3>4 DEF PillTurn
    <3>6. Drained'
      BY <1>0, <2>1, <2>2, <3>2, <3>3 DEF Drained, Stopping
    <3> QED
      BY <2>5, <2>6, <2>7, <3>5, <3>6 DEF Life
  <2>9. CASE w # Pill
    <3>1. Held(Pill)' <=> Held(Pill)
      BY <2>3, <2>9 DEF Held
    <3>2. /\ Queued(Pill)' <=> Queued(Pill)
          /\ \A i \in DOMAIN R : R[i] = Pill => i = Len(R)
      <4>1. CASE pri_heap[Requests] = {}
        <5>1. Q # <<>> /\ w = Head(Q) /\ R = Tail(Q)
          BY <1>0, <4>1 DEF RawQueueDoGet, TypeOK
        <5>2. Elems(Q) = Elems(R) \cup {w}
          BY <2>2, <5>1, TailElems
        <5>3. \A i \in DOMAIN R : R[i] = Pill => i = Len(R)
          BY <1>0, <2>2, <5>1, TailElems DEF PillTurn
        <5> QED
          BY <2>9, <5>2, <5>3 DEF Queued, Elems
      <4>2. CASE pri_heap[Requests] # {}
        <5>1. R = Q
          BY <4>2 DEF RawQueueDoGet
        <5> QED
          BY <1>0, <5>1 DEF Queued, Elems, PillTurn
      <4> QED
        BY <4>1, <4>2
    <3>3. \A u, v \in Workers : cur'[u] = Pill /\ cur'[v] = Pill => u = v
      BY <1>0, <2>3, <2>9 DEF PillTurn
    <3>4. PillTurn'
      BY <1>0, <2>1, <2>2, <3>1, <3>2, <3>3 DEF PillTurn
    <3>5. Drained'
      BY <1>0, <2>1, <2>2, <2>4, <3>2 DEF Drained, Stopping
    <3> QED
      BY <2>5, <2>6, <2>7, <3>4, <3>5 DEF Life
  <2> QED
    BY <2>8, <2>9
<1>4. CASE WorkerReply(t)
  <2>1. pc[t] = "go" /\ pc'[t] = "post" /\ \A u \in Threads \ {t} : pc'[u] = pc[u]
    BY <1>0, <1>4, GotoFacts DEF WorkerReply
  <2>2. /\ pri0_queue'[Requests] = pri0_queue[Requests] /\ pri_heap'[Requests] = pri_heap[Requests]
    <3>1. reply_to[cur[t]] \in Clients
      BY <1>0, <1>4 DEF WorkerReply, Placement, InService
    <3> QED
      BY <1>0, <1>4, <3>1 DEF WorkerReply, RawQueueInsert, TypeOK
  <2>3. \A u \in Workers : cur'[u] = Pill <=> cur[u] = Pill
    BY <1>0, <1>4 DEF WorkerReply, TypeOK
  <2> QED
    BY <1>4, <2>1, <2>2, <2>3, LifeFrame DEF WorkerReply
<1>5. CASE WorkerReplyPost(t)
  <2>1. pc[t] = "post" /\ pc'[t] = "sem_wait" /\ \A u \in Threads \ {t} : pc'[u] = pc[u]
    BY <1>0, <1>5, GotoFacts DEF WorkerReplyPost
  <2> QED
    BY <1>5, <2>1, LifeFrame DEF WorkerReplyPost, queueVars
<1>6. CASE WorkerSignalFinish(t)
  <2>1. pc[t] = "go" /\ pc'[t] = "gone" /\ \A u \in Threads \ {t} : pc'[u] = pc[u]
    BY <1>0, <1>6, GotoFacts DEF WorkerSignalFinish
  <2>2. /\ cur[t] = Pill /\ cur'[t] = None /\ \A u \in Workers \ {t} : cur'[u] = cur[u]
        /\ UNCHANGED <<pri0_queue, pri_heap, alive, pills>> /\ init_cleanup_sem' = init_cleanup_sem + 1
    BY <1>0, <1>6 DEF WorkerSignalFinish, TypeOK, queueVars
  <2>3. Held(Pill) /\ ~Queued(Pill) /\ pc[Main] = "cleanup_wait" /\ init_cleanup_sem = 0
    BY <1>0, <2>2 DEF PillTurn, Held
  <2>4. Held(Pill)' = FALSE /\ Queued(Pill)' = Queued(Pill) /\ Content(Requests)' = Content(Requests)
    BY <1>0, <2>2 DEF PillTurn, Held, Queued, Content, Elems
  <2>5. InitTurn'
    BY <1>0, <2>1, <2>2, <2>3 DEF InitTurn, Starting, Stopping
  <2>6. PillTurn'
    BY <1>0, <2>1, <2>2, <2>3, <2>4 DEF PillTurn, Held
  <2>7. GoneCount'
    <3> DEFINE old == {u \in Workers : pc[u] = "gone"}
               new == {u \in Workers : pc'[u] = "gone"}
    <3>1. new = old \cup {t} /\ t \notin old
      BY <2>1
    <3>2. IsFiniteSet(old) /\ Cardinality(old) = pills
      BY <1>0, <2>3, GoneFinite DEF GoneCount, TypeOK
    <3>3. Cardinality(new) = pills + 1
      <4> HIDE DEF old, new
      <4> QED
        BY <3>1, <3>2, FS_AddElement
    <3> QED
      BY <2>1, <2>2, <2>3, <3>3 DEF GoneCount
  <2>8. Drained'
    BY <1>0, <2>1, <2>2, <2>3, <2>4 DEF Drained, Stopping
  <2>9. AliveExact'
    BY <1>0, <2>1, <2>2 DEF AliveExact
  <2> QED
    BY <2>5, <2>6, <2>7, <2>8, <2>9 DEF Life
<1> QED
  BY <1>1, <1>2, <1>3, <1>4, <1>5, <1>6 DEF WorkerStep

\* A client's steps.
LEMMA LifeClient ==
  ASSUME IInv, Conserved, Life, NEW c \in Clients, ClientStep(c) \/ ClientCall(c)
  PROVE  Life'
<1> USE ConstantTypes, Membership
<1>0. /\ TypeOK /\ Control /\ Placement /\ Posting
      /\ InitTurn /\ PillTurn /\ GoneCount /\ Drained /\ AliveExact
  BY DEF IInv, Conserved, Life
<1>1. CASE WorkQueueInit(c) \/ WorkQueueCleanup(c)
  <2>1. /\ pc[c] # "post" /\ pc'[c] \in {"idle", "gone"} /\ (pc[c] = "uninit" \/ pc'[c] = "gone")
        /\ alive'[c] = (pc'[c] = "idle") /\ \A u \in Threads \ {c} : pc'[u] = pc[u]
        /\ \A r \in RawQueues \ {c} : alive'[r] = alive[r]
    <3>1. CASE WorkQueueInit(c)
      <4>1. /\ pc[c] = "uninit" /\ pc'[c] = "idle" /\ \A u \in Threads \ {c} : pc'[u] = pc[u]
        BY <1>0, <3>1, GotoFacts DEF WorkQueueInit
      <4>2. alive'[c] = TRUE /\ \A r \in RawQueues \ {c} : alive'[r] = alive[r]
        BY <1>0, <3>1 DEF WorkQueueInit, TypeOK
      <4> QED
        BY <4>1, <4>2
    <3>2. CASE WorkQueueCleanup(c)
      <4>1. /\ pc[c] = "idle" /\ pc'[c] = "gone" /\ \A u \in Threads \ {c} : pc'[u] = pc[u]
        BY <1>0, <3>2, GotoFacts DEF WorkQueueCleanup
      <4>2. alive'[c] = FALSE /\ \A r \in RawQueues \ {c} : alive'[r] = alive[r]
        BY <1>0, <3>2 DEF WorkQueueCleanup, TypeOK
      <4> QED
        BY <4>1, <4>2
    <3> QED
      BY <1>1, <3>1, <3>2
  <2>2. UNCHANGED <<pri0_queue, pri_heap, cur, init_cleanup_sem, pills>>
    BY <1>1 DEF WorkQueueInit, WorkQueueCleanup, queueVars
  <2>3. InitTurn'
    BY <1>0, <2>1, <2>2 DEF InitTurn, Starting, Stopping
  <2>4. PillTurn'
    BY <1>0, <2>1, <2>2 DEF PillTurn, Queued, Held, Elems
  <2>5. GoneCount'
    <3>1. {u \in Workers : pc'[u] = "gone"} = {u \in Workers : pc[u] = "gone"}
      BY <2>1
    <3> QED
      BY <1>0, <2>1, <2>2, <3>1 DEF GoneCount
  <2>6. Drained'
    BY <1>0, <2>1, <2>2 DEF Drained, Stopping, Queued, Content, Elems
  <2>7. AliveExact'
    BY <1>0, <2>1 DEF AliveExact
  <2> QED
    BY <2>3, <2>4, <2>5, <2>6, <2>7 DEF Life
<1>2. CASE WorkWait(c) \/ WorkTryWait(c) \/ WorkWaitSem(c) \/ WorkSubmitPost(c)
  <2>1. /\ pc[c] \notin {"uninit", "gone"} /\ pc'[c] \in {"sem_wait", "do_get", "idle"}
        /\ \A u \in Threads \ {c} : pc'[u] = pc[u]
    BY <1>0, <1>2, GotoFacts DEF WorkWait, WorkTryWait, WorkWaitSem, WorkSubmitPost
  <2>2. UNCHANGED <<pri0_queue, pri_heap, cur, init_cleanup_sem, pills, alive>>
    BY <1>2 DEF WorkWait, WorkTryWait, WorkWaitSem, WorkSubmitPost, queueVars
  <2> QED
    BY <2>1, <2>2, LifeFrame
<1>3. CASE WorkWaitDoGet(c)
  <2>1. pc[c] = "do_get" /\ pc'[c] = "idle" /\ \A u \in Threads \ {c} : pc'[u] = pc[u]
    BY <1>0, <1>3, GotoFacts DEF WorkWaitDoGet
  <2>2. pri0_queue'[Requests] = pri0_queue[Requests] /\ pri_heap'[Requests] = pri_heap[Requests]
    BY <1>0, <1>3 DEF WorkWaitDoGet, RawQueueDoGet, TypeOK
  <2> QED
    BY <1>3, <2>1, <2>2, LifeFrame DEF WorkWaitDoGet
<1>4. ASSUME NEW w \in Works, WorkSubmit(c, w)
      PROVE  Life'
  <2> DEFINE Q == pri0_queue[Requests]
             R == pri0_queue'[Requests]
  <2>1. pc[c] = "idle" /\ pc'[c] = "post" /\ \A u \in Threads \ {c} : pc'[u] = pc[u]
    BY <1>0, <1>4, GotoFacts DEF WorkSubmit
  <2>2. /\ pc[Main] = "run" /\ RawQueueInsert(Requests, w) /\ w \in Items /\ Q \in Seq(Items)
        /\ UNCHANGED <<alive, init_cleanup_sem, cur, pills>>
    BY <1>0, <1>4 DEF WorkSubmit, Items, TypeOK
  <2>3. R = Q \/ R = Append(Q, w)
    BY <1>0, <2>2 DEF RawQueueInsert, TypeOK
  <2>4. Elems(R) \subseteq Elems(Q) \cup {w}
    <3>1. Elems(Append(Q, w)) = Elems(Q) \cup {w}
      BY <2>2, AppendElems
    <3> QED
      BY <2>3, <3>1
  <2>5. ~Queued(Pill)' /\ ~Held(Pill)'
    BY <1>0, <2>2, <2>4 DEF PillTurn, Queued, Held, Elems
  <2>6. \A i \in DOMAIN R : R[i] # Pill
    BY <2>5 DEF Queued, Elems
  <2>7. InitTurn'
    BY <1>0, <2>1, <2>2 DEF InitTurn, Starting, Stopping
  <2>8. PillTurn'
    BY <1>0, <2>1, <2>2, <2>5, <2>6 DEF PillTurn, Held
  <2>9. GoneCount'
    <3>1. {u \in Workers : pc'[u] = "gone"} = {u \in Workers : pc[u] = "gone"}
      BY <2>1
    <3> QED
      BY <1>0, <2>1, <2>2, <3>1 DEF GoneCount
  <2>10. Drained' /\ AliveExact'
    BY <1>0, <2>1, <2>2 DEF Drained, Stopping, AliveExact
  <2> QED
    BY <2>7, <2>8, <2>9, <2>10 DEF Life
<1> QED
  BY <1>1, <1>2, <1>3, <1>4 DEF ClientStep, ClientCall

\* The steps of the pool's owner.
LEMMA LifeMain ==
  ASSUME IInv, Conserved, Life, MainStep \/ PoolCleanup
  PROVE  Life'
<1> USE ConstantTypes, Membership
<1>0. /\ TypeOK /\ Control /\ Placement /\ Posting
      /\ InitTurn /\ PillTurn /\ GoneCount /\ Drained /\ AliveExact
  BY DEF IInv, Conserved, Life
<1>1. ASSUME NEW t \in Workers, PoolCreate(t)
      PROVE  Life'
  <2>1. /\ pc[Main] = "create" /\ pc[t] = "none" /\ pc'[t] = "init" /\ pc'[Main] = "init_wait"
        /\ \A u \in Threads \ {t, Main} : pc'[u] = pc[u]
        /\ UNCHANGED <<pri0_queue, pri_heap, cur, init_cleanup_sem, pills, alive>>
    BY <1>0, <1>1 DEF PoolCreate, TypeOK, queueVars
  <2>2. InitTurn'
    BY <1>0, <2>1 DEF InitTurn, PillTurn, Starting, Stopping
  <2>3. PillTurn'
    BY <1>0, <2>1 DEF PillTurn, Queued, Held, Elems
  <2>4. GoneCount'
    <3>1. {u \in Workers : pc'[u] = "gone"} = {u \in Workers : pc[u] = "gone"}
      BY <2>1
    <3> QED
      BY <1>0, <2>1, <3>1 DEF GoneCount
  <2>5. Drained' /\ AliveExact'
    BY <1>0, <2>1 DEF Drained, Stopping, AliveExact
  <2> QED
    BY <2>2, <2>3, <2>4, <2>5 DEF Life
<1>2. ASSUME \A u \in Threads \ {Main} : pc'[u] = pc[u]
      PROVE  {u \in Workers : pc'[u] = "gone"} = {u \in Workers : pc[u] = "gone"}
  BY <1>2
<1>3. CASE PoolInitWait
  <2>1. /\ pc[Main] = "init_wait" /\ pc'[Main] = (IF Created = Workers THEN "run" ELSE "create")
        /\ \A u \in Threads \ {Main} : pc'[u] = pc[u]
    BY <1>0, <1>3, GotoFacts DEF PoolInitWait
  <2>2. /\ UNCHANGED <<pri0_queue, pri_heap, cur, pills, alive>> /\ init_cleanup_sem = 1 /\ init_cleanup_sem' = 0
    BY <1>0, <1>3, <2>1 DEF PoolInitWait, InitTurn, queueVars
  <2>3. InitTurn'
    BY <1>0, <2>1, <2>2 DEF InitTurn, Starting, Stopping, Created
  <2>4. PillTurn'
    BY <1>0, <2>1, <2>2 DEF PillTurn, Queued, Held, Elems
  <2>5. GoneCount'
    BY <1>0, <1>2, <2>1, <2>2 DEF GoneCount
  <2>6. Drained' /\ AliveExact'
    BY <1>0, <2>1, <2>2 DEF Drained, Stopping, AliveExact
  <2> QED
    BY <2>3, <2>4, <2>5, <2>6 DEF Life
<1>4. CASE PoolCleanup
  <2>1. /\ pc[Main] = "run" /\ pc'[Main] = "put" /\ \A u \in Threads \ {Main} : pc'[u] = pc[u]
    BY <1>0, <1>4, GotoFacts DEF PoolCleanup
  <2>2. /\ UNCHANGED <<pri0_queue, pri_heap, cur, init_cleanup_sem, pills, alive>>
        /\ \A c \in Clients : pc[c] # "post"
    BY <1>4 DEF PoolCleanup, queueVars
  <2>3. InitTurn'
    BY <1>0, <2>1, <2>2 DEF InitTurn, Starting, Stopping
  <2>4. PillTurn'
    BY <1>0, <2>1, <2>2 DEF PillTurn, Queued, Held, Elems
  <2>5. GoneCount'
    BY <1>0, <1>2, <2>1, <2>2 DEF GoneCount
  <2>6. Drained' /\ AliveExact'
    BY <1>0, <2>1, <2>2 DEF Drained, InitTurn, Stopping, AliveExact
  <2> QED
    BY <2>3, <2>4, <2>5, <2>6 DEF Life
<1>5. CASE PoolPutPill
  <2> DEFINE Q == pri0_queue[Requests]
             R == pri0_queue'[Requests]
  <2>1. /\ pc[Main] = "put" /\ pc'[Main] = "post" /\ \A u \in Threads \ {Main} : pc'[u] = pc[u]
    BY <1>0, <1>5, GotoFacts DEF PoolPutPill
  <2>2. /\ UNCHANGED <<cur, init_cleanup_sem, pills, alive>> /\ Q \in Seq(Items) /\ Pill \in Items
        /\ RawQueueInsert(Requests, Pill)
    BY <1>0, <1>5 DEF PoolPutPill, TypeOK, Items
  <2>3. R = Append(Q, Pill)
    BY <1>0, <2>2 DEF RawQueueInsert, ItemPriority, TypeOK
  <2>4. Content(Requests)' = Content(Requests) \cup {Pill}
    BY <1>0, <2>2, InsertContent
  <2>5. ~Queued(Pill) /\ ~Held(Pill)
    BY <1>0, <2>1 DEF PillTurn
  <2>6. \A i \in DOMAIN R : R[i] = Pill => i = Len(R)
    BY <2>2, <2>3, <2>5, AppendElems DEF Queued, Elems
  <2>7. Pill \in Elems(R)
    BY <2>2, <2>3, AppendElems
  <2>8. Queued(Pill)' /\ ~Held(Pill)'
    BY <2>2, <2>5, <2>7 DEF Queued, Held, Elems
  <2>9. InitTurn'
    BY <1>0, <2>1, <2>2 DEF InitTurn, Starting, Stopping
  <2>10. PillTurn'
    BY <1>0, <2>1, <2>2, <2>6, <2>8 DEF PillTurn
  <2>11. GoneCount'
    BY <1>0, <1>2, <2>1, <2>2 DEF GoneCount
  <2>12. Drained' /\ AliveExact'
    BY <1>0, <2>1, <2>2, <2>4 DEF Drained, Stopping, AliveExact
  <2> QED
    BY <2>9, <2>10, <2>11, <2>12 DEF Life
<1>6. CASE PoolPostPill
  <2>1. /\ pc[Main] = "post" /\ pc'[Main] = "cleanup_wait" /\ \A u \in Threads \ {Main} : pc'[u] = pc[u]
    BY <1>0, <1>6, GotoFacts DEF PoolPostPill
  <2>2. UNCHANGED <<pri0_queue, pri_heap, cur, init_cleanup_sem, pills, alive>>
    BY <1>6 DEF PoolPostPill, queueVars
  <2>3. init_cleanup_sem = 0 /\ Queued(Pill) /\ Queued(Pill)' = Queued(Pill)
        /\ Content(Requests)' = Content(Requests) /\ Held(Pill)' = Held(Pill)
    BY <1>0, <2>1, <2>2 DEF PillTurn, Queued, Elems, Content, Held
  <2>4. InitTurn'
    BY <1>0, <2>1, <2>2 DEF InitTurn, Starting, Stopping
  <2>5. PillTurn'
    BY <1>0, <2>1, <2>2, <2>3 DEF PillTurn
  <2>6. GoneCount'
    <3>1. pills \in Nat /\ Cardinality({u \in Workers : pc[u] = "gone"}) = pills + 0
      BY <1>0, <2>1 DEF GoneCount, TypeOK
    <3> QED
      BY <1>2, <2>1, <2>2, <2>3, <3>1 DEF GoneCount
  <2>7. Drained' /\ AliveExact'
    BY <1>0, <2>1, <2>2, <2>3 DEF Drained, Stopping, AliveExact
  <2> QED
    BY <2>4, <2>5, <2>6, <2>7 DEF Life
<1>7. CASE PoolCleanupWait
  <2>1. /\ pc[Main] = "cleanup_wait" /\ pc'[Main] \in {"join", "put"}
        /\ \A u \in Threads \ {Main} : pc'[u] = pc[u]
    BY <1>0, <1>7, GotoFacts DEF PoolCleanupWait
  <2>2. /\ UNCHANGED <<pri0_queue, pri_heap, cur, alive>> /\ pills' = pills + 1 /\ pills \in Nat
        /\ init_cleanup_sem = 1 /\ init_cleanup_sem' = 0
    BY <1>0, <1>7, <2>1 DEF PoolCleanupWait, PillTurn, queueVars, TypeOK
  <2>3. /\ ~Queued(Pill) /\ ~Held(Pill) /\ ~Queued(Pill)' /\ ~Held(Pill)'
        /\ Content(Requests)' = Content(Requests)
    BY <1>0, <2>1, <2>2 DEF PillTurn, Queued, Elems, Content, Held
  <2>4. InitTurn'
    BY <1>0, <2>1, <2>2 DEF InitTurn, Starting, Stopping
  <2>5. PillTurn'
    BY <1>0, <2>1, <2>2, <2>3 DEF PillTurn
  <2>6. GoneCount'
    <3>1. Cardinality({u \in Workers : pc[u] = "gone"}) = pills + 1
      BY <1>0, <2>1, <2>2 DEF GoneCount
    <3> QED
      BY <1>2, <2>1, <2>2, <3>1 DEF GoneCount
  <2>7. Drained' /\ AliveExact'
    BY <1>0, <2>1, <2>2, <2>3 DEF Drained, Stopping, AliveExact
  <2> QED
    BY <2>4, <2>5, <2>6, <2>7 DEF Life
<1>8. CASE PoolJoin
  <2>1. /\ pc[Main] = "join" /\ pc'[Main] = "done" /\ \A u \in Threads \ {Main} : pc'[u] = pc[u]
        /\ \A t \in Workers : pc[t] = "gone"
    BY <1>0, <1>8, GotoFacts DEF PoolJoin
  <2>2. /\ UNCHANGED <<pri0_queue, pri_heap, cur, init_cleanup_sem, pills>> /\ alive'[Requests] = FALSE
        /\ \A c \in Clients : alive'[c] = alive[c]
    BY <1>0, <1>8 DEF PoolJoin, queueVars, TypeOK
  <2>3. InitTurn'
    BY <1>0, <2>1, <2>2 DEF InitTurn, Starting, Stopping
  <2>4. PillTurn'
    BY <1>0, <2>1, <2>2 DEF PillTurn, Queued, Held, Elems
  <2>5. GoneCount'
    BY <1>0, <1>2, <2>1, <2>2 DEF GoneCount
  <2>6. Drained' /\ AliveExact'
    BY <1>0, <2>1, <2>2 DEF Drained, Stopping, AliveExact, Content, Elems
  <2> QED
    BY <2>3, <2>4, <2>5, <2>6 DEF Life
<1> QED
  BY <1>1, <1>3, <1>4, <1>5, <1>6, <1>7, <1>8 DEF MainStep

LEMMA LifeStutter == Life /\ UNCHANGED vars => Life'
BY LifeFrame DEF vars

\* A raw queue nobody has a work in is idle: its semaphore is down and no thread
\* is between the mutex and the semaphore.
LEMMA QueueIdle ==
  ASSUME IInv, NEW r \in RawQueues, Content(r) = {}
  PROVE  /\ Empty(r) /\ queue_sem[r] = 0
         /\ \A t \in Threads : q[t] = r => pc[t] \notin {"do_get", "post"}
<1>1. pri0_queue[r] \in Seq(Items) /\ queue_sem[r] \in Nat /\ SemCount
  BY DEF IInv, TypeOK
<1>2. pri_heap[r] = {} /\ Elems(pri0_queue[r]) = {}
  BY DEF Content
<1>3. pri0_queue[r] = <<>>
  BY <1>1, <1>2, TailElems
<1>4. IsFiniteSet(Getters(r)) /\ IsFiniteSet(Posters(r))
  BY ThreadsFinite DEF Getters, Posters
<1>5. Cardinality(Getters(r)) \in Nat /\ Cardinality(Posters(r)) \in Nat
  BY <1>4, FS_CardinalityType
<1>6. queue_sem[r] + Cardinality(Getters(r)) + Cardinality(Posters(r)) = 0
  <2>1. Cardinality(pri_heap[r]) = 0 /\ Len(pri0_queue[r]) = 0
    BY <1>2, <1>3, FS_EmptySet
  <2>2. queue_sem[r] + Cardinality(Getters(r)) + Cardinality(Posters(r))
          = Len(pri0_queue[r]) + Cardinality(pri_heap[r])
    BY <1>1 DEF SemCount
  <2> QED
    BY <2>1, <2>2
<1>7. queue_sem[r] = 0 /\ Cardinality(Getters(r)) = 0 /\ Cardinality(Posters(r)) = 0
  BY <1>1, <1>5, <1>6
<1>8. Getters(r) = {} /\ Posters(r) = {}
  BY <1>4, <1>7, FS_EmptySet
<1> QED
  BY <1>2, <1>3, <1>7, <1>8 DEF Empty, Getters, Posters

LEMMA LifeGivesPillScope == IInv /\ Life => PillScope
<1> SUFFICES ASSUME IInv, Life PROVE PillScope
  OBVIOUS
<1> DEFINE Q == pri0_queue[Requests]
           at == {i \in DOMAIN Q : Q[i] = Pill}
<1>0. PillTurn /\ GoneCount /\ TypeOK
  BY DEF Life, IInv
<1>1. Cardinality(Holders(Pill)) = IF Held(Pill) THEN 1 ELSE 0
  BY <1>0, HolderCount DEF PillTurn
<1>2. Occurrences(Q, Pill) = IF Queued(Pill) THEN 1 ELSE 0
  <2>1. CASE Queued(Pill)
    <3>1. PICK k \in DOMAIN Q : Q[k] = Pill
      BY <2>1 DEF Queued, Elems
    <3>2. at = {k}
      BY <1>0, <3>1 DEF PillTurn
    <3> QED
      BY <2>1, <3>2, FS_Singleton DEF Occurrences
  <2>2. CASE ~Queued(Pill)
    <3>1. at = {}
      BY <2>2 DEF Queued, Elems
    <3> QED
      BY <2>2, <3>1, FS_EmptySet DEF Occurrences
  <2> QED
    BY <2>1, <2>2
<1>3. Occurrences(Q, Pill) + Cardinality(Holders(Pill))
        = (IF \/ pc[Main] = "post"
              \/ pc[Main] = "cleanup_wait" /\ init_cleanup_sem = 0
           THEN 1 ELSE 0)
  <2>1. CASE pc[Main] = "post"
    BY <1>0, <1>1, <1>2, <2>1 DEF PillTurn
  <2>2. CASE pc[Main] = "cleanup_wait"
    BY <1>0, <1>1, <1>2, <2>2 DEF PillTurn
  <2>3. CASE pc[Main] \notin {"post", "cleanup_wait"}
    BY <1>0, <1>1, <1>2, <2>3 DEF PillTurn
  <2> QED
    BY <2>1, <2>2, <2>3
<1> QED
  BY <1>0, <1>3 DEF PillScope, GoneCount

LEMMA LifeGivesNoUseAfterCleanup == IInv /\ Conserved /\ Life => NoUseAfterCleanup
<1> SUFFICES ASSUME IInv, Conserved, Life PROVE NoUseAfterCleanup
  OBVIOUS
<1> USE ConstantTypes, Membership
<1>0. /\ TypeOK /\ Control /\ Placement /\ Posting /\ NrRunningExact
      /\ PillTurn /\ Drained /\ AliveExact
  BY DEF IInv, Conserved, Life
<1> SUFFICES ASSUME NEW r \in RawQueues, ~alive[r]
             PROVE  /\ Empty(r) /\ queue_sem[r] = 0
                    /\ \A t \in Threads : pc[t] \in {"sem_wait", "do_get", "post"} => q[t] # r
                    /\ \A t \in Workers : cur[t] \in Works => reply_to[cur[t]] # r
  BY DEF NoUseAfterCleanup
<1>1. \A t \in Threads : t \in Workers \/ t \in Clients \/ t = Main
  BY DEF Threads
<1>2. pc[Main] # "sem_wait" /\ pc[Main] # "do_get"
  BY <1>0 DEF TypeOK, MainPc
<1>3. CASE r \in Clients
  <2>1. pc[r] \in {"uninit", "gone"} /\ nr_running[r] = 0
    BY <1>0, <1>3 DEF AliveExact, Posting
  <2>2. \A w \in Works : reply_to[w] # r
    <3>1. Cardinality({w \in Works : reply_to[w] = r}) = 0
      BY <1>0, <1>3, <2>1 DEF NrRunningExact
    <3>2. {w \in Works : reply_to[w] = r} = {}
      BY <3>1, WorksOfFinite, FS_EmptySet
    <3> QED
      BY <3>2
  <2>3. Content(r) = {}
    BY <1>0, <1>3, <2>2 DEF Placement, InFinished
  <2>4. /\ Empty(r) /\ queue_sem[r] = 0
        /\ \A t \in Threads : q[t] = r => pc[t] \notin {"do_get", "post"}
    BY <2>3, QueueIdle
  <2>5. \A t \in Threads : pc[t] = "sem_wait" => q[t] # r
    BY <1>0, <1>1, <1>2, <1>3, <2>1 DEF Control
  <2> QED
    BY <2>2, <2>4, <2>5
<1>4. CASE r = Requests
  <2>1. pc[Main] = "done" /\ \A t \in Workers : pc[t] = "gone"
    BY <1>0, <1>4 DEF AliveExact, Drained
  <2>2. \A w \in Works : w \notin Content(Requests)
    BY <1>0, <2>1 DEF Drained, Stopping
  <2>3. Pill \notin Content(Requests)
    BY <1>0, <2>1 DEF PillTurn, Queued, Content, TypeOK
  <2>4. Content(Requests) \subseteq Items
    BY <1>0 DEF Content, Elems, TypeOK, Items
  <2>5. Content(r) = {}
    BY <1>4, <2>2, <2>3, <2>4 DEF Items
  <2>6. /\ Empty(r) /\ queue_sem[r] = 0
        /\ \A t \in Threads : q[t] = r => pc[t] \notin {"do_get", "post"}
    BY <2>5, QueueIdle
  <2>7. \A t \in Threads : pc[t] = "sem_wait" => q[t] # r
    BY <1>0, <1>1, <1>4, <2>1 DEF Control
  <2>8. \A t \in Workers : cur[t] \in Works => reply_to[cur[t]] # r
    BY <1>0, <1>4 DEF Placement, InService
  <2> QED
    BY <2>6, <2>7, <2>8
<1> QED
  BY <1>3, <1>4 DEF RawQueues

\* The life of the pool holds in every reachable state.
LEMMA LifeInvariance == Spec => []Life
<1>1. IInv /\ Conserved /\ Life /\ [Next]_vars => Life'
  BY LifeWorker, LifeClient, LifeMain, LifeStutter DEF Next
<1> QED
  BY <1>1, LifeInit, Invariance, Conservation, PTL DEF Spec

\* Threads are initialised one at a time and all before worker_pool_init returns;
\* the struct work on the stack of worker_pool_cleanup is out of everybody's hands
\* when a turn of its loop ends, and each turn ends one worker; no thread touches
\* a raw queue after raw_queue_cleanup, which found it empty.
THEOREM PoolLives == Spec => []PoolLifecycle
<1>1. Life => InitSerialized
  BY DEF Life, InitTurn, InitSerialized, Starting
<1>2. IInv /\ Conserved /\ Life => PoolLifecycle
  BY <1>1, LifeGivesPillScope, LifeGivesNoUseAfterCleanup DEF PoolLifecycle
<1> QED
  BY <1>2, Invariance, Conservation, LifeInvariance, PTL

-----------------------------------------------------------------------------
(* The pool implements its abstract specification.                         *)

LEMMA WithoutPillAppend ==
  ASSUME NEW s \in Seq(Items), NEW e \in Items, \A i \in DOMAIN s : s[i] # Pill
  PROVE  /\ WithoutPill(s) = s
         /\ WithoutPill(Append(s, e)) = IF e = Pill THEN s ELSE Append(s, e)
<1>1. WithoutPill(s) = s
  <2>1. s # <<>> => Len(s) \in DOMAIN s
    OBVIOUS
  <2> QED
    BY <2>1 DEF WithoutPill
<1> DEFINE a == Append(s, e)
<1>2. a # <<>> /\ Len(a) = Len(s) + 1 /\ a[Len(a)] = e
  BY AppendElems
<1>3. SubSeq(a, 1, Len(a) - 1) = s
  <2>1. Len(a) - 1 = Len(s) /\ a \in Seq(Items) /\ Len(s) \in Nat
    BY <1>2
  <2> DEFINE b == SubSeq(a, 1, Len(s))
  <2>2. b \in Seq(Items) /\ Len(b) = Len(s) /\ \A i \in 1..Len(s) : b[i] = a[i]
    OBVIOUS
  <2>3. \A i \in 1..Len(s) : a[i] = s[i]
    OBVIOUS
  <2> HIDE DEF a, b
  <2>4. b = s
    BY <2>2, <2>3
  <2> QED
    BY <2>1, <2>4 DEF b
<1> HIDE DEF a
<1>4. WithoutPill(a) = IF e = Pill THEN s ELSE a
  BY <1>2, <1>3 DEF WithoutPill
<1> QED
  BY <1>1, <1>4 DEF a

LEMMA WithoutPillTail ==
  ASSUME NEW s \in Seq(Items), s # <<>>, Head(s) # Pill
  PROVE  /\ WithoutPill(s) # <<>> /\ Head(WithoutPill(s)) = Head(s)
         /\ WithoutPill(Tail(s)) = Tail(WithoutPill(s))
<1> DEFINE n == Len(s)
           t == Tail(s)
<1>1. /\ n \in Nat /\ n > 0 /\ Head(s) = s[1] /\ t \in Seq(Items) /\ Len(t) = n - 1
      /\ \A i \in 1..(n - 1) : t[i] = s[i + 1]
  OBVIOUS
<1>2. CASE s[n] = Pill
  <2> DEFINE b == SubSeq(s, 1, n - 1)
             d == SubSeq(t, 1, n - 2)
  <2>1. n # 1
    BY <1>1, <1>2
  <2>2. t # <<>> /\ t[n - 1] = Pill
    BY <1>1, <1>2, <2>1
  <2>3. WithoutPill(s) = b /\ WithoutPill(t) = d
    BY <1>1, <1>2, <2>2 DEF WithoutPill
  <2>4. b \in Seq(Items) /\ Len(b) = n - 1 /\ \A i \in 1..(n - 1) : b[i] = s[i]
    BY <1>1
  <2>5. d \in Seq(Items) /\ Len(d) = n - 2 /\ \A i \in 1..(n - 2) : d[i] = t[i]
    BY <1>1, <2>1
  <2> HIDE DEF n, t, b, d
  <2>6. b # <<>> /\ Head(b) = s[1]
    BY <1>1, <2>1, <2>4
  <2>7. Tail(b) \in Seq(Items) /\ Len(Tail(b)) = n - 2 /\ \A i \in 1..(n - 2) : Tail(b)[i] = s[i + 1]
    BY <1>1, <2>1, <2>4, <2>6
  <2>8. Tail(b) = d
    BY <1>1, <2>1, <2>5, <2>7
  <2> QED
    BY <1>1, <2>3, <2>6, <2>8 DEF t
<1>3. CASE s[n] # Pill
  <2>1. WithoutPill(s) = s
    BY <1>3 DEF WithoutPill
  <2>2. WithoutPill(t) = t
    <3>1. t # <<>> => Len(t) \in 1..(n - 1) /\ Len(t) + 1 = n
      BY <1>1
    <3>2. t # <<>> => t[Len(t)] # Pill
      BY <1>1, <1>3, <3>1
    <3> HIDE DEF t
    <3> QED
      BY <3>2 DEF WithoutPill
  <2> QED
    BY <2>1, <2>2
<1> QED
  BY <1>2, <1>3

\* In terms of the mapping: what is behind fifo, serving and finished.
Serving == {cur[t] : t \in Workers} \cap Works
Replies == [c \in Clients |-> Content(c)]
Waiting == WithoutPill(pri0_queue[Requests])

LEMMA MapInit == Init => Pool!Init
<1> SUFFICES ASSUME Init PROVE Pool!Init
  OBVIOUS
<1> USE ConstantTypes, Membership
<1>1. pri0_queue[Requests] = <<>> /\ pri_heap[Requests] = {}
  BY DEF Init
<1>2. WithoutPill(pri0_queue[Requests]) = <<>>
  BY <1>1 DEF WithoutPill
<1>3. {cur[t] : t \in Workers} \cap Works = {}
  BY DEF Init
<1>4. [c \in Clients |-> {pri0_queue[c][i] : i \in DOMAIN pri0_queue[c]} \cup pri_heap[c]] = [c \in Clients |-> {}]
  BY DEF Init
<1> QED
  BY <1>1, <1>2, <1>3, <1>4 DEF Init, Pool!Init

LEMMA MapFrame ==
  ASSUME UNCHANGED <<pri0_queue, pri_heap, reply_to>>,
         \A t \in Workers : cur'[t] = cur[t] \/ (cur'[t] \notin Works /\ cur[t] \notin Works)
  PROVE  UNCHANGED Pool!vars
<1>1. Serving' = Serving
  BY DEF Serving
<1>2. Waiting' = Waiting /\ Replies' = Replies
  BY DEF Waiting, WithoutPill, Replies, Content, Elems
<1> QED
  BY <1>1, <1>2 DEF Pool!vars, Waiting, Serving, Replies, Content, Elems

\* work_submit, up to the unlock, is where the request is made.
LEMMA MapSubmit ==
  ASSUME IInv, Life, NEW c \in Clients, NEW w \in Works, WorkSubmit(c, w)
  PROVE  Pool!Submit(c, w)
<1> USE ConstantTypes, Membership
<1> DEFINE Q == pri0_queue[Requests]
<1>1. /\ reply_to[w] = None /\ reply_to' = [reply_to EXCEPT ![w] = c] /\ cur' = cur
      /\ pc[Main] = "run" /\ RawQueueInsert(Requests, w) /\ w \in Items
  BY DEF WorkSubmit, Idle, Items
<1>2. TypeOK /\ Q \in Seq(Items) /\ PillTurn
  BY DEF IInv, Life, TypeOK
<1>3. \A i \in DOMAIN Q : Q[i] # Pill
  BY <1>1, <1>2 DEF PillTurn, Queued, Elems
<1>4. WithoutPill(Q) = Q /\ WithoutPill(Append(Q, w)) = Append(Q, w)
  BY <1>1, <1>2, <1>3, WithoutPillAppend
<1>5. IF Priority[w] = 0 THEN Waiting' = Append(Waiting, w) /\ pri_heap'[Requests] = pri_heap[Requests]
                         ELSE pri_heap'[Requests] = pri_heap[Requests] \cup {w} /\ Waiting' = Waiting
  <2>1. ItemPriority(w) = Priority[w]
    BY DEF ItemPriority
  <2>2. CASE Priority[w] = 0
    <3>1. pri0_queue'[Requests] = Append(Q, w) /\ pri_heap' = pri_heap
      BY <1>1, <1>2, <2>1, <2>2 DEF RawQueueInsert, TypeOK
    <3> QED
      BY <1>4, <2>2, <3>1 DEF Waiting
  <2>3. CASE Priority[w] # 0
    <3>1. pri0_queue' = pri0_queue /\ pri_heap'[Requests] = pri_heap[Requests] \cup {w}
      BY <1>1, <1>2, <2>1, <2>3 DEF RawQueueInsert, TypeOK
    <3> QED
      BY <2>3, <3>1 DEF Waiting
  <2> QED
    BY <2>2, <2>3
<1>6. Serving' = Serving
  BY <1>1 DEF Serving
<1>7. Replies' = Replies
  <2>1. \A d \in Clients : Content(d)' = Content(d)
    BY <1>1, <1>2, InsertContent
  <2> QED
    BY <2>1 DEF Replies
<1> QED
  BY <1>1, <1>5, <1>6, <1>7 DEF Pool!Submit, Waiting, Serving, Replies, Content, Elems

\* raw_queue_do_get in a worker is where the request is taken, in the documented
\* order; taking the pill is nothing.
LEMMA MapServe ==
  ASSUME IInv, Conserved, Life, NEW t \in Workers, WorkerDoGet(t)
  PROVE  (\E w \in Works : Pool!Serve(w)) \/ UNCHANGED Pool!vars
<1> USE ConstantTypes, Membership
<1> DEFINE Q == pri0_queue[Requests]
<1> PICK w \in Items : RawQueueDoGet(Requests, w) /\ cur' = [cur EXCEPT ![t] = w]
  BY DEF WorkerDoGet
<1>1. TypeOK /\ Placement /\ Control /\ Q \in Seq(Items) /\ PillTurn
  BY DEF IInv, Life, TypeOK
<1>2. pc[t] = "do_get" /\ reply_to' = reply_to
  BY DEF WorkerDoGet
<1>3. cur'[t] = w /\ cur[t] = None /\ \A u \in Workers \ {t} : cur'[u] = cur[u]
  BY <1>1, <1>2 DEF TypeOK, Control
<1>4. Replies' = Replies
  <2>1. \A d \in Clients : Content(d)' = Content(d)
    BY <1>1, GetContent DEF Placement
  <2> QED
    BY <2>1 DEF Replies
<1>5. CASE w = Pill
  <2>1. /\ pri0_queue'[Requests] = <<>> /\ pri_heap'[Requests] = {}
    BY <1>2, <1>5, PillNotStolen
  <2>2. pri_heap[Requests] = {} /\ Q # <<>> /\ Pill = Head(Q)
    <3>1. pri_heap[Requests] = {}
      BY <1>1, <1>5 DEF RawQueueDoGet, HeapTop, TypeOK
    <3> QED
      BY <1>5, <3>1 DEF RawQueueDoGet
  <2>3. Len(Q) = 1 /\ Q[1] = Pill
    BY <1>1, <2>2, TailElems DEF PillTurn
  <2>4. Waiting = <<>> /\ Waiting' = <<>>
    <3>1. SubSeq(Q, 1, 0) = <<>>
      BY <1>1
    <3>2. WithoutPill(<<>>) = <<>>
      BY DEF WithoutPill
    <3>3. WithoutPill(Q) = <<>>
      BY <2>2, <2>3, <3>1 DEF WithoutPill
    <3> QED
      BY <2>1, <3>2, <3>3 DEF Waiting
  <2>5. Serving' = Serving
    BY <1>3, <1>5 DEF Serving
  <2> QED
    BY <1>2, <1>4, <2>1, <2>2, <2>4, <2>5 DEF Pool!vars, Waiting, Serving, Replies, Content, Elems
<1>6. CASE w # Pill
  <2>1. w \in Works /\ ItemPriority(w) = Priority[w]
    BY <1>6 DEF Items, ItemPriority
  <2>2. Serving' = Serving \cup {w}
    BY <1>3, <2>1 DEF Serving
  <2>3. CASE pri_heap[Requests] = {}
    <3>1. /\ Q # <<>> /\ w = Head(Q) /\ pri0_queue'[Requests] = Tail(Q)
          /\ pri_heap'[Requests] = pri_heap[Requests]
      BY <1>1, <2>3 DEF RawQueueDoGet, TypeOK
    <3>2. Waiting # <<>> /\ w = Head(Waiting) /\ Waiting' = Tail(Waiting)
      BY <1>1, <1>6, <3>1, WithoutPillTail DEF Waiting
    <3>3. Pool!ServeOrdinary(w)
      BY <2>3, <3>1, <3>2 DEF Pool!ServeOrdinary, Waiting
    <3> QED
      BY <1>2, <1>4, <2>1, <2>2, <3>3 DEF Pool!Serve, Serving, Replies, Content, Elems
  <2>4. CASE pri_heap[Requests] # {}
    <3>1. HeapTop(Requests, w) /\ pri0_queue' = pri0_queue /\ pri_heap'[Requests] = pri_heap[Requests] \ {w}
      BY <1>1, <2>4 DEF RawQueueDoGet, TypeOK
    <3>2. \A v \in pri_heap[Requests] : Priority[v] <= Priority[w]
      <4>1. \A v \in pri_heap[Requests] : v # Pill
        BY <1>1 DEF TypeOK
      <4> QED
        BY <1>6, <3>1, <4>1 DEF HeapTop, ItemPriority
    <3>3. Waiting' = Waiting
      BY <3>1 DEF Waiting
    <3>4. Pool!ServeUrgent(w)
      BY <3>1, <3>2, <3>3 DEF Pool!ServeUrgent, HeapTop, Waiting
    <3> QED
      BY <1>2, <1>4, <2>1, <2>2, <3>4 DEF Pool!Serve, Serving, Replies, Content, Elems
  <2> QED
    BY <2>3, <2>4
<1> QED
  BY <1>5, <1>6

\* raw_queue_put of a worker, up to the unlock, is where the reply is given.
LEMMA MapFinish ==
  ASSUME IInv, NEW t \in Workers, WorkerReply(t)
  PROVE  \E w \in Works : Pool!Finish(w)
<1> USE ConstantTypes, Membership
<1>1. PICK w, s : w = cur[t] /\ s = reply_to[cur[t]]
  OBVIOUS
<1>2. TypeOK /\ Placement
  BY DEF IInv
<1>3. /\ RawQueueInsert(s, w) /\ w \in Works /\ w \in Items /\ s \in Clients /\ reply_to[w] = s
      /\ cur' = [cur EXCEPT ![t] = None] /\ reply_to' = reply_to
  BY <1>1, <1>2 DEF WorkerReply, Placement, InService, Items
<1>4. \A u \in Workers : cur[u] = w => u = t
  BY <1>1, <1>2, <1>3 DEF Placement, InService
<1>5. w \in Serving /\ Serving' = Serving \ {w}
  <2>1. cur'[t] = None /\ \A u \in Workers \ {t} : cur'[u] = cur[u]
    BY <1>2, <1>3 DEF TypeOK
  <2> QED
    BY <1>1, <1>3, <1>4, <2>1 DEF Serving
<1>6. /\ Content(s)' = Content(s) \cup {w}
      /\ \A d \in Clients \ {s} : Content(d)' = Content(d)
  BY <1>2, <1>3, InsertContent
<1>7. Replies' = [Replies EXCEPT ![reply_to[w]] = @ \cup {w}]
  <2>1. Replies' = [d \in Clients |-> IF d = s THEN Content(s) \cup {w} ELSE Content(d)]
    BY <1>6 DEF Replies
  <2> QED
    BY <1>3, <2>1 DEF Replies
<1>8. pri0_queue'[Requests] = pri0_queue[Requests] /\ pri_heap'[Requests] = pri_heap[Requests]
  BY <1>2, <1>3 DEF RawQueueInsert, TypeOK
<1>9. Pool!Finish(w)
  BY <1>3, <1>5, <1>7, <1>8 DEF Pool!Finish, Serving, Replies, Content, Elems
<1> QED
  BY <1>3, <1>9

\* raw_queue_do_get of a client, from a queue that knows only replies, is where
\* the reply is collected.
LEMMA MapCollect ==
  ASSUME IInv, NEW c \in Clients, WorkWaitDoGet(c)
  PROVE  \E w \in Works : Pool!Collect(c, w)
<1> USE ConstantTypes, Membership
<1> PICK w \in Works : RawQueueDoGet(c, w) /\ reply_to' = [reply_to EXCEPT ![w] = None]
  BY DEF WorkWaitDoGet
<1>1. TypeOK /\ Placement /\ w \in Items /\ cur' = cur
  BY DEF IInv, WorkWaitDoGet, Items
<1>2. /\ w \in Content(c) /\ Content(c)' \subseteq Content(c) /\ w \notin Content(c)'
      /\ Content(c) \subseteq Content(c)' \cup {w}
      /\ \A d \in Clients \ {c} : Content(d)' = Content(d)
  BY <1>1, GetContent, GetKeeps DEF Placement
<1>3. \A v \in Content(c) : v \in Works /\ v # Pill
  BY <1>1 DEF Placement, InFinished
<1>4. \A v \in Content(c) : Priority[v] <= Priority[w]
  <2>0. \A v \in Content(c) : Priority[v] \in Nat /\ Priority[v] = ItemPriority(v)
    BY <1>3, WorkQueueAssumption DEF ItemPriority
  <2>1. \A v \in Elems(pri0_queue[c]) : ItemPriority(v) = 0
    BY <1>1 DEF Placement, QueueShape, Elems
  <2>2. CASE pri_heap[c] = {}
    <3>1. \A v \in Content(c) : ItemPriority(v) = 0
      BY <2>1, <2>2 DEF Content
    <3> QED
      BY <1>2, <2>0, <3>1
  <2>3. CASE pri_heap[c] # {}
    <3>1. \A v \in pri_heap[c] : ItemPriority(v) <= ItemPriority(w)
      BY <2>3 DEF RawQueueDoGet, HeapTop
    <3> QED
      BY <1>2, <2>0, <2>1, <3>1 DEF Content
  <2> QED
    BY <2>2, <2>3
<1>5. Replies' = [Replies EXCEPT ![c] = @ \ {w}] /\ Replies[c] = Content(c)
  <2>1. Content(c)' = Content(c) \ {w}
    BY <1>2
  <2>2. Replies' = [d \in Clients |-> IF d = c THEN Content(c) \ {w} ELSE Content(d)]
    BY <1>2, <2>1 DEF Replies
  <2> QED
    BY <2>2 DEF Replies
<1>6. pri0_queue'[Requests] = pri0_queue[Requests] /\ pri_heap'[Requests] = pri_heap[Requests]
  BY <1>1 DEF RawQueueDoGet, TypeOK
<1>7. Pool!Collect(c, w)
  BY <1>1, <1>2, <1>4, <1>5, <1>6 DEF Pool!Collect, Serving, Replies, Content, Elems
<1> QED
  BY <1>7

\* worker_pool_cleanup puts its pill behind the waiting requests.
LEMMA MapPill ==
  ASSUME IInv, Life, PoolPutPill
  PROVE  UNCHANGED Pool!vars
<1> USE ConstantTypes, Membership
<1> DEFINE Q == pri0_queue[Requests]
<1>1. TypeOK /\ Q \in Seq(Items) /\ PillTurn
  BY DEF IInv, Life, TypeOK
<1>2. /\ pc[Main] = "put" /\ RawQueueInsert(Requests, Pill) /\ Pill \in Items
      /\ cur' = cur /\ reply_to' = reply_to
  BY DEF PoolPutPill, Items
<1>3. pri0_queue'[Requests] = Append(Q, Pill) /\ pri_heap' = pri_heap
  BY <1>1, <1>2 DEF RawQueueInsert, ItemPriority, TypeOK
<1>4. \A i \in DOMAIN Q : Q[i] # Pill
  BY <1>1, <1>2 DEF PillTurn, Queued, Elems
<1>5. Waiting' = Waiting
  BY <1>1, <1>2, <1>3, <1>4, WithoutPillAppend DEF Waiting
<1>6. Replies' = Replies
  <2>1. \A d \in Clients : Content(d)' = Content(d)
    BY <1>1, <1>2, InsertContent
  <2> QED
    BY <2>1 DEF Replies
<1> QED
  BY <1>2, <1>3, <1>5, <1>6 DEF Pool!vars, Waiting, Replies, Content, Elems

\* Every step of a thread is a step of the abstract pool or none.
LEMMA MapNext ==
  ASSUME IInv, Conserved, Life, [Next]_vars
  PROVE  [Pool!Next]_(Pool!vars)
<1>1. ASSUME NEW t \in Workers, WorkerStep(t)
      PROVE  [Pool!Next]_(Pool!vars)
  <2>1. CASE WorkerInit(t) \/ WorkerSemWait(t) \/ WorkerReplyPost(t)
    BY <2>1, MapFrame DEF WorkerInit, WorkerSemWait, WorkerReplyPost, queueVars
  <2>2. CASE WorkerDoGet(t)
    BY <2>2, MapServe DEF Pool!Next
  <2>3. CASE WorkerReply(t)
    BY <2>3, MapFinish DEF Pool!Next
  <2>4. CASE WorkerSignalFinish(t)
    <3>1. \A u \in Workers : cur'[u] = cur[u] \/ (cur'[u] \notin Works /\ cur[u] \notin Works)
      BY <2>4, ConstantTypes DEF WorkerSignalFinish, IInv, TypeOK
    <3> QED
      BY <2>4, <3>1, MapFrame DEF WorkerSignalFinish, queueVars
  <2> QED
    BY <1>1, <2>1, <2>2, <2>3, <2>4 DEF WorkerStep
<1>2. ASSUME NEW c \in Clients, ClientStep(c) \/ ClientCall(c)
      PROVE  [Pool!Next]_(Pool!vars)
  <2>1. CASE \/ WorkSubmitPost(c) \/ WorkWaitSem(c) \/ WorkQueueInit(c)
             \/ WorkWait(c) \/ WorkTryWait(c) \/ WorkQueueCleanup(c)
    BY <2>1, MapFrame DEF WorkSubmitPost, WorkWaitSem, WorkQueueInit, WorkWait, WorkTryWait,
                          WorkQueueCleanup, queueVars
  <2>2. CASE WorkWaitDoGet(c)
    BY <2>2, MapCollect DEF Pool!Next
  <2>3. ASSUME NEW w \in Works, WorkSubmit(c, w)
        PROVE  [Pool!Next]_(Pool!vars)
    BY <2>3, MapSubmit DEF Pool!Next
  <2> QED
    BY <1>2, <2>1, <2>2, <2>3 DEF ClientStep, ClientCall
<1>3. CASE MainStep \/ PoolCleanup
  <2>1. CASE \/ (\E t \in Workers : PoolCreate(t)) \/ PoolInitWait \/ PoolPostPill
             \/ PoolCleanupWait \/ PoolJoin \/ PoolCleanup
    BY <2>1, MapFrame DEF PoolCreate, PoolInitWait, PoolPostPill, PoolCleanupWait, PoolJoin,
                          PoolCleanup, queueVars
  <2>2. CASE PoolPutPill
    BY <2>2, MapPill
  <2> QED
    BY <1>3, <2>1, <2>2 DEF MainStep
<1>4. CASE UNCHANGED vars
  BY <1>4, MapFrame DEF vars
<1> QED
  BY <1>1, <1>2, <1>3, <1>4 DEF Next

\* Every interleaving of any number of workers and clients is a behaviour of the
\* abstract pool: requests are served in the order of workqueue.h, each is
\* answered once, and its reply reaches the queue that submitted it.
THEOREM PoolRefinement == Spec => ImplementsWorkPool
<1>1. IInv /\ Conserved /\ Life /\ [Next]_vars => [Pool!Next]_(Pool!vars)
  BY MapNext
<1> QED
  BY <1>1, MapInit, Invariance, Conservation, LifeInvariance, PTL
  DEF Spec, ImplementsWorkPool, Pool!Spec

=============================================================================
