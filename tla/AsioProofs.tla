----------------------------- MODULE AsioProofs -----------------------------
(***************************************************************************)
(* The inductive invariant of Asio and what follows from it, for any       *)
(* number of queues and requests and any limit of write-backs.             *)
(*                                                                         *)
(* A request is in one place at a time: with the pool, in the hands of the *)
(* user, on a done_list or on an idle_list (QueuePlaces, PoolPlaces).  So  *)
(* every counter is the size of a set that grows and shrinks by one.  The  *)
(* order of service follows from the list of the pool keeping the order in *)
(* which each queue submitted (InOrder), and from there being one thread.  *)
(***************************************************************************)
EXTENDS Asio, FiniteSetTheorems, SequenceTheorems, TLAPS

Elems(s) == {s[i] : i \in DOMAIN s}
Distinct(s) == \A i, j \in DOMAIN s : s[i] = s[j] => i = j

Writebacks(q) == {r \in Running(q) : op[r] = "WRITE_BACK"}
Users == {q \in Queues : pc[q] # "none"}

\* CountersExact for one queue
Counts(q) ==
  /\ running_requests[q] = Cardinality(Running(q))
  /\ running_writebacks[q] = Cardinality(Writebacks(q))
  /\ allocated_requests[q] = running_requests[q] + Cardinality(held[q]) + Len(done_list[q])
  /\ pc[q] = "none" => allocated_requests[q] = 0 /\ Running(q) = {}

Counters == (\A q \in Queues : Counts(q)) /\ asio_num_users = Cardinality(Users)

\* A request is with the pool or with its queue, and in one list or one hand.
QueuePlaces ==
  /\ \A q \in Queues : \A r \in Requests : owner[r] # None =>
       r \notin held[q] /\ r \notin idle_list[q] /\ r \notin Elems(done_list[q])
  /\ \A q, p \in Queues : \A r \in held[q] :
       r \notin idle_list[p] /\ r \notin Elems(done_list[p]) /\ (r \in held[p] => p = q)
  /\ \A q, p \in Queues : \A r \in idle_list[q] :
       r \notin Elems(done_list[p]) /\ (r \in idle_list[p] => p = q)
  /\ \A q, p \in Queues : \A r \in Elems(done_list[q]) : r \in Elems(done_list[p]) => p = q
  /\ \A q \in Queues : Distinct(done_list[q])
  /\ \A q \in Queues : pc[q] = "submit" => arg[q] \in held[q]

\* What the pool knows of is waiting, being served, or answered.
PoolPlaces ==
  /\ Distinct(fifo)
  /\ \A r \in Elems(fifo) : owner[r] # None /\ r \notin serving
  /\ \A r \in serving : owner[r] # None
  /\ \A r, s \in serving : r = s
  /\ \A q \in Queues : \A r \in finished[q] :
       owner[r] = q /\ r \notin serving /\ r \notin Elems(fifo)

\* The requests of a queue wait in the order in which it submitted them, behind
\* the one that is being served.
InOrder ==
  /\ \A q \in Queues : Distinct(order[q])
  /\ \A q \in Queues : \A r \in Requests :
       r \in Elems(order[q]) <=> owner[r] = q /\ (r \in serving \/ r \in Elems(fifo))
  /\ \A q \in Queues : \A i, j \in DOMAIN order[q] : \A a, b \in DOMAIN fifo :
       order[q][i] = fifo[a] /\ order[q][j] = fifo[b] /\ a < b => i < j
  /\ \A q \in Queues : \A r \in serving : owner[r] = q => order[q][1] = r

IInv == TypeOK /\ Counters /\ QueuePlaces /\ PoolPlaces /\ InOrder

-----------------------------------------------------------------------------
(* Facts about the state and about sequences.                              *)

LEMMA Finites ==
  ASSUME TypeOK, NEW q \in Queues
  PROVE  /\ IsFiniteSet(Running(q)) /\ Cardinality(Running(q)) \in Nat
         /\ IsFiniteSet(Writebacks(q)) /\ Cardinality(Writebacks(q)) \in Nat
         /\ IsFiniteSet(held[q]) /\ Cardinality(held[q]) \in Nat
         /\ IsFiniteSet(Users) /\ Cardinality(Users) \in Nat
         /\ Len(done_list[q]) \in Nat
<1>1. /\ Running(q) \subseteq Requests /\ Writebacks(q) \subseteq Requests
      /\ held[q] \subseteq Requests /\ Users \subseteq Queues
  BY DEF Running, Writebacks, Users, TypeOK
<1>2. /\ IsFiniteSet(Running(q)) /\ IsFiniteSet(Writebacks(q))
      /\ IsFiniteSet(held[q]) /\ IsFiniteSet(Users)
  BY <1>1, FS_Subset, AsioAssumption
<1>3. Len(done_list[q]) \in Nat
  BY DEF TypeOK
<1> QED
  BY <1>2, <1>3, FS_CardinalityType

LEMMA ElemsType ==
  ASSUME NEW S, NEW s \in Seq(S)
  PROVE  Elems(s) \subseteq S
BY DEF Elems

LEMMA AppendFacts ==
  ASSUME NEW S, NEW s \in Seq(S), NEW e \in S
  PROVE  /\ Append(s, e) \in Seq(S) /\ Len(Append(s, e)) = Len(s) + 1 /\ Len(s) \in Nat
         /\ Elems(Append(s, e)) = Elems(s) \cup {e}
         /\ DOMAIN s = 1..Len(s) /\ DOMAIN Append(s, e) = 1..(Len(s) + 1)
         /\ Append(s, e)[Len(s) + 1] = e
         /\ \A i \in DOMAIN s : Append(s, e)[i] = s[i]
         /\ Distinct(s) /\ e \notin Elems(s) => Distinct(Append(s, e))
<1> DEFINE new == Append(s, e)
<1>1. /\ DOMAIN new = 1..(Len(s) + 1) /\ DOMAIN s = 1..Len(s) /\ Len(s) \in Nat
      /\ \A i \in 1..Len(s) : new[i] = s[i]
      /\ new[Len(s) + 1] = e /\ Len(new) = Len(s) + 1 /\ new \in Seq(S)
  OBVIOUS
<1> HIDE DEF new
<1>2. \A i \in DOMAIN new : i = Len(s) + 1 \/ (i \in DOMAIN s /\ new[i] = s[i])
  BY <1>1
<1>3. Len(s) + 1 \in DOMAIN new /\ DOMAIN s \subseteq DOMAIN new /\ \A i \in DOMAIN s : new[i] = s[i]
  BY <1>1
<1>4. Elems(new) = Elems(s) \cup {e}
  BY <1>1, <1>2, <1>3 DEF Elems
<1>5. ASSUME Distinct(s), e \notin Elems(s)
      PROVE  Distinct(new)
  <2> SUFFICES ASSUME NEW i \in DOMAIN new, NEW j \in DOMAIN new, new[i] = new[j]
               PROVE  i = j
    BY DEF Distinct
  <2>1. \A k \in DOMAIN s : new[k] # e
    BY <1>1, <1>5 DEF Elems
  <2> QED
    BY <1>1, <1>2, <1>5, <2>1 DEF Distinct
<1> QED
  BY <1>1, <1>4, <1>5 DEF new

LEMMA TailFacts ==
  ASSUME NEW S, NEW s \in Seq(S), s # <<>>
  PROVE  /\ Tail(s) \in Seq(S) /\ Len(Tail(s)) = Len(s) - 1 /\ Len(s) \in Nat /\ Len(s) > 0
         /\ Head(s) = s[1] /\ 1 \in DOMAIN s /\ Head(s) \in Elems(s) /\ Head(s) \in S
         /\ DOMAIN s = 1..Len(s) /\ DOMAIN Tail(s) = 1..(Len(s) - 1)
         /\ \A i \in DOMAIN Tail(s) : i \in Nat /\ i + 1 \in DOMAIN s /\ Tail(s)[i] = s[i + 1]
         /\ Elems(s) = Elems(Tail(s)) \cup {Head(s)}
         /\ Distinct(s) => Distinct(Tail(s)) /\ Head(s) \notin Elems(Tail(s))
<1> DEFINE new == Tail(s)
<1>1. /\ DOMAIN new = 1..(Len(s) - 1) /\ DOMAIN s = 1..Len(s) /\ Len(s) \in Nat /\ Len(s) > 0
      /\ \A i \in 1..(Len(s) - 1) : new[i] = s[i + 1]
      /\ Len(new) = Len(s) - 1 /\ Head(s) = s[1] /\ new \in Seq(S) /\ Head(s) \in S
  OBVIOUS
<1> HIDE DEF new
<1>2. \A i \in DOMAIN new : i \in Nat /\ i > 0 /\ i + 1 \in DOMAIN s /\ new[i] = s[i + 1]
  BY <1>1
<1>3. \A i \in DOMAIN s : i = 1 \/ (i - 1 \in DOMAIN new /\ new[i - 1] = s[i])
  BY <1>1
<1>4. 1 \in DOMAIN s /\ s[1] \in Elems(s)
  BY <1>1 DEF Elems
<1>5. Elems(s) = Elems(new) \cup {s[1]}
  <2>1. \A e \in Elems(s) : e \in Elems(new) \cup {s[1]}
    BY <1>3 DEF Elems
  <2>2. \A e \in Elems(new) : e \in Elems(s)
    BY <1>2 DEF Elems
  <2> QED
    BY <1>4, <2>1, <2>2
<1>6. ASSUME Distinct(s)
      PROVE  Distinct(new) /\ s[1] \notin Elems(new)
  <2>1. ASSUME NEW i \in DOMAIN new, NEW j \in DOMAIN new, new[i] = new[j]
        PROVE  i = j
    <3>1. i + 1 = j + 1
      BY <1>2, <1>6, <2>1 DEF Distinct
    <3> QED
      BY <1>2, <3>1
  <2>2. \A i \in DOMAIN new : new[i] # s[1]
    BY <1>2, <1>4, <1>6 DEF Distinct
  <2> QED
    BY <2>1, <2>2 DEF Distinct, Elems
<1> QED
  BY <1>1, <1>2, <1>4, <1>5, <1>6 DEF new

\* Taking the first element out of a sequence leaves its tail.
LEMMA WithoutFirst ==
  ASSUME NEW S, NEW s \in Seq(S), s # <<>>, Distinct(s)
  PROVE  Without(s, s[1]) = Tail(s)
<1>1. Len(s) \in Nat /\ Len(s) > 0 /\ 1 \in DOMAIN s
  OBVIOUS
<1>2. (CHOOSE i \in DOMAIN s : s[i] = s[1]) = 1
  BY <1>1 DEF Distinct
<1> DEFINE i == CHOOSE i \in DOMAIN s : s[i] = s[1]
<1>3. Without(s, s[1]) = SubSeq(s, 1, i - 1) \o SubSeq(s, i + 1, Len(s))
  BY DEF Without
<1>4. i = 1
  BY <1>2
<1> HIDE DEF i
<1>5. SubSeq(s, 1, i - 1) = <<>> /\ SubSeq(s, i + 1, Len(s)) = Tail(s) /\ Tail(s) \in Seq(S)
  BY <1>1, <1>4
<1>6. <<>> \o Tail(s) = Tail(s)
  BY <1>5, ConcatEmptySeq
<1> QED
  BY <1>3, <1>5, <1>6

-----------------------------------------------------------------------------
(* What a step that leaves a part of the state alone preserves.            *)

LEMMA CountsFrame ==
  ASSUME NEW p \in Queues, Counts(p),
         running_requests'[p] = running_requests[p], running_writebacks'[p] = running_writebacks[p],
         allocated_requests'[p] = allocated_requests[p],
         held'[p] = held[p], done_list'[p] = done_list[p], Running(p)' = Running(p),
         \A r \in Running(p) : op'[r] = op[r],
         pc'[p] = "none" <=> pc[p] = "none"
  PROVE  Counts(p)'
<1>1. Writebacks(p)' = Writebacks(p)
  BY DEF Writebacks
<1> QED
  BY <1>1 DEF Counts

LEMMA PoolFrame ==
  ASSUME PoolPlaces, InOrder, UNCHANGED <<fifo, serving, finished, owner, order>>
  PROVE  PoolPlaces' /\ InOrder'
BY DEF PoolPlaces, InOrder

LEMMA PlacesFrame ==
  ASSUME QueuePlaces, UNCHANGED <<owner, held, idle_list, done_list>>,
         \A p \in Queues : pc'[p] = "submit" => arg'[p] \in held[p]
  PROVE  QueuePlaces'
BY DEF QueuePlaces

-----------------------------------------------------------------------------
(* Steps of the clients.                                                   *)

\* The steps between the calls on the pool change only pc, arg and the request
\* that is being filled in.
LEMMA ControlStep ==
  ASSUME IInv, NEW q \in Queues, NEW x \in {"run", "submit", "wait", "sync"},
         UNCHANGED <<poolVars, asio_num_users, queueVars, order>>,
         pc[q] # "none", pc' = [pc EXCEPT ![q] = x],
         arg' \in [Queues -> Requests \cup {None}], \A p \in Queues \ {q} : arg'[p] = arg[p],
         x = "submit" => arg'[q] \in held[q],
         op' \in [Requests -> {"FREE", "READ", "WRITE_BACK"}],
         \A r \in Requests : owner[r] # None => op'[r] = op[r]
  PROVE  IInv'
<1>0. TypeOK /\ Counters /\ QueuePlaces /\ PoolPlaces /\ InOrder
  BY DEF IInv
<1>1. TypeOK'
  BY <1>0 DEF TypeOK, poolVars, queueVars
<1>2. pc'[q] = x /\ \A p \in Queues \ {q} : pc'[p] = pc[p]
  BY <1>0 DEF TypeOK
<1>3. Users' = Users
  BY <1>2 DEF Users
<1>4. \A p \in Queues : Running(p)' = Running(p) /\ \A r \in Running(p) : op'[r] = op[r]
  BY AsioAssumption DEF Running, poolVars
<1>5. Counters'
  BY <1>0, <1>2, <1>3, <1>4, CountsFrame DEF Counters, queueVars
<1>6. QueuePlaces'
  BY <1>0, <1>2, PlacesFrame DEF QueuePlaces, queueVars, poolVars
<1>7. PoolPlaces' /\ InOrder'
  BY <1>0, PoolFrame DEF poolVars
<1> QED
  BY <1>1, <1>5, <1>6, <1>7 DEF IInv

LEMMA InitInvariant == Init => IInv
<1> SUFFICES ASSUME Init PROVE IInv
  OBVIOUS
<1>0. /\ fifo = <<>> /\ urgent = {} /\ serving = {} /\ finished = [c \in Queues |-> {}]
      /\ owner = [w \in Requests |-> None]
  BY DEF Init, Pool!Init
<1>1. TypeOK
  BY <1>0, AsioAssumption DEF Init, TypeOK
<1>2. Counters
  <2>1. Users = {} /\ \A q \in Queues : Running(q) = {} /\ Writebacks(q) = {} /\ held[q] = {}
    BY <1>0, AsioAssumption DEF Init, Users, Running, Writebacks
  <2>2. Cardinality({}) = 0
    BY FS_EmptySet
  <2>3. /\ asio_num_users = 0 /\ Len(<<>>) = 0
        /\ \A q \in Queues : /\ running_requests[q] = 0 /\ running_writebacks[q] = 0
                            /\ allocated_requests[q] = 0 /\ done_list[q] = <<>>
    BY DEF Init
  <2>4. \A q \in Queues : Cardinality(held[q]) = 0 /\ Len(done_list[q]) = 0
    BY <2>1, <2>2, <2>3
  <2>5. ASSUME NEW q \in Queues PROVE Counts(q)
    <3>1. allocated_requests[q] = running_requests[q] + Cardinality(held[q]) + Len(done_list[q])
      BY <2>3, <2>4
    <3> QED
      BY <2>1, <2>2, <2>3, <3>1 DEF Counts
  <2> QED
    BY <2>1, <2>2, <2>3, <2>5 DEF Counters
<1>3. QueuePlaces
  BY <1>0 DEF Init, QueuePlaces, Elems, Distinct
<1>4. PoolPlaces
  BY <1>0 DEF Init, PoolPlaces, Elems, Distinct
<1>5. InOrder
  BY <1>0 DEF Init, InOrder, Elems, Distinct
<1> QED
  BY <1>1, <1>2, <1>3, <1>4, <1>5 DEF IInv

\* asio_init_queue counts a user that had no requests.
LEMMA InitQueueStep ==
  ASSUME IInv, NEW q \in Queues, AsioInitQueue(q)
  PROVE  IInv'
<1>0. TypeOK /\ Counters /\ QueuePlaces /\ PoolPlaces /\ InOrder
  BY DEF IInv
<1>1. /\ pc[q] = "none" /\ pc'[q] = "run" /\ \A p \in Queues \ {q} : pc'[p] = pc[p]
      /\ asio_num_users' = asio_num_users + 1
      /\ UNCHANGED <<fifo, urgent, serving, finished, owner, arg, op, order>>
      /\ UNCHANGED <<allocated_requests, running_requests, running_writebacks, idle_list, done_list, held>>
  BY <1>0 DEF AsioInitQueue, Goto, TypeOK, poolVars, queueVars
<1>2. TypeOK'
  BY <1>0, <1>1 DEF TypeOK, AsioInitQueue, Goto
<1>3. Users' = Users \cup {q} /\ q \notin Users
  BY <1>1 DEF Users
<1>4. asio_num_users' = Cardinality(Users')
  BY <1>0, <1>1, <1>3, Finites, FS_AddElement DEF Counters
<1>5. \A p \in Queues : Running(p)' = Running(p) /\ Writebacks(p)' = Writebacks(p)
  BY <1>1 DEF Running, Writebacks
<1>6. Counters'
  BY <1>0, <1>1, <1>4, <1>5 DEF Counters, Counts
<1>7. QueuePlaces'
  BY <1>0, <1>1, PlacesFrame DEF QueuePlaces
<1>8. PoolPlaces' /\ InOrder'
  BY <1>0, <1>1, PoolFrame
<1> QED
  BY <1>2, <1>6, <1>7, <1>8 DEF IInv

\* asio_cleanup_queue forgets the idle requests.
LEMMA CleanupQueueStep ==
  ASSUME IInv, NEW q \in Queues, AsioCleanupQueue(q)
  PROVE  IInv'
<1>0. TypeOK /\ Counters /\ QueuePlaces /\ PoolPlaces /\ InOrder
  BY DEF IInv
<1>1. /\ pc[q] = "run" /\ pc'[q] = "none" /\ \A p \in Queues \ {q} : pc'[p] = pc[p]
      /\ asio_num_users' = asio_num_users - 1
      /\ running_requests[q] = 0 /\ allocated_requests[q] = 0
      /\ UNCHANGED <<fifo, urgent, serving, finished, owner, arg, op, order>>
      /\ UNCHANGED <<allocated_requests, running_requests, running_writebacks, done_list, held>>
      /\ idle_list'[q] = {} /\ \A p \in Queues \ {q} : idle_list'[p] = idle_list[p]
      /\ idle_list' \in [Queues -> SUBSET Requests]
      /\ pc' \in [Queues -> {"none", "run", "submit", "wait", "sync"}]
  BY <1>0 DEF AsioCleanupQueue, Goto, TypeOK, poolVars
<1>3. Users' = Users \ {q} /\ q \in Users
  BY <1>1 DEF Users
<1>4. asio_num_users' = Cardinality(Users') /\ asio_num_users' \in Nat
  <2>1. IsFiniteSet(Users) /\ IsFiniteSet(Users \ {q}) /\ Cardinality(Users \ {q}) = Cardinality(Users) - 1
    BY <1>0, <1>3, Finites, FS_RemoveElement
  <2>2. Cardinality(Users \ {q}) \in Nat
    BY <2>1, FS_CardinalityType
  <2> QED
    BY <1>0, <1>1, <1>3, <2>1, <2>2 DEF Counters
<1>2. TypeOK'
  BY <1>0, <1>1, <1>4 DEF TypeOK
<1>5. \A p \in Queues : Running(p)' = Running(p) /\ Writebacks(p)' = Writebacks(p)
  BY <1>1 DEF Running, Writebacks
<1>6. Running(q) = {}
  BY <1>0, <1>1, Finites, FS_EmptySet DEF Counters, Counts
<1>7. Counters'
  BY <1>0, <1>1, <1>4, <1>5, <1>6 DEF Counters, Counts
<1>8. QueuePlaces'
  BY <1>0, <1>1 DEF QueuePlaces
<1>9. PoolPlaces' /\ InOrder'
  BY <1>0, <1>1, PoolFrame
<1> QED
  BY <1>2, <1>7, <1>8, <1>9 DEF IInv

\* asio_get hands over a request that was idle, or that nobody had.
LEMMA GetStep ==
  ASSUME IInv, NEW q \in Queues, NEW r \in Requests, AsioGet(q, r)
  PROVE  IInv'
<1>0. TypeOK /\ Counters /\ QueuePlaces /\ PoolPlaces /\ InOrder
  BY DEF IInv
<1>1. /\ pc[q] = "run"
      /\ held'[q] = held[q] \cup {r} /\ \A p \in Queues \ {q} : held'[p] = held[p]
      /\ idle_list'[q] = idle_list[q] \ {r} /\ \A p \in Queues \ {q} : idle_list'[p] = idle_list[p]
      /\ allocated_requests'[q] = allocated_requests[q] + 1
      /\ \A p \in Queues \ {q} : allocated_requests'[p] = allocated_requests[p]
      /\ \A s \in Requests \ {r} : op'[s] = op[s]
      /\ UNCHANGED <<fifo, urgent, serving, finished, owner, asio_num_users, pc, arg, order>>
      /\ UNCHANGED <<running_requests, running_writebacks, done_list>>
  BY <1>0 DEF AsioGet, TypeOK, poolVars
<1>2. TypeOK'
  BY <1>0, <1>1 DEF TypeOK, AsioGet
<1>3. /\ owner[r] = None
      /\ \A p \in Queues : /\ r \notin held[p] /\ r \notin Elems(done_list[p])
                           /\ r \in idle_list[p] => p = q
  <2>1. CASE idle_list[q] = {}
    <3>1. r \in Fresh
      BY <2>1 DEF AsioGet
    <3> QED
      BY <3>1 DEF Fresh, Elems
  <2>2. CASE idle_list[q] # {}
    <3>1. r \in idle_list[q]
      BY <2>2 DEF AsioGet
    <3> QED
      BY <1>0, <3>1 DEF QueuePlaces
  <2> QED
    BY <2>1, <2>2
<1>4. \A p \in Queues : Running(p)' = Running(p) /\ \A s \in Running(p) : op'[s] = op[s]
  BY <1>1, <1>3, AsioAssumption DEF Running
<1>5. \A p \in Queues : Writebacks(p)' = Writebacks(p)
  BY <1>4 DEF Writebacks
<1>6. Cardinality(held'[q]) = Cardinality(held[q]) + 1
  <2>1. IsFiniteSet(held[q])
    BY <1>0, Finites
  <2>2. Cardinality(held[q] \cup {r}) = Cardinality(held[q]) + 1
    BY <1>3, <2>1, FS_AddElement
  <2> QED
    BY <1>1, <2>2
<1>7. Counts(q)'
  <2>1. /\ Counts(q) /\ Cardinality(held[q]) \in Nat /\ Len(done_list[q]) \in Nat
        /\ running_requests[q] \in Nat
    BY <1>0, Finites DEF Counters, TypeOK
  <2>2. allocated_requests'[q] = running_requests[q] + Cardinality(held'[q]) + Len(done_list[q])
    BY <1>1, <1>6, <2>1 DEF Counts
  <2> QED
    BY <1>1, <1>4, <1>5, <2>1, <2>2 DEF Counts
<1>8. \A p \in Queues \ {q} : Counts(p)'
  BY <1>0, <1>1, <1>4, CountsFrame DEF Counters
<1>9. Counters'
  <2>1. Users' = Users
    BY <1>1 DEF Users
  <2> QED
    BY <1>0, <1>1, <1>7, <1>8, <2>1 DEF Counters
<1>10. QueuePlaces'
  BY <1>0, <1>1, <1>3 DEF QueuePlaces
<1>11. PoolPlaces' /\ InOrder'
  BY <1>0, <1>1, PoolFrame
<1> QED
  BY <1>2, <1>9, <1>10, <1>11 DEF IInv

\* asio_put recycles a request of the user's.
LEMMA PutStep ==
  ASSUME IInv, NEW q \in Queues, NEW r \in Requests, UserPut(q, r)
  PROVE  IInv'
<1>0. TypeOK /\ Counters /\ QueuePlaces /\ PoolPlaces /\ InOrder
  BY DEF IInv
<1>1. /\ pc[q] = "run" /\ r \in held[q]
      /\ held'[q] = held[q] \ {r} /\ \A p \in Queues \ {q} : held'[p] = held[p]
      /\ idle_list'[q] = idle_list[q] \cup {r} /\ \A p \in Queues \ {q} : idle_list'[p] = idle_list[p]
      /\ allocated_requests'[q] = allocated_requests[q] - 1
      /\ \A p \in Queues \ {q} : allocated_requests'[p] = allocated_requests[p]
      /\ allocated_requests' = [allocated_requests EXCEPT ![q] = @ - 1]
      /\ held' \in [Queues -> SUBSET Requests] /\ idle_list' \in [Queues -> SUBSET Requests]
      /\ UNCHANGED <<fifo, urgent, serving, finished, owner, asio_num_users, pc, arg, order, op>>
      /\ UNCHANGED <<running_requests, running_writebacks, done_list>>
  BY <1>0 DEF UserPut, AsioPut, TypeOK, poolVars
<1>2. \A p \in Queues : Running(p)' = Running(p) /\ Writebacks(p)' = Writebacks(p)
  BY <1>1 DEF Running, Writebacks
<1>3. Cardinality(held'[q]) = Cardinality(held[q]) - 1 /\ Cardinality(held'[q]) \in Nat
  <2>1. /\ Cardinality(held[q] \ {r}) = Cardinality(held[q]) - 1
        /\ IsFiniteSet(held[q] \ {r})
    BY <1>0, <1>1, Finites, FS_RemoveElement
  <2> QED
    BY <1>1, <2>1, FS_CardinalityType
<1>4. /\ Counts(q) /\ Cardinality(held[q]) \in Nat /\ Len(done_list[q]) \in Nat
      /\ running_requests[q] \in Nat
  BY <1>0, Finites DEF Counters, TypeOK
<1>5. /\ allocated_requests'[q] = running_requests[q] + Cardinality(held'[q]) + Len(done_list[q])
      /\ allocated_requests'[q] \in Nat
  BY <1>1, <1>3, <1>4 DEF Counts
<1>6. TypeOK'
  <2>1. allocated_requests' \in [Queues -> Nat]
    BY <1>0, <1>1, <1>5 DEF TypeOK
  <2> QED
    BY <1>0, <1>1, <2>1 DEF TypeOK
<1>7. Counts(q)'
  BY <1>1, <1>2, <1>4, <1>5 DEF Counts
<1>8. \A p \in Queues \ {q} : Counts(p)'
  BY <1>0, <1>1, <1>2, CountsFrame DEF Counters
<1>9. Counters'
  <2>1. Users' = Users
    BY <1>1 DEF Users
  <2> QED
    BY <1>0, <1>1, <1>7, <1>8, <2>1 DEF Counters
<1>10. QueuePlaces'
  BY <1>0, <1>1 DEF QueuePlaces
<1>11. PoolPlaces' /\ InOrder'
  BY <1>0, <1>1, PoolFrame
<1> QED
  BY <1>6, <1>9, <1>10, <1>11 DEF IInv

-----------------------------------------------------------------------------
(* Requests that come back from the pool, and those that go there.         *)

\* asio_raw_wait takes an answer from the pool; a write-back is recycled and
\* anything else waits on the done_list.
LEMMA RawWaitStep ==
  ASSUME IInv, NEW q \in Queues, NEW r \in Requests, RawWait(q, r), pc[q] # "none",
         UNCHANGED <<asio_num_users, pc, arg, held, op, order>>
  PROVE  IInv'
<1>0. TypeOK /\ Counters /\ QueuePlaces /\ PoolPlaces /\ InOrder
  BY DEF IInv
<1>1. /\ r \in finished[q]
      /\ finished'[q] = finished[q] \ {r} /\ \A p \in Queues \ {q} : finished'[p] = finished[p]
      /\ owner'[r] = None /\ \A s \in Requests \ {r} : owner'[s] = owner[s]
      /\ running_requests'[q] = running_requests[q] - 1
      /\ \A p \in Queues \ {q} : running_requests'[p] = running_requests[p]
      /\ UNCHANGED <<fifo, urgent, serving>>
      /\ finished' \in [Queues -> SUBSET Requests] /\ owner' \in [Requests -> Queues \cup {None}]
      /\ running_requests' = [running_requests EXCEPT ![q] = @ - 1]
  BY <1>0 DEF RawWait, Pool!Collect, TypeOK
<1>2. /\ owner[r] = q /\ r \notin serving /\ r \notin Elems(fifo)
      /\ \A p \in Queues : r \notin held[p] /\ r \notin idle_list[p] /\ r \notin Elems(done_list[p])
  BY <1>0, <1>1, AsioAssumption DEF PoolPlaces, QueuePlaces
<1>3. /\ Running(q)' = Running(q) \ {r} /\ r \in Running(q)
      /\ \A p \in Queues \ {q} : Running(p)' = Running(p)
  BY <1>1, <1>2, AsioAssumption DEF Running
<1>4. /\ Counts(q) /\ Cardinality(held[q]) \in Nat /\ Len(done_list[q]) \in Nat
      /\ running_requests[q] \in Nat
      /\ Cardinality(Running(q) \ {r}) = Cardinality(Running(q)) - 1
      /\ Cardinality(Running(q) \ {r}) \in Nat
  <2>1. /\ Cardinality(Running(q) \ {r}) = Cardinality(Running(q)) - 1
        /\ IsFiniteSet(Running(q) \ {r})
    BY <1>0, <1>3, Finites, FS_RemoveElement
  <2>2. Cardinality(Running(q) \ {r}) \in Nat
    BY <2>1, FS_CardinalityType
  <2> QED
    BY <1>0, <2>1, <2>2, Finites DEF Counters, TypeOK
<1>5. running_requests'[q] = Cardinality(Running(q)') /\ running_requests'[q] \in Nat
  BY <1>1, <1>3, <1>4 DEF Counts
<1>6. running_requests' \in [Queues -> Nat]
  BY <1>0, <1>1, <1>5 DEF TypeOK
<1>12. /\ Elems(fifo) \subseteq Requests /\ serving \subseteq Requests
       /\ \A p \in Queues : finished[p] \subseteq Requests /\ Elems(done_list[p]) \subseteq Requests
       /\ \A p \in Queues : held[p] \subseteq Requests /\ idle_list[p] \subseteq Requests
  BY <1>0, ElemsType DEF TypeOK
<1>7. PoolPlaces'
  <2>1. /\ \A s \in Elems(fifo) : owner'[s] # None
        /\ \A s \in serving : owner'[s] # None
    BY <1>0, <1>1, <1>2, <1>12 DEF PoolPlaces
  <2>2. \A p \in Queues : \A s \in finished'[p] :
          s # r /\ owner'[s] = p /\ s \notin serving /\ s \notin Elems(fifo)
    BY <1>0, <1>1, <1>2, <1>12, AsioAssumption DEF PoolPlaces
  <2> QED
    BY <1>0, <1>1, <2>1, <2>2 DEF PoolPlaces
<1>8. InOrder'
  <2>1. \A p \in Queues : \A s \in Requests :
          s \in Elems(order[p]) <=> owner'[s] = p /\ (s \in serving \/ s \in Elems(fifo))
    BY <1>0, <1>1, <1>2 DEF InOrder
  <2>2. \A p \in Queues : \A s \in serving : owner'[s] = p => order[p][1] = s
    BY <1>0, <1>1, <1>2 DEF InOrder, TypeOK
  <2> QED
    BY <1>0, <1>1, <2>1, <2>2 DEF InOrder
<1>9. Users' = Users
  BY DEF Users
<1>10. CASE op[r] = "WRITE_BACK"
  <2>1. /\ idle_list'[q] = idle_list[q] \cup {r} /\ \A p \in Queues \ {q} : idle_list'[p] = idle_list[p]
        /\ idle_list' \in [Queues -> SUBSET Requests]
        /\ allocated_requests'[q] = allocated_requests[q] - 1
        /\ \A p \in Queues \ {q} : allocated_requests'[p] = allocated_requests[p]
        /\ allocated_requests' = [allocated_requests EXCEPT ![q] = @ - 1]
        /\ running_writebacks'[q] = running_writebacks[q] - 1
        /\ \A p \in Queues \ {q} : running_writebacks'[p] = running_writebacks[p]
        /\ running_writebacks' = [running_writebacks EXCEPT ![q] = @ - 1]
        /\ UNCHANGED done_list
    <3>1. /\ idle_list' = [idle_list EXCEPT ![q] = @ \cup {r}]
          /\ allocated_requests' = [allocated_requests EXCEPT ![q] = @ - 1]
          /\ running_writebacks' = [running_writebacks EXCEPT ![q] = @ - 1]
          /\ UNCHANGED done_list
      BY <1>10 DEF RawWait, AsioPut
    <3> QED
      BY <1>0, <3>1 DEF TypeOK
  <2>2. Writebacks(q)' = Writebacks(q) \ {r} /\ r \in Writebacks(q)
    BY <1>3, <1>10 DEF Writebacks
  <2>3. /\ Cardinality(Writebacks(q) \ {r}) = Cardinality(Writebacks(q)) - 1
        /\ Cardinality(Writebacks(q) \ {r}) \in Nat
    <3>1. /\ Cardinality(Writebacks(q) \ {r}) = Cardinality(Writebacks(q)) - 1
          /\ IsFiniteSet(Writebacks(q) \ {r})
      BY <1>0, <2>2, Finites, FS_RemoveElement
    <3> QED
      BY <3>1, FS_CardinalityType
  <2>4. /\ running_writebacks'[q] = Cardinality(Writebacks(q)')
        /\ running_writebacks'[q] \in 0..MaxWritebacks
    <3>1. running_writebacks[q] \in 0..MaxWritebacks
      BY <1>0 DEF TypeOK
    <3>2. running_writebacks'[q] = Cardinality(Writebacks(q)')
      BY <1>4, <2>1, <2>2, <2>3 DEF Counts
    <3> QED
      BY <2>1, <2>2, <2>3, <3>1, <3>2, AsioAssumption
  <2>5. /\ allocated_requests'[q] = running_requests'[q] + Cardinality(held[q]) + Len(done_list[q])
        /\ allocated_requests'[q] \in Nat
    BY <1>1, <1>4, <1>5, <2>1 DEF Counts
  <2>6. TypeOK'
    <3>1. allocated_requests' \in [Queues -> Nat] /\ running_writebacks' \in [Queues -> 0..MaxWritebacks]
      BY <1>0, <2>1, <2>4, <2>5 DEF TypeOK
    <3> QED
      BY <1>0, <1>1, <1>6, <2>1, <3>1 DEF TypeOK
  <2>7. Counts(q)'
    BY <1>5, <2>1, <2>4, <2>5 DEF Counts
  <2>8. \A p \in Queues \ {q} : Counts(p)'
    BY <1>0, <1>1, <1>3, <2>1, CountsFrame DEF Counters
  <2>9. Counters'
    BY <1>0, <1>9, <2>7, <2>8 DEF Counters
  <2>10. QueuePlaces'
    BY <1>0, <1>1, <1>2, <2>1, AsioAssumption DEF QueuePlaces
  <2> QED
    BY <1>7, <1>8, <2>6, <2>9, <2>10 DEF IInv
<1>11. CASE op[r] # "WRITE_BACK"
  <2>1. /\ done_list'[q] = Append(done_list[q], r)
        /\ \A p \in Queues \ {q} : done_list'[p] = done_list[p]
        /\ done_list' \in [Queues -> Seq(Requests)]
        /\ UNCHANGED <<running_writebacks, idle_list, allocated_requests>>
    <3>1. /\ done_list' = [done_list EXCEPT ![q] = Append(@, r)]
          /\ UNCHANGED <<running_writebacks, idle_list, allocated_requests>>
      BY <1>11 DEF RawWait
    <3>2. done_list \in [Queues -> Seq(Requests)] /\ Append(done_list[q], r) \in Seq(Requests)
      BY <1>0, AppendFacts DEF TypeOK
    <3> QED
      BY <3>1, <3>2
  <2>2. Writebacks(q)' = Writebacks(q)
    BY <1>3, <1>11 DEF Writebacks
  <2>3. /\ Len(done_list'[q]) = Len(done_list[q]) + 1
        /\ Elems(done_list'[q]) = Elems(done_list[q]) \cup {r}
        /\ Distinct(done_list'[q])
    <3>1. done_list[q] \in Seq(Requests) /\ Distinct(done_list[q])
      BY <1>0 DEF TypeOK, QueuePlaces
    <3> QED
      BY <1>2, <2>1, <3>1, AppendFacts
  <2>4. allocated_requests'[q] = running_requests'[q] + Cardinality(held[q]) + Len(done_list'[q])
    BY <1>1, <1>4, <2>1, <2>3 DEF Counts
  <2>5. TypeOK'
    BY <1>0, <1>1, <1>6, <2>1 DEF TypeOK
  <2>6. Counts(q)'
    BY <1>4, <1>5, <2>1, <2>2, <2>4 DEF Counts
  <2>7. \A p \in Queues \ {q} : Counts(p)'
    BY <1>0, <1>1, <1>3, <2>1, CountsFrame DEF Counters
  <2>8. Counters'
    BY <1>0, <1>9, <2>6, <2>7 DEF Counters
  <2>9. QueuePlaces'
    <3>1. \A p \in Queues \ {q} : Elems(done_list'[p]) = Elems(done_list[p])
      BY <2>1
    <3>2. \A p \in Queues : Distinct(done_list'[p])
      BY <1>0, <2>1, <2>3 DEF QueuePlaces
    <3>3. \A p \in Queues : \A s \in Elems(done_list'[p]) : s \in Elems(done_list[p]) \/ (p = q /\ s = r)
      BY <2>3, <3>1
    <3>4. \A p \in Queues : \A s \in Requests : owner'[s] # None =>
            s \notin held[p] /\ s \notin idle_list[p] /\ s \notin Elems(done_list'[p])
      BY <1>0, <1>1, <3>3, AsioAssumption DEF QueuePlaces
    <3>5. \A p, t \in Queues : \A s \in held[p] :
            s \notin idle_list[t] /\ s \notin Elems(done_list'[t]) /\ (s \in held[t] => t = p)
      BY <1>0, <1>2, <3>3 DEF QueuePlaces
    <3>6. \A p, t \in Queues : \A s \in idle_list[p] :
            s \notin Elems(done_list'[t]) /\ (s \in idle_list[t] => t = p)
      BY <1>0, <1>2, <3>3 DEF QueuePlaces
    <3>7. \A p, t \in Queues : \A s \in Elems(done_list'[p]) : s \in Elems(done_list'[t]) => t = p
      BY <1>0, <1>2, <3>3 DEF QueuePlaces
    <3> QED
      BY <1>0, <2>1, <3>2, <3>4, <3>5, <3>6, <3>7 DEF QueuePlaces
  <2> QED
    BY <1>7, <1>8, <2>5, <2>8, <2>9 DEF IInv
<1> QED
  BY <1>10, <1>11

\* asio_submit gives the request to the pool, behind all that wait there, and
\* there is room under the limit of write-backs.
LEMMA SubmitDoneStep ==
  ASSUME IInv, NEW q \in Queues, SubmitDone(q)
  PROVE  IInv'
<1>0. TypeOK /\ Counters /\ QueuePlaces /\ PoolPlaces /\ InOrder
  BY DEF IInv
<1> DEFINE r == arg[q]
<1>1. pc[q] = "submit" /\ r \in held[q] /\ r \in Requests /\ owner[r] = None
  <2>1. pc[q] = "submit"
    BY DEF SubmitDone
  <2>2. r \in held[q] /\ r \in Requests
    BY <1>0, <2>1 DEF QueuePlaces, TypeOK
  <2>3. owner[r] = None
    BY <1>0, <2>2 DEF QueuePlaces
  <2> QED
    BY <2>1, <2>2, <2>3
<1>2. /\ owner' = [owner EXCEPT ![r] = q] /\ fifo' = Append(fifo, r)
      /\ UNCHANGED <<urgent, serving, finished>>
  BY <1>1 DEF SubmitDone, Pool!Submit
<1>3. /\ op[r] = "WRITE_BACK" => running_writebacks[q] < MaxWritebacks
      /\ running_writebacks' = [running_writebacks EXCEPT ![q] = IF op[r] = "WRITE_BACK" THEN @ + 1 ELSE @]
      /\ running_requests' = [running_requests EXCEPT ![q] = @ + 1]
      /\ held' = [held EXCEPT ![q] = @ \ {r}]
      /\ order' = [order EXCEPT ![q] = Append(@, r)]
      /\ arg' = [arg EXCEPT ![q] = None]
      /\ pc' = [pc EXCEPT ![q] = "run"]
      /\ UNCHANGED <<asio_num_users, allocated_requests, idle_list, done_list, op>>
  <2>1. running_writebacks[q] \in 0..MaxWritebacks
    BY <1>0 DEF TypeOK
  <2> QED
    BY <2>1, AsioAssumption DEF SubmitDone, MustWait, Goto
<1>4. /\ \A p \in Queues : \A s \in Elems(order[p]) : s # r
      /\ r \notin serving /\ r \notin Elems(fifo)
      /\ \A p \in Queues : r \notin idle_list[p] /\ r \notin Elems(done_list[p])
      /\ \A p \in Queues \ {q} : r \notin held[p]
      /\ \A p \in Queues : r \notin finished[p]
  <2>1. \A p \in Queues : p # None
    BY AsioAssumption
  <2>2. \A p \in Queues : \A s \in Elems(order[p]) : s # r
    BY <1>0, <1>1, <2>1 DEF InOrder
  <2>3. r \notin serving /\ r \notin Elems(fifo) /\ \A p \in Queues : r \notin finished[p]
    BY <1>0, <1>1, <2>1 DEF PoolPlaces
  <2>4. /\ \A p \in Queues : r \notin idle_list[p] /\ r \notin Elems(done_list[p])
        /\ \A p \in Queues \ {q} : r \notin held[p]
    BY <1>0, <1>1 DEF QueuePlaces
  <2> QED
    BY <2>2, <2>3, <2>4
<1> HIDE DEF r
<1>5. /\ fifo \in Seq(Requests) /\ \A p \in Queues : order[p] \in Seq(Requests)
      /\ held[q] \subseteq Requests /\ running_requests[q] \in Nat
      /\ running_writebacks[q] \in 0..MaxWritebacks
  BY <1>0 DEF TypeOK
<1>6. /\ owner'[r] = q /\ \A s \in Requests \ {r} : owner'[s] = owner[s]
      /\ held'[q] = held[q] \ {r} /\ \A p \in Queues \ {q} : held'[p] = held[p]
      /\ order'[q] = Append(order[q], r) /\ \A p \in Queues \ {q} : order'[p] = order[p]
      /\ pc'[q] = "run" /\ \A p \in Queues \ {q} : pc'[p] = pc[p] /\ arg'[p] = arg[p]
      /\ running_requests'[q] = running_requests[q] + 1
      /\ running_writebacks'[q] = IF op[r] = "WRITE_BACK" THEN running_writebacks[q] + 1
                                                          ELSE running_writebacks[q]
      /\ \A p \in Queues \ {q} : /\ running_requests'[p] = running_requests[p]
                                 /\ running_writebacks'[p] = running_writebacks[p]
  BY <1>0, <1>1, <1>2, <1>3 DEF TypeOK
<1>7. TypeOK'
  <2>1. fifo' \in Seq(Requests) /\ Append(order[q], r) \in Seq(Requests)
    BY <1>1, <1>2, <1>5, AppendFacts
  <2>2. running_writebacks'[q] \in 0..MaxWritebacks
    BY <1>3, <1>5, <1>6, AsioAssumption
  <2>3. /\ running_writebacks' \in [Queues -> 0..MaxWritebacks] /\ running_requests' \in [Queues -> Nat]
        /\ order' \in [Queues -> Seq(Requests)] /\ held' \in [Queues -> SUBSET Requests]
    BY <1>0, <1>3, <1>6, <2>1, <2>2 DEF TypeOK
  <2>4. /\ owner' \in [Requests -> Queues \cup {None}] /\ arg' \in [Queues -> Requests \cup {None}]
        /\ pc' \in [Queues -> {"none", "run", "submit", "wait", "sync"}]
    BY <1>0, <1>1, <1>2, <1>3 DEF TypeOK
  <2> QED
    BY <1>0, <1>2, <1>3, <2>1, <2>3, <2>4 DEF TypeOK
<1>8. /\ Running(q)' = Running(q) \cup {r} /\ r \notin Running(q)
      /\ \A p \in Queues \ {q} : Running(p)' = Running(p)
  BY <1>1, <1>6, AsioAssumption DEF Running
<1>9. Counts(q)'
  <2>1. /\ Counts(q) /\ Cardinality(held[q]) \in Nat /\ Len(done_list[q]) \in Nat
        /\ IsFiniteSet(Running(q)) /\ IsFiniteSet(Writebacks(q)) /\ IsFiniteSet(held[q])
    BY <1>0, Finites DEF Counters
  <2>2. Cardinality(Running(q) \cup {r}) = Cardinality(Running(q)) + 1
    BY <1>8, <2>1, FS_AddElement
  <2>3. Cardinality(held[q] \ {r}) = Cardinality(held[q]) - 1
    BY <1>1, <2>1, FS_RemoveElement
  <2>4. running_requests'[q] = Cardinality(Running(q)')
    BY <1>6, <1>8, <2>1, <2>2 DEF Counts
  <2>5. running_writebacks'[q] = Cardinality(Writebacks(q)')
    <3>1. CASE op[r] = "WRITE_BACK"
      <4>1. Writebacks(q)' = Writebacks(q) \cup {r} /\ r \notin Writebacks(q)
        BY <1>3, <1>8, <3>1 DEF Writebacks
      <4>2. Cardinality(Writebacks(q) \cup {r}) = Cardinality(Writebacks(q)) + 1
        BY <2>1, <4>1, FS_AddElement
      <4> QED
        BY <1>6, <2>1, <3>1, <4>1, <4>2 DEF Counts
    <3>2. CASE op[r] # "WRITE_BACK"
      <4>1. Writebacks(q)' = Writebacks(q)
        BY <1>3, <1>8, <3>2 DEF Writebacks
      <4> QED
        BY <1>6, <2>1, <3>2, <4>1 DEF Counts
    <3> QED
      BY <3>1, <3>2
  <2>6. allocated_requests[q] = running_requests[q] + Cardinality(held[q]) + Len(done_list[q])
    BY <2>1 DEF Counts
  <2>8. Cardinality(held'[q]) = Cardinality(held[q]) - 1
    BY <1>6, <2>3
  <2>9. /\ Len(done_list[q]) \in Nat /\ Cardinality(held[q]) \in Nat /\ running_requests[q] \in Nat
        /\ running_requests'[q] = running_requests[q] + 1
    BY <1>5, <1>6, <2>1
  <2>7. allocated_requests[q] = running_requests'[q] + Cardinality(held'[q]) + Len(done_list[q])
    BY <2>6, <2>8, <2>9
  <2> QED
    BY <1>3, <1>6, <2>4, <2>5, <2>7 DEF Counts
<1>10. \A p \in Queues \ {q} : Counts(p)'
  BY <1>0, <1>3, <1>6, <1>8, CountsFrame DEF Counters
<1>11. Counters'
  <2>1. Users' = Users
    BY <1>1, <1>6 DEF Users
  <2> QED
    BY <1>0, <1>3, <1>9, <1>10, <2>1 DEF Counters
<1>12. QueuePlaces'
  <2>1. \A p \in Queues : \A s \in Requests : owner'[s] # None =>
          s \notin held'[p] /\ s \notin idle_list[p] /\ s \notin Elems(done_list[p])
    BY <1>0, <1>4, <1>6 DEF QueuePlaces
  <2>2. \A p \in Queues : held'[p] \subseteq held[p]
    BY <1>6
  <2>3. \A p \in Queues : pc'[p] = "submit" => arg'[p] \in held'[p]
    BY <1>0, <1>6 DEF QueuePlaces
  <2> QED
    BY <1>0, <1>3, <2>1, <2>2, <2>3 DEF QueuePlaces
<1>13. /\ Elems(fifo') = Elems(fifo) \cup {r} /\ Distinct(fifo')
       /\ Elems(order'[q]) = Elems(order[q]) \cup {r} /\ Distinct(order'[q])
       /\ DOMAIN fifo' = 1..(Len(fifo) + 1) /\ DOMAIN fifo = 1..Len(fifo) /\ Len(fifo) \in Nat
       /\ fifo'[Len(fifo) + 1] = r /\ \A i \in DOMAIN fifo : fifo'[i] = fifo[i]
       /\ DOMAIN order'[q] = 1..(Len(order[q]) + 1) /\ DOMAIN order[q] = 1..Len(order[q])
       /\ Len(order[q]) \in Nat
       /\ order'[q][Len(order[q]) + 1] = r /\ \A i \in DOMAIN order[q] : order'[q][i] = order[q][i]
  <2>1. Distinct(fifo) /\ Distinct(order[q])
    BY <1>0 DEF PoolPlaces, InOrder
  <2>2. r \notin Elems(fifo) /\ r \notin Elems(order[q])
    BY <1>4
  <2> QED
    BY <1>1, <1>2, <1>5, <1>6, <2>1, <2>2, AppendFacts
<1>14. PoolPlaces'
  <2>0. Elems(fifo) \subseteq Requests /\ serving \subseteq Requests
        /\ \A p \in Queues : finished[p] \subseteq Requests
    BY <1>0, ElemsType DEF TypeOK
  <2>1. \A s \in Elems(fifo') : owner'[s] # None /\ s \notin serving
    BY <1>0, <1>4, <1>6, <1>13, <2>0, AsioAssumption DEF PoolPlaces
  <2>2. \A s \in serving : owner'[s] # None
    BY <1>0, <1>4, <1>6, <2>0 DEF PoolPlaces
  <2>3. \A p \in Queues : \A s \in finished[p] :
          owner'[s] = p /\ s \notin serving /\ s \notin Elems(fifo')
    BY <1>0, <1>4, <1>6, <1>13, <2>0 DEF PoolPlaces
  <2> QED
    BY <1>0, <1>2, <1>13, <2>1, <2>2, <2>3 DEF PoolPlaces
<1>15. InOrder'
  <2>1. \A p \in Queues : Distinct(order'[p])
    BY <1>0, <1>6, <1>13, ZenonT(60) DEF InOrder
  <2>2. ASSUME NEW p \in Queues, NEW s \in Requests
        PROVE  s \in Elems(order'[p]) <=> owner'[s] = p /\ (s \in serving \/ s \in Elems(fifo'))
    <3>0. s \in Elems(order[p]) <=> owner[s] = p /\ (s \in serving \/ s \in Elems(fifo))
      BY <1>0 DEF InOrder
    <3>1. CASE s = r
      <4>1. CASE p = q
        BY <1>6, <1>13, <3>1, <4>1
      <4>2. CASE p # q
        BY <1>4, <1>6, <3>1, <4>2
      <4> QED
        BY <4>1, <4>2
    <3>2. CASE s # r
      <4>1. /\ owner'[s] = owner[s] /\ (s \in Elems(fifo') <=> s \in Elems(fifo))
            /\ (s \in Elems(order'[q]) <=> s \in Elems(order[q]))
        BY <1>6, <1>13, <3>2
      <4>2. s \in Elems(order'[p]) <=> s \in Elems(order[p])
        BY <1>6, <4>1
      <4> QED
        BY <3>0, <4>1, <4>2
    <3> QED
      BY <3>1, <3>2
  <2>3. ASSUME NEW p \in Queues, NEW i \in DOMAIN order'[p], NEW j \in DOMAIN order'[p],
               NEW a \in DOMAIN fifo', NEW b \in DOMAIN fifo',
               order'[p][i] = fifo'[a], order'[p][j] = fifo'[b], a < b
        PROVE  i < j
    <3>1. a \in DOMAIN fifo /\ fifo'[a] = fifo[a] /\ fifo[a] \in Elems(fifo)
      BY <1>13, <2>3 DEF Elems
    <3>2. i \in DOMAIN order[p] /\ order[p][i] = fifo[a]
      <4>1. CASE p = q
        <5>1. i # Len(order[q]) + 1
          BY <1>4, <1>13, <2>3, <3>1, <4>1
        <5>2. i \in DOMAIN order[q]
          BY <1>13, <5>1, <4>1
        <5> QED
          BY <1>13, <2>3, <3>1, <4>1, <5>2
      <4>2. CASE p # q
        BY <1>6, <2>3, <3>1, <4>2
      <4> QED
        BY <4>1, <4>2
    <3>3. CASE b \in DOMAIN fifo
      <4>1. fifo'[b] = fifo[b] /\ fifo[b] \in Elems(fifo)
        BY <1>13, <3>3 DEF Elems
      <4>2. j \in DOMAIN order[p] /\ order[p][j] = fifo[b]
        <5>1. CASE p = q
          <6>1. j # Len(order[q]) + 1
            BY <1>4, <1>13, <2>3, <4>1, <5>1
          <6>2. j \in DOMAIN order[q]
            BY <1>13, <6>1, <5>1
          <6> QED
            BY <1>13, <2>3, <4>1, <5>1, <6>2
        <5>2. CASE p # q
          BY <1>6, <2>3, <4>1, <5>2
        <5> QED
          BY <5>1, <5>2
      <4> QED
        BY <1>0, <2>3, <3>1, <3>2, <3>3, <4>2 DEF InOrder
    <3>4. CASE b \notin DOMAIN fifo
      <4>1. fifo'[b] = r
        BY <1>13, <3>4
      <4>2. p = q
        <5>1. order'[p][j] = r
          BY <2>3, <4>1
        <5>2. CASE p # q
          BY <1>4, <1>6, <5>1, <5>2 DEF Elems
        <5> QED
          BY <5>2
      <4>3. j = Len(order[q]) + 1
        <5>1. \A k \in DOMAIN order[q] : order'[q][k] # r
          BY <1>4, <1>13 DEF Elems
        <5>2. j \in DOMAIN order'[q] /\ order'[q][j] = r
          BY <2>3, <4>1, <4>2
        <5> QED
          BY <1>13, <5>1, <5>2
      <4> QED
        BY <1>13, <3>2, <4>2, <4>3
    <3> QED
      BY <3>3, <3>4
  <2>4. \A p \in Queues : \A s \in serving : owner'[s] = p => order'[p][1] = s
    <3> SUFFICES ASSUME NEW p \in Queues, NEW s \in serving, owner'[s] = p
                 PROVE  order'[p][1] = s
      OBVIOUS
    <3>1. s \in Requests /\ s # r
      BY <1>0, <1>4 DEF TypeOK
    <3>2. owner[s] = p /\ order[p][1] = s /\ s \in Elems(order[p])
      BY <1>0, <1>6, <3>1 DEF InOrder
    <3>3. 1 \in DOMAIN order[p]
      <4>1. DOMAIN order[p] = 1..Len(order[p]) /\ Len(order[p]) \in Nat /\ DOMAIN order[p] # {}
        BY <1>5, <3>2 DEF Elems
      <4> QED
        BY <4>1
    <3>4. CASE p = q
      BY <1>13, <3>2, <3>3, <3>4
    <3>5. CASE p # q
      BY <1>6, <3>2, <3>5
    <3> QED
      BY <3>4, <3>5
  <2> QED
    BY <1>2, <2>1, <2>2, <2>3, <2>4 DEF InOrder
<1> QED
  BY <1>7, <1>11, <1>12, <1>14, <1>15 DEF IInv

\* asio_wait hands over the first request of the done_list.
LEMMA WaitDoneStep ==
  ASSUME IInv, NEW q \in Queues, WaitDone(q)
  PROVE  IInv'
<1>0. TypeOK /\ Counters /\ QueuePlaces /\ PoolPlaces /\ InOrder
  BY DEF IInv
<1> DEFINE r == Head(done_list[q])
<1>1. /\ pc[q] = "wait" /\ done_list[q] # <<>> /\ done_list[q] \in Seq(Requests)
      /\ Distinct(done_list[q])
  BY <1>0 DEF WaitDone, TypeOK, QueuePlaces
<1>2. /\ Tail(done_list[q]) \in Seq(Requests) /\ r \in Requests
      /\ Len(Tail(done_list[q])) = Len(done_list[q]) - 1 /\ Len(done_list[q]) \in Nat
      /\ Elems(done_list[q]) = Elems(Tail(done_list[q])) \cup {r}
      /\ Distinct(Tail(done_list[q])) /\ r \notin Elems(Tail(done_list[q]))
  BY <1>1, TailFacts
<1>3. /\ held' = [held EXCEPT ![q] = @ \cup {r}]
      /\ done_list' = [done_list EXCEPT ![q] = Tail(@)]
      /\ pc' = [pc EXCEPT ![q] = "run"]
      /\ UNCHANGED <<fifo, urgent, serving, finished, owner, asio_num_users, arg, op, order>>
      /\ UNCHANGED <<allocated_requests, running_requests, running_writebacks, idle_list>>
  BY DEF WaitDone, Goto, poolVars
<1>4. /\ owner[r] = None
      /\ \A p \in Queues : r \notin held[p] /\ r \notin idle_list[p]
      /\ \A p \in Queues \ {q} : r \notin Elems(done_list[p])
  BY <1>0, <1>2 DEF QueuePlaces
<1> HIDE DEF r
<1>5. /\ held'[q] = held[q] \cup {r} /\ \A p \in Queues \ {q} : held'[p] = held[p]
      /\ done_list'[q] = Tail(done_list[q]) /\ \A p \in Queues \ {q} : done_list'[p] = done_list[p]
      /\ pc'[q] = "run" /\ \A p \in Queues \ {q} : pc'[p] = pc[p]
  BY <1>0, <1>3 DEF TypeOK
<1>6. TypeOK'
  <2>1. /\ done_list' \in [Queues -> Seq(Requests)] /\ held' \in [Queues -> SUBSET Requests]
        /\ pc' \in [Queues -> {"none", "run", "submit", "wait", "sync"}]
    BY <1>0, <1>2, <1>3 DEF TypeOK
  <2> QED
    BY <1>0, <1>3, <2>1 DEF TypeOK
<1>7. \A p \in Queues : Running(p)' = Running(p) /\ Writebacks(p)' = Writebacks(p)
  BY <1>3 DEF Running, Writebacks
<1>8. Counts(q)'
  <2>1. /\ Counts(q) /\ Cardinality(held[q]) \in Nat /\ running_requests[q] \in Nat
        /\ IsFiniteSet(held[q])
    BY <1>0, Finites DEF Counters, TypeOK
  <2>2. Cardinality(held[q] \cup {r}) = Cardinality(held[q]) + 1
    BY <1>4, <2>1, FS_AddElement
  <2>3. allocated_requests[q] = running_requests[q] + Cardinality(held[q]) + Len(done_list[q])
    BY <2>1 DEF Counts
  <2>5. Cardinality(held'[q]) = Cardinality(held[q]) + 1 /\ Len(done_list'[q]) = Len(done_list[q]) - 1
    BY <1>2, <1>5, <2>2
  <2>6. Len(done_list[q]) \in Nat /\ Cardinality(held[q]) \in Nat /\ running_requests[q] \in Nat
    BY <1>2, <2>1
  <2>4. allocated_requests[q] = running_requests[q] + Cardinality(held'[q]) + Len(done_list'[q])
    BY <2>3, <2>5, <2>6
  <2> QED
    BY <1>3, <1>5, <1>7, <2>1, <2>4 DEF Counts
<1>9. \A p \in Queues \ {q} : Counts(p)'
  BY <1>0, <1>3, <1>5, <1>7, CountsFrame DEF Counters
<1>10. Counters'
  <2>1. Users' = Users
    BY <1>1, <1>5 DEF Users
  <2> QED
    BY <1>0, <1>3, <1>8, <1>9, <2>1 DEF Counters
<1>11. QueuePlaces'
  <2>1. \A p \in Queues : \A s \in Elems(done_list'[p]) : s \in Elems(done_list[p]) /\ s # r
    BY <1>2, <1>4, <1>5
  <2>2. \A p \in Queues : \A s \in held'[p] : s \in held[p] \/ (p = q /\ s = r)
    BY <1>5
  <2>3. \A p \in Queues : Distinct(done_list'[p])
    BY <1>0, <1>2, <1>5 DEF QueuePlaces
  <2>4. \A p \in Queues : pc'[p] = "submit" => arg[p] \in held'[p]
    BY <1>0, <1>5 DEF QueuePlaces
  <2>5. \A p \in Queues : \A s \in Requests : owner[s] # None =>
          s \notin held'[p] /\ s \notin idle_list[p] /\ s \notin Elems(done_list'[p])
    BY <1>0, <1>4, <2>1, <2>2 DEF QueuePlaces
  <2>6. \A p, t \in Queues : \A s \in held'[p] :
          s \notin idle_list[t] /\ s \notin Elems(done_list'[t]) /\ (s \in held'[t] => t = p)
    BY <1>0, <1>4, <2>1, <2>2 DEF QueuePlaces
  <2>7. \A p, t \in Queues : \A s \in idle_list[p] :
          s \notin Elems(done_list'[t]) /\ (s \in idle_list[t] => t = p)
    BY <1>0, <2>1 DEF QueuePlaces
  <2>8. \A p, t \in Queues : \A s \in Elems(done_list'[p]) : s \in Elems(done_list'[t]) => t = p
    BY <1>0, <2>1 DEF QueuePlaces
  <2> QED
    BY <1>3, <2>3, <2>4, <2>5, <2>6, <2>7, <2>8 DEF QueuePlaces
<1>12. PoolPlaces' /\ InOrder'
  BY <1>0, <1>3, PoolFrame
<1> QED
  BY <1>6, <1>10, <1>11, <1>12 DEF IInv

-----------------------------------------------------------------------------
(* Steps of the worker.                                                    *)

\* The worker takes the first request of the list.  It is the first one its
\* queue has submitted: one submitted before it would have to wait behind it.
LEMMA TakeStep ==
  ASSUME IInv, NEW r \in Requests, WorkerTakes(r)
  PROVE  IInv'
<1>0. TypeOK /\ Counters /\ QueuePlaces /\ PoolPlaces /\ InOrder
  BY DEF IInv
<1>1. /\ serving = {} /\ fifo # <<>> /\ r = Head(fifo) /\ fifo' = Tail(fifo)
      /\ serving' = {r} /\ urgent' = urgent
      /\ UNCHANGED <<finished, owner, asio_num_users, pc, arg, op, order>>
      /\ UNCHANGED <<allocated_requests, running_requests, running_writebacks, idle_list, done_list, held>>
  BY <1>0 DEF WorkerTakes, ThreadFree, Pool!Serve, Pool!ServeUrgent, Pool!ServeOrdinary, TypeOK, queueVars
<1>2. /\ fifo \in Seq(Requests) /\ Distinct(fifo) /\ \A p \in Queues : order[p] \in Seq(Requests)
      /\ \A p \in Queues : finished[p] \subseteq Requests
  BY <1>0 DEF TypeOK, PoolPlaces
<1>3. /\ Tail(fifo) \in Seq(Requests) /\ r = fifo[1] /\ 1 \in DOMAIN fifo /\ r \in Elems(fifo)
      /\ DOMAIN fifo = 1..Len(fifo) /\ Len(fifo) \in Nat
      /\ \A i \in DOMAIN fifo' : i \in Nat /\ i + 1 \in DOMAIN fifo /\ fifo'[i] = fifo[i + 1]
      /\ Elems(fifo) = Elems(fifo') \cup {r} /\ Distinct(fifo') /\ r \notin Elems(fifo')
  BY <1>1, <1>2, TailFacts
<1>4. TypeOK'
  BY <1>0, <1>1, <1>3 DEF TypeOK
<1>5. Counters'
  <2>1. Users' = Users
    BY <1>1 DEF Users
  <2>2. \A p \in Queues : Running(p)' = Running(p)
    BY <1>1 DEF Running
  <2> QED
    BY <1>0, <1>1, <2>1, <2>2, CountsFrame DEF Counters
<1>6. QueuePlaces'
  BY <1>0, <1>1, PlacesFrame DEF QueuePlaces
<1>7. PoolPlaces'
  <2>1. \A s \in Elems(fifo') : owner[s] # None /\ s \notin serving'
    BY <1>0, <1>1, <1>3 DEF PoolPlaces
  <2>2. owner[r] # None
    BY <1>0, <1>3 DEF PoolPlaces
  <2>3. \A p \in Queues : \A s \in finished[p] :
          owner[s] = p /\ s \notin serving' /\ s \notin Elems(fifo')
    BY <1>0, <1>1, <1>3 DEF PoolPlaces
  <2> QED
    BY <1>1, <1>3, <2>1, <2>2, <2>3 DEF PoolPlaces
<1>8. InOrder'
  <2>1. \A p \in Queues : \A s \in Requests :
          s \in Elems(order[p]) <=> owner[s] = p /\ (s \in serving' \/ s \in Elems(fifo'))
    BY <1>0, <1>1, <1>3 DEF InOrder
  <2>2. ASSUME NEW p \in Queues, NEW i \in DOMAIN order[p], NEW j \in DOMAIN order[p],
               NEW a \in DOMAIN fifo', NEW b \in DOMAIN fifo',
               order[p][i] = fifo'[a], order[p][j] = fifo'[b], a < b
        PROVE  i < j
    <3>1. /\ a \in Nat /\ a + 1 \in DOMAIN fifo /\ fifo'[a] = fifo[a + 1]
          /\ b \in Nat /\ b + 1 \in DOMAIN fifo /\ fifo'[b] = fifo[b + 1]
      BY <1>3
    <3>2. a + 1 < b + 1
      BY <2>2, <3>1
    <3> QED
      BY <1>0, <2>2, <3>1, <3>2 DEF InOrder
  <2>3. ASSUME NEW p \in Queues, owner[r] = p
        PROVE  order[p][1] = r
    <3>1. DOMAIN order[p] = 1..Len(order[p]) /\ Len(order[p]) \in Nat /\ order[p] \in Seq(Requests)
      BY <1>2
    <3>2. r \in Elems(order[p])
      BY <1>0, <1>3, <2>3 DEF InOrder
    <3>3. PICK i \in DOMAIN order[p] : order[p][i] = r
      BY <3>2 DEF Elems
    <3>4. 1 \in DOMAIN order[p]
      BY <3>1, <3>3
    <3>5. order[p][1] \in Elems(order[p]) /\ order[p][1] \in Requests
      BY <3>1, <3>4 DEF Elems
    <3>6. order[p][1] \in Elems(fifo)
      BY <1>0, <1>1, <3>5 DEF InOrder
    <3>7. PICK b \in DOMAIN fifo : order[p][1] = fifo[b]
      BY <3>6 DEF Elems
    <3>8. CASE b = 1
      BY <1>3, <3>7, <3>8
    <3>9. CASE b # 1
      <4>1. 1 < b
        BY <1>3, <3>9
      <4>2. i < 1
        BY <1>0, <1>3, <3>3, <3>4, <3>7, <4>1 DEF InOrder
      <4> QED
        BY <3>1, <3>3, <4>2
    <3> QED
      BY <3>8, <3>9
  <2> QED
    BY <1>0, <1>1, <2>1, <2>2, <2>3 DEF InOrder
<1> QED
  BY <1>4, <1>5, <1>6, <1>7, <1>8 DEF IInv

\* asio_handler ends with the first request of its queue.
LEMMA HandlerStep ==
  ASSUME IInv, NEW r \in Requests, AsioHandler(r)
  PROVE  IInv'
<1>0. TypeOK /\ Counters /\ QueuePlaces /\ PoolPlaces /\ InOrder
  BY DEF IInv
<1>1. r \in serving /\ owner[r] \in Queues
  BY <1>0 DEF AsioHandler, Pool!Finish, PoolPlaces, TypeOK
<1>2. PICK q \in Queues : owner[r] = q
  BY <1>1
<1>3. /\ serving = {r} /\ serving' = {} /\ serving' = serving \ {r}
      /\ finished' = [finished EXCEPT ![q] = @ \cup {r}]
      /\ order' = [order EXCEPT ![q] = Without(@, r)]
      /\ UNCHANGED <<fifo, urgent, owner, asio_num_users, pc, arg, op>>
      /\ UNCHANGED <<allocated_requests, running_requests, running_writebacks, idle_list, done_list, held>>
  BY <1>0, <1>1, <1>2 DEF AsioHandler, Pool!Finish, PoolPlaces, queueVars
<1>4. /\ order[q] \in Seq(Requests) /\ Distinct(order[q]) /\ order[q][1] = r /\ order[q] # <<>>
  <2>1. order[q] \in Seq(Requests) /\ Distinct(order[q]) /\ order[q][1] = r
    BY <1>0, <1>1, <1>2 DEF TypeOK, InOrder
  <2>2. r \in Elems(order[q])
    BY <1>0, <1>1, <1>2 DEF InOrder
  <2> QED
    BY <2>1, <2>2 DEF Elems
<1>5. /\ order'[q] = Tail(order[q]) /\ \A p \in Queues \ {q} : order'[p] = order[p]
      /\ finished'[q] = finished[q] \cup {r} /\ \A p \in Queues \ {q} : finished'[p] = finished[p]
  <2>1. Without(order[q], r) = Tail(order[q])
    BY <1>4, WithoutFirst
  <2> QED
    BY <1>0, <1>3, <2>1 DEF TypeOK
<1>6. /\ Tail(order[q]) \in Seq(Requests)
      /\ \A i \in DOMAIN order'[q] : i \in Nat /\ i + 1 \in DOMAIN order[q] /\ order'[q][i] = order[q][i + 1]
      /\ Elems(order[q]) = Elems(order'[q]) \cup {r} /\ Distinct(order'[q]) /\ r \notin Elems(order'[q])
  <2>1. Head(order[q]) = r
    BY <1>4, TailFacts
  <2> QED
    BY <1>4, <1>5, <2>1, TailFacts
<1>7. TypeOK'
  <2>1. order' \in [Queues -> Seq(Requests)] /\ finished' \in [Queues -> SUBSET Requests]
    BY <1>0, <1>3, <1>5, <1>6 DEF TypeOK
  <2> QED
    BY <1>0, <1>3, <2>1 DEF TypeOK
<1>8. Counters'
  <2>1. Users' = Users
    BY <1>3 DEF Users
  <2>2. \A p \in Queues : Running(p)' = Running(p)
    BY <1>3 DEF Running
  <2> QED
    BY <1>0, <1>3, <2>1, <2>2, CountsFrame DEF Counters
<1>9. QueuePlaces'
  BY <1>0, <1>3, PlacesFrame DEF QueuePlaces
<1>10. r \notin Elems(fifo)
  BY <1>0, <1>1 DEF PoolPlaces
<1>11. PoolPlaces'
  <2>1. \A p \in Queues : \A s \in finished'[p] : owner[s] = p /\ s \notin Elems(fifo)
    BY <1>0, <1>2, <1>5, <1>10 DEF PoolPlaces
  <2> QED
    BY <1>0, <1>3, <2>1 DEF PoolPlaces
<1>12. InOrder'
  <2>1. \A p \in Queues : Distinct(order'[p])
    BY <1>0, <1>5, <1>6 DEF InOrder
  <2>2. ASSUME NEW p \in Queues, NEW s \in Requests
        PROVE  s \in Elems(order'[p]) <=> owner[s] = p /\ s \in Elems(fifo)
    <3>1. s \in Elems(order[p]) <=> owner[s] = p /\ (s = r \/ s \in Elems(fifo))
      BY <1>0, <1>3 DEF InOrder
    <3>2. CASE p = q
      BY <1>6, <1>10, <3>1, <3>2
    <3>3. CASE p # q
      BY <1>2, <1>5, <3>1, <3>3
    <3> QED
      BY <3>2, <3>3
  <2>3. ASSUME NEW p \in Queues, NEW i \in DOMAIN order'[p], NEW j \in DOMAIN order'[p],
               NEW a \in DOMAIN fifo, NEW b \in DOMAIN fifo,
               order'[p][i] = fifo[a], order'[p][j] = fifo[b], a < b
        PROVE  i < j
    <3>1. CASE p = q
      <4>1. /\ i \in Nat /\ i + 1 \in DOMAIN order[q] /\ order[q][i + 1] = fifo[a]
            /\ j \in Nat /\ j + 1 \in DOMAIN order[q] /\ order[q][j + 1] = fifo[b]
        BY <1>6, <2>3, <3>1
      <4>2. i + 1 < j + 1
        BY <1>0, <2>3, <4>1 DEF InOrder
      <4> QED
        BY <4>1, <4>2
    <3>2. CASE p # q
      BY <1>0, <1>5, <2>3, <3>2 DEF InOrder
    <3> QED
      BY <3>1, <3>2
  <2> QED
    BY <1>3, <2>1, <2>2, <2>3 DEF InOrder
<1> QED
  BY <1>7, <1>8, <1>9, <1>11, <1>12 DEF IInv

-----------------------------------------------------------------------------
(* The theorems.                                                           *)

LEMMA ClientInvariance ==
  ASSUME IInv, NEW q \in Queues, ClientStep(q) \/ ClientCall(q)
  PROVE  IInv'
<1>0. TypeOK /\ QueuePlaces
  BY DEF IInv
<1>1. CASE SubmitWait(q) \/ WaitMore(q) \/ SyncWait(q)
  <2>1. /\ pc[q] # "none" /\ \E r \in Requests : RawWait(q, r)
        /\ UNCHANGED <<asio_num_users, pc, arg, held, op, order>>
    BY <1>1 DEF SubmitWait, WaitMore, SyncWait
  <2> QED
    BY <2>1, RawWaitStep
<1>2. CASE SubmitDone(q)
  BY <1>2, SubmitDoneStep
<1>3. CASE WaitDone(q)
  BY <1>3, WaitDoneStep
<1>4. CASE WaitNull(q) \/ SyncDone(q) \/ AsioWait(q) \/ AsioSync(q)
  <2>1. PICK x \in {"run", "wait", "sync"} : pc' = [pc EXCEPT ![q] = x]
    BY <1>4 DEF WaitNull, SyncDone, AsioWait, AsioSync, Goto
  <2>2. /\ pc[q] # "none"
        /\ UNCHANGED <<poolVars, asio_num_users, arg, queueVars, op, order>>
    BY <1>4 DEF WaitNull, SyncDone, AsioWait, AsioSync
  <2>3. /\ arg' \in [Queues -> Requests \cup {None}]
        /\ op' \in [Requests -> {"FREE", "READ", "WRITE_BACK"}]
    BY <1>0, <2>2 DEF TypeOK
  <2>4. x \in {"run", "submit", "wait", "sync"} /\ x # "submit"
    BY <2>1
  <2> QED
    BY <2>1, <2>2, <2>3, <2>4, ControlStep
<1>5. CASE AsioInitQueue(q)
  BY <1>5, InitQueueStep
<1>6. CASE AsioCleanupQueue(q)
  BY <1>6, CleanupQueueStep
<1>7. ASSUME NEW r \in Requests, AsioGet(q, r)
      PROVE  IInv'
  BY <1>7, GetStep
<1>8. ASSUME NEW r \in Requests, UserPut(q, r)
      PROVE  IInv'
  BY <1>8, PutStep
<1>9. ASSUME NEW r \in Requests, NEW o \in {"READ", "WRITE_BACK"}, AsioSubmit(q, r, o)
      PROVE  IInv'
  <2>1. /\ pc[q] = "run" /\ r \in held[q] /\ op' = [op EXCEPT ![r] = o]
        /\ arg' = [arg EXCEPT ![q] = r] /\ pc' = [pc EXCEPT ![q] = "submit"]
        /\ UNCHANGED <<poolVars, asio_num_users, queueVars, order>>
    BY <1>9 DEF AsioSubmit, Goto
  <2>2. /\ arg' \in [Queues -> Requests \cup {None}] /\ arg'[q] = r
        /\ \A p \in Queues \ {q} : arg'[p] = arg[p]
        /\ op' \in [Requests -> {"FREE", "READ", "WRITE_BACK"}]
        /\ \A s \in Requests \ {r} : op'[s] = op[s]
    BY <1>0, <2>1 DEF TypeOK
  <2>3. owner[r] = None
    BY <1>0, <2>1 DEF QueuePlaces
  <2>4. \A s \in Requests : owner[s] # None => op'[s] = op[s]
    BY <2>2, <2>3
  <2>5. "submit" \in {"run", "submit", "wait", "sync"} /\ pc[q] # "none" /\ arg'[q] \in held[q]
    BY <2>1, <2>2
  <2> QED
    BY <2>1, <2>2, <2>4, <2>5, ControlStep
<1> QED
  BY <1>1, <1>2, <1>3, <1>4, <1>5, <1>6, <1>7, <1>8, <1>9 DEF ClientStep, ClientCall

\* The inductive invariant of asio.c: every request is in one place, the
\* counters are the numbers of requests in those places, and the pool keeps the
\* order of each queue.
THEOREM AsioInvariance == Spec => []IInv
<1>1. ASSUME IInv, [Next]_vars
      PROVE  IInv'
  <2>1. CASE \E q \in Queues : ClientStep(q) \/ ClientCall(q)
    BY <1>1, <2>1, ClientInvariance
  <2>2. CASE WorkerStep
    BY <1>1, <2>2, TakeStep, HandlerStep DEF WorkerStep
  <2>3. CASE UNCHANGED vars
    <3>1. TypeOK'
      BY <1>1, <2>3 DEF IInv, TypeOK, vars, poolVars, queueVars
    <3>4. Users' = Users /\ \A p \in Queues : Running(p)' = Running(p)
      BY <2>3 DEF Users, Running, vars, poolVars
    <3>5. Counters'
      BY <1>1, <2>3, <3>4, CountsFrame DEF IInv, Counters, vars, queueVars
    <3>2. QueuePlaces'
      BY <1>1, <2>3 DEF IInv, QueuePlaces, vars, poolVars, queueVars
    <3>3. PoolPlaces' /\ InOrder'
      BY <1>1, <2>3, PoolFrame DEF IInv, vars, poolVars
    <3> QED
      BY <3>1, <3>2, <3>3, <3>5 DEF IInv
  <2> QED
    BY <1>1, <2>1, <2>2, <2>3 DEF Next
<1> QED
  BY <1>1, InitInvariant, PTL DEF Spec

\* The counters of a queue are exact: so asio_submit and asio_sync find a
\* request to wait for whenever they look for one, the ASSERTs of
\* asio_cleanup_queue hold for a queue that has its requests back, and the pool
\* exists while there is a user.
THEOREM CountersStayExact == Spec => []CountersExact
<1>1. IInv => CountersExact
  BY DEF IInv, Counters, Counts, Users, Writebacks, CountersExact
<1> QED
  BY <1>1, AsioInvariance, PTL

\* The request in the hands of the worker is the oldest one of its queue.
THEOREM OrderOfService == Spec => []ProcessedInOrder
<1>1. ASSUME IInv PROVE ProcessedInOrder
  <2> SUFFICES ASSUME NEW r \in serving PROVE r = Head(order[owner[r]])
    BY DEF ProcessedInOrder
  <2>1. PICK q \in Queues : owner[r] = q
    BY <1>1 DEF IInv, PoolPlaces, TypeOK
  <2>2. r \in Requests /\ order[q] \in Seq(Requests) /\ order[q][1] = r
    BY <1>1, <2>1 DEF IInv, TypeOK, InOrder
  <2>3. r \in Elems(order[q])
    BY <1>1, <2>1, <2>2 DEF IInv, InOrder
  <2>4. order[q] # <<>>
    BY <2>3 DEF Elems
  <2> QED
    BY <2>1, <2>2, <2>4, TailFacts
<1> QED
  BY <1>1, AsioInvariance, PTL

=============================================================================
