---------------------------- MODULE Transactions ----------------------------
(***************************************************************************)
(* Transactions, exceptions and resource pools of one thread (ucw/trans.c, *)
(* ucw/trans.h, ucw/resource.c, ucw/resource.h, ucw/res-subpool.c).        *)
(*                                                                         *)
(* Everything allocated gets the next identifier.  The trans_pool is the   *)
(* stack mem of identifiers: mp_push is its length and mp_restore cuts it, *)
(* so that whatever is not in mem any more is a dangling pointer.  A       *)
(* transaction, its mempool_state and its respool are allocated together   *)
(* and share one identifier.  Outside of all transactions the program has  *)
(* one pool Ext of its own, whose resources are malloc'ed.  The code run   *)
(* by the transactions keeps their pools active.                           *)
(***************************************************************************)
EXTENDS Integers, Sequences, SequencesExt, FiniteSets, Lists

CONSTANTS
  MaxId,    \* bound: how many objects are ever allocated
  MaxDepth, \* bound: how deep transactions are nested
  MaxTouch  \* bound: how often the program itself frees, detaches or marks a
            \* resource or switches or deletes a pool

Ext  == 1   \* the freestanding pool of the program
None == 0   \* NULL

Ids == 1..MaxId

VARIABLES
  trans,     \* the stack of struct trans, the current one last
  flying,    \* the exception trans_throw_exc is delivering, or None
  cur,       \* current_respool
  list,      \* resources of each pool, the oldest first
  sub,       \* the pool a resource of the class subpool stands for, or None
  temp,      \* the resources with RES_FLAG_TEMP
  permPools, \* the pools whose default_res_flags were cleared by the program
  made,      \* the objects created by res_new; history
  freed,     \* the objects freed so far, in order; history
  detached,  \* the objects detached so far; history
  marked,    \* the object res_permanent was called for, unless it was rolled
             \* back or freed by the program since, or None; history
  mem,       \* what lies in trans_pool
  lastId,
  touched,   \* how many of MaxTouch were used
  dead       \* the program died

resVars   == <<list, sub, temp, permPools, made, freed, detached, marked>>
transVars == <<trans, flying, cur, list, sub, temp, permPools, made, freed,
               detached, marked, mem, lastId, touched, dead>>

Top      == trans[Len(trans)]
NewId    == lastId + 1
CanAlloc == lastId < MaxId
Running  == ~dead /\ flying = None
Touch    == touched < MaxTouch /\ touched' = touched + 1

\* The program runs the body of the current transaction, not its handler
InBody == Running /\ trans # <<>> /\ Top.exc = None

-----------------------------------------------------------------------------
(* Resource pools *)

\* What is freed of the resources s, from the last one, when those in rs are
\* freed; a sub-pool is deleted by subpool_res_free when its turn comes, and
\* f[p] is what deleting the pool p frees
FreedFrom(f, s, rs) ==
  LET done[n \in 0..Len(s)] ==
        IF n = 0 THEN <<>>
        ELSE (IF s[n] \notin rs THEN <<>>
              ELSE IF sub[s[n]] = None THEN <<s[n]>> ELSE f[sub[s[n]]]) \o done[n - 1]
  IN  done[Len(s)]

\* The objects rp_delete(p) frees, from the tail of the pool
Freeing[p \in Ids] == FreedFrom(Freeing, list[p], Ids)

\* The pool p and the pools that go with it
Under[p \in Ids] ==
  {p} \cup UNION {Under[sub[r]] : r \in {q \in ToSet(list[p]) : sub[q] # None}}

Emptied(ps) == [p \in Ids |-> IF p \in ps THEN <<>> ELSE list[p]]

Unmarked(rs) == IF marked \in rs THEN None ELSE marked

\* Mutant: the oldest resource is freed first
RpDeleteOldestFirst(p) ==
  /\ freed' = freed \o Reverse(Freeing[p])
  /\ list' = Emptied(Under[p])
  /\ marked' = Unmarked(ToSet(Freeing[p]))
  /\ UNCHANGED <<sub, temp, permPools, made, detached>>

\* rp_delete; the caller says which pool is current afterwards
RpDelete(p) ==
  /\ freed' = freed \o Freeing[p]
  /\ list' = Emptied(Under[p])
  /\ marked' = Unmarked(ToSet(Freeing[p]))
  /\ UNCHANGED <<sub, temp, permPools, made, detached>>

\* rp_commit, from the head: temporary resources are freed, the others
\* detached; a detached sub-pool is only forgotten by subpool_res_detach
RpCommit(p) ==
  /\ freed' = freed \o FreedFrom(Freeing, Reverse(list[p]), temp)
  /\ detached' = detached \cup
                   {r \in ToSet(list[p]) : r \notin temp /\ sub[r] = None}
  /\ list' = Emptied({p} \cup
       UNION {Under[sub[r]] : r \in {q \in ToSet(list[p]) \cap temp : sub[q] # None}})
  /\ UNCHANGED <<sub, temp, permPools, made, marked>>

\* res_alloc and res_add of a resource in pool p, for sub-pool s or an object
ResNew(p, s) ==
  /\ lastId' = NewId
  /\ mem' = IF p = Ext THEN mem ELSE Append(mem, NewId)
  /\ list' = [list EXCEPT ![p] = Append(@, NewId)]
  /\ sub' = [sub EXCEPT ![NewId] = s]
  /\ temp' = IF p \in permPools THEN temp ELSE temp \cup {NewId}
  /\ made' = IF s = None THEN made \cup {NewId} ELSE made

\* What user code does in the active pool: res_new of any class of objects
Create ==
  /\ Running /\ CanAlloc
  /\ cur # None
  /\ ResNew(cur, None)
  /\ UNCHANGED <<trans, flying, cur, permPools, freed, detached, marked, touched, dead>>

Held == {r \in made : \E p \in Ids : r \in ToSet(list[p])}

Unlinked(r) == [p \in Ids |-> Without(list[p], r)]

\* res_free of a single object, wherever it is linked
Free(r) ==
  /\ Running /\ Touch
  /\ list' = Unlinked(r)
  /\ freed' = Append(freed, r)
  /\ marked' = Unmarked({r})
  /\ UNCHANGED <<trans, flying, cur, sub, temp, permPools, made, detached,
                 mem, lastId, dead>>

\* res_detach of a single object
Detach(r) ==
  /\ Running /\ Touch
  /\ list' = Unlinked(r)
  /\ detached' = detached \cup {r}
  /\ UNCHANGED <<trans, flying, cur, sub, temp, permPools, made, freed,
                 marked, mem, lastId, dead>>

\* res_permanent: flags &= RES_FLAG_TEMP keeps the flag as it is (and loses
\* RES_FLAG_XFREE, which only says who frees the meta-data)
MarkPermanent(r) ==
  /\ Running /\ Touch
  /\ marked = None
  /\ marked' = r
  /\ temp' = temp \cap (temp \cup {r})
  /\ UNCHANGED <<trans, flying, cur, list, sub, permPools, made, freed,
                 detached, mem, lastId, dead>>

\* The program clears default_res_flags of the pool of a transaction
DefaultPermanent ==
  /\ InBody /\ Touch
  /\ permPools = {}
  /\ permPools' = {Top.rpool}
  /\ UNCHANGED <<trans, flying, cur, list, sub, temp, made, freed, detached,
                 marked, mem, lastId, dead>>

\* rp_switch by the program, outside of transactions
SwitchExt ==
  /\ Running /\ Touch
  /\ trans = <<>>
  /\ cur' = IF cur = None THEN Ext ELSE None
  /\ UNCHANGED <<trans, flying, list, sub, temp, permPools, made, freed,
                 detached, marked, mem, lastId, dead>>

\* rp_delete of the pool of the program; rp_free deactivates it
DeleteExt ==
  /\ Running /\ Touch
  /\ trans = <<>>
  /\ list[Ext] # <<>>
  /\ RpDelete(Ext)
  /\ cur' = None
  /\ UNCHANGED <<trans, flying, mem, lastId, dead>>

-----------------------------------------------------------------------------
(* Transactions *)

\* TRANS_TRY: trans_open
Open ==
  /\ Running /\ CanAlloc
  /\ Len(trans) < MaxDepth
  /\ trans' = Append(trans, [rpool |-> NewId, prev |-> cur, exc |-> None,
                             mark |-> Len(mem)])
  /\ lastId' = NewId
  /\ mem' = Append(mem, NewId)
  /\ cur' = NewId
  /\ UNCHANGED <<flying, resVars, touched, dead>>

\* trans_pop
Pop == cur' = Top.prev /\ trans' = Front(trans)

\* trans_drop
Drop == mem' = SubSeq(mem, 1, Top.mark)

\* TRANS_CATCH reached at the end of the body: trans_commit
Commit ==
  /\ InBody
  /\ RpCommit(Top.rpool)
  /\ Pop /\ Drop
  /\ UNCHANGED <<flying, lastId, touched, dead>>

RollbackTop ==
  /\ RpDelete(Top.rpool)
  /\ Pop /\ Drop
  /\ UNCHANGED <<flying, lastId, touched, dead>>

\* trans_rollback called from the body
Rollback == InBody /\ RollbackTop

\* Mutant: the memory of a folded transaction is released
FoldTopDropping ==
  /\ Len(trans) > 1 /\ CanAlloc
  /\ Pop
  /\ lastId' = NewId
  /\ mem' = Append(SubSeq(mem, 1, Top.mark), NewId)
  /\ list' = [list EXCEPT ![Top.prev] = Append(@, NewId)]
  /\ sub' = [sub EXCEPT ![NewId] = Top.rpool]
  /\ temp' = IF Top.prev \in permPools THEN temp ELSE temp \cup {NewId}
  /\ UNCHANGED <<permPools, made, freed, detached, marked, touched, dead>>

\* trans_fold: after trans_pop, the pool becomes a sub-pool of the active one
FoldTop ==
  /\ Len(trans) > 1 /\ CanAlloc
  /\ Pop
  /\ ResNew(Top.prev, Top.rpool)
  /\ UNCHANGED <<permPools, freed, detached, marked, touched, dead>>

\* trans_fold called from the body
Fold == InBody /\ FoldTop /\ UNCHANGED flying

\* trans_throw: trans_vthrow allocates the exception from trans_pool; the
\* program dies when there is no transaction
Throw ==
  /\ Running /\ CanAlloc
  /\ lastId' = NewId
  /\ IF trans = <<>>
     THEN dead' = TRUE /\ UNCHANGED <<flying, mem>>
     ELSE /\ flying' = NewId
          /\ mem' = Append(mem, NewId)
          /\ UNCHANGED dead
  /\ UNCHANGED <<trans, cur, resVars, touched>>

\* trans_throw_exc of an exception that some handler is working on
Rethrow(i) ==
  /\ Running
  /\ trans[i].exc # None
  /\ flying' = trans[i].exc
  /\ UNCHANGED <<trans, cur, resVars, mem, lastId, touched, dead>>

\* One turn of the loop of trans_throw_exc: the exception was thrown by a
\* handler, whose transaction is folded into its parent, if there is any
ThrowFold ==
  /\ flying # None /\ ~dead
  /\ Top.exc # None
  /\ IF Len(trans) = 1
     THEN /\ dead' = TRUE
          /\ UNCHANGED <<trans, flying, cur, resVars, mem, lastId, touched>>
     ELSE FoldTop /\ UNCHANGED flying

\* The end of trans_throw_exc: jump to the handler of the transaction
ThrowJump ==
  /\ flying # None /\ ~dead
  /\ Top.exc = None
  /\ trans' = [trans EXCEPT ![Len(trans)].exc = flying]
  /\ flying' = None
  /\ UNCHANGED <<cur, resVars, mem, lastId, touched, dead>>

\* TRANS_END reached at the end of the handler: trans_caught
Caught ==
  /\ Running
  /\ trans # <<>>
  /\ Top.exc # None
  /\ RollbackTop

-----------------------------------------------------------------------------

Init ==
  /\ trans = <<>>
  /\ flying = None
  /\ cur = Ext
  /\ list = [p \in Ids |-> <<>>]
  /\ sub = [r \in Ids |-> None]
  /\ temp = {} /\ permPools = {}
  /\ made = {} /\ freed = <<>> /\ detached = {} /\ marked = None
  /\ mem = <<>>
  /\ lastId = Ext /\ touched = 0
  /\ dead = FALSE

Next ==
  \/ Create
  \/ \E r \in Held : Free(r) \/ Detach(r) \/ MarkPermanent(r)
  \/ DefaultPermanent
  \/ SwitchExt
  \/ DeleteExt
  \/ Open \/ Commit \/ Rollback \/ Fold
  \/ Throw \/ ThrowFold \/ ThrowJump \/ Caught
  \/ \E i \in 1..Len(trans) : Rethrow(i)

Spec == Init /\ [][Next]_transVars

-----------------------------------------------------------------------------

\* The pools of the open transactions with all that is folded into them
Tracked == UNION {Under[trans[i].rpool] : i \in 1..Len(trans)}

\* Whatever the transaction system may still touch -- the transactions, their
\* pools, the resources in them and in the pools folded into them, every
\* exception a handler is looking at or that is on its way, the active pool --
\* has not been released by mp_restore.  trans.txt promises that the folded
\* pools and the exception remain accessible until trans_caught.
TransMemoryLive ==
  ~dead =>
    /\ Tracked \subseteq ToSet(mem)
    /\ \A p \in Tracked : ToSet(list[p]) \subseteq ToSet(mem)
    /\ \A i \in 1..Len(trans) : trans[i].exc # None => trans[i].exc \in ToSet(mem)
    /\ flying # None => flying \in ToSet(mem)
    /\ cur \in {None, Ext} \cup Tracked

\* The pools rp_commit detached together with their resources: sub-pools
\* folded into a pool whose resources are permanent by default
Abandoned ==
  UNION {Under[sub[r]] : r \in {q \in Ids : /\ sub[q] # None
                                            /\ q \notin temp
                                            /\ \A p \in Ids : q \notin ToSet(list[p])}}

\* No object is freed twice or both freed and detached, none is in two pools,
\* and none is lost: it is freed, detached, or in a pool of an open
\* transaction, of the program, or abandoned by a commit (resource.c).
ResourcesAccounted ==
  /\ IsInjective(freed)
  /\ ToSet(freed) \cap detached = {}
  /\ \A r \in made :
       LET homes == {p \in Ids : r \in ToSet(list[p])}
       IN  IF r \in ToSet(freed) \cup detached THEN homes = {}
           ELSE \E p \in Tracked \cup {Ext} \cup Abandoned : homes = {p}

\* When a transaction is rolled back or its exception is caught, exactly what
\* was created since it was opened -- by itself and by everything folded into
\* it -- and is still tracked gets freed, the youngest first, so that a
\* resource may refer to the older ones (trans.txt).
RollbackUndoes ==
  [][ Rollback \/ Caught =>
        LET born == {r \in made : /\ r > Top.rpool
                                  /\ r \notin ToSet(freed) \cup detached
                                  /\ \A p \in Abandoned : r \notin ToSet(list[p])}
            undone == SubSeq(freed', Len(freed) + 1, Len(freed'))
        IN  /\ freed' = freed \o undone /\ ToSet(undone) = born
            /\ \A m, n \in DOMAIN undone : m < n => undone[m] > undone[n] ]_transVars

\* res_permanent "marks a resource as permanent" (resource.h): a commit
\* detaches it, so that only a rollback or the program itself frees it.
PermanentSurvives == marked # None => marked \notin ToSet(freed)

=============================================================================
