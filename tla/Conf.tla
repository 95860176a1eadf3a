-------------------------------- MODULE Conf --------------------------------
(***************************************************************************)
(* Loading, changing, reloading and rolling back of the configuration      *)
(* (ucw/conf-input.c, ucw/conf-journal.c, ucw/conf-section.c and the       *)
(* assignments of ucw/conf-intr.c), journalling enabled.                   *)
(*                                                                         *)
(* The configuration variables are cells of memory.  A cell holds a value  *)
(* and the memory pool the value lies in (0: no pool), and a pool that was *)
(* deleted is not in the set of live pools any more.  A text is a sequence *)
(* of lines and each line sets several cells, starting with one, as a      *)
(* static array does; the blocks it journals may overlap.  A line that is  *)
(* not ok fails after it has written its first value.  The text of a file  *)
(* may differ each time it is read; the text of a string does not.         *)
(***************************************************************************)
EXTENDS Integers, Sequences, SequencesExt

CONSTANTS
  Cells,     \* the configuration variables, 1..n; the last one is written by
             \* the commit hook only
  Files,     \* the texts a configuration file may have
  Strings,   \* the texts passed to cf_set
  Reject,    \* the commit hook refuses this value of the first cell
  MaxPools,  \* bound: memory pools ever created
  MaxJournal \* bound: items of the journal

VARIABLES
  cells,     \* the memory
  journal,   \* cc->journal, the newest item first
  pool,      \* cc->pool
  pools,     \* cc->pools, the newest first
  live,      \* the pools that exist; memory outside of them is freed
  lastPool,
  entries,   \* cc->conf_entries: type, argument (as the text it had; history)
  dirty,     \* cc->dirties > 0
  committed, \* cc->everything_committed
  postpone,  \* cc->postpone_commit
  loaded,    \* cc->config_loaded
  op,        \* the operation being run and its local variables
  unremembered \* the text of the last cf_reload(file), which is not among the
             \* entries, and which the next cf_reload forgets; history

confVars == <<cells, journal, pool, pools, live, lastPool, entries, dirty,
              committed, postpone, loaded, op, unremembered>>

Derived  == CHOOSE c \in Cells : \A d \in Cells : d <= c
Defaults == [c \in Cells |-> [v |-> 0, pool |-> 0]]

Idle == [name |-> "idle", text |-> <<>>, oldj |-> <<>>, oldEntries |-> <<>>,
         todo |-> <<>>, ec |-> FALSE, before |-> Defaults, now |-> <<>>,
         err |-> FALSE]

-----------------------------------------------------------------------------
(* The journal *)

\* cf_journal_block of the cells cs
Block(cs) == [at |-> cs, copy |-> [c \in cs |-> cells[c]], pool |-> pool]

\* One item is swapped with memory m
SwapItem(m, item) == [c \in Cells |-> IF c \in item.at THEN item.copy[c] ELSE m[c]]

\* Memory m after the items of j, the first one first, were swapped with it
Swapped(m, j) ==
  LET after[n \in 0..Len(j)] == IF n = 0 THEN m ELSE SwapItem(after[n - 1], j[n])
  IN  after[Len(j)]

\* Mutant: the swapped items stay in their old order
SwappedInOrder(m, j) ==
  [i \in 1..Len(j) |-> [j[i] EXCEPT !.copy = [c \in j[i].at |->
                                               Swapped(m, SubSeq(j, 1, i - 1))[c]]]]

\* The items after cf_journal_swap, in their new order: each one got the
\* memory as the preceding items had left it
SwappedItems(m, j) ==
  Reverse([i \in 1..Len(j) |->
             [j[i] EXCEPT !.copy = [c \in j[i].at |->
                                      Swapped(m, SubSeq(j, 1, i - 1))[c]]]])

\* cf_journal_new_transaction(1) and (0)
NewPool ==
  /\ lastPool < MaxPools
  /\ lastPool' = lastPool + 1
  /\ pool' = lastPool + 1
  /\ live' = live \cup {lastPool + 1}

SamePool == UNCHANGED <<lastPool, pool, live>>

\* cf_journal_commit_transaction: oldj is linked behind the journal j
CommitTransaction(newPool, oldj, j) ==
  /\ journal' = j \o oldj
  /\ pools' = IF newPool THEN <<pool>> \o pools ELSE pools

\* cf_journal_rollback_transaction, without the swap of the memory
RollbackTransaction(newPool, oldj) ==
  /\ journal' = oldj
  /\ IF newPool
     THEN /\ live' = live \ {pool}
          /\ pool' = IF pools = <<>> THEN 0 ELSE Head(pools)
     ELSE UNCHANGED <<live, pool>>
  /\ UNCHANGED <<pools, lastPool>>

-----------------------------------------------------------------------------
(* Commit hooks *)

\* maybe_commit, run with memory m and journal j: whether the hook of the
\* section is called, and whether it fails
HookCalled == postpone = 0 /\ (dirty \/ ~committed)
HookFails(m) == HookCalled /\ m[1].v = Reject

\* A successful hook journals the derived cell before it sets it
HookItem == Block({Derived})
HookMemory == [cells EXCEPT ![Derived] = [v |-> cells[1].v, pool |-> pool]]

\* The memory and the journal after a successful maybe_commit
AfterHook  == IF HookCalled THEN HookMemory ELSE cells
AfterHookJ == IF HookCalled THEN <<HookItem>> \o journal ELSE journal

\* cf_commit_all and the rest of maybe_commit, when no hook fails
Committed ==
  /\ dirty' = IF postpone = 0 THEN FALSE ELSE dirty
  /\ committed' = (committed \/ postpone = 0)

-----------------------------------------------------------------------------
(* Operations *)

\* cf_load
Load(t) ==
  /\ op = Idle
  /\ NewPool
  /\ op' = [Idle EXCEPT !.name = "load", !.oldj = journal, !.text = t,
                        !.now = t, !.before = cells]
  /\ journal' = <<>>
  /\ UNCHANGED <<cells, pools, entries, dirty, committed, postpone, loaded,
                 unremembered>>

\* cf_load of a file which cannot be opened: the pool is created and deleted
LoadMissing ==
  /\ op = Idle
  /\ lastPool < MaxPools
  /\ lastPool' = lastPool + 1
  /\ pool' = IF pools = <<>> THEN 0 ELSE Head(pools)
  /\ UNCHANGED <<cells, journal, pools, live, entries, dirty, committed,
                 postpone, loaded, op, unremembered>>

\* cf_set, which needs the pool of an earlier load
Set(t) ==
  /\ op = Idle
  /\ pool # 0
  /\ op' = [Idle EXCEPT !.name = "set", !.oldj = journal, !.text = t,
                        !.now = t, !.before = cells]
  /\ journal' = <<>>
  /\ UNCHANGED <<cells, pool, pools, live, lastPool, entries, dirty, committed,
                 postpone, loaded, unremembered>>

\* cf_load_default without a default file: only the pool is created
LoadDefault ==
  /\ op = Idle
  /\ ~loaded
  /\ loaded' = TRUE
  /\ NewPool
  /\ pools' = <<lastPool + 1>> \o pools
  /\ UNCHANGED <<cells, journal, entries, dirty, committed, postpone, op,
                 unremembered>>

\* cf_reload up to the loading: everything is undone, but the journal now
\* holds what is needed to do it again
Reload(name, texts) ==
  /\ op = Idle
  /\ NewPool
  /\ cells' = Swapped(cells, journal)
  /\ journal' = <<>>
  /\ op' = [Idle EXCEPT !.name = name, !.oldj = SwappedItems(cells, journal),
                        !.oldEntries = entries, !.ec = committed,
                        !.before = cells, !.todo = texts,
                        !.text = IF texts = <<>> THEN <<>> ELSE Head(texts).text,
                        !.now  = IF texts = <<>> THEN <<>> ELSE Head(texts).text]
  /\ entries' = <<>>
  /\ committed' = FALSE
  /\ postpone' = postpone + 1
  /\ UNCHANGED <<pools, dirty, loaded, unremembered>>

ReloadFile(t) ==
  Reload("reload_file", <<[type |-> "file", text |-> t, pool |-> 0]>>)

\* Each remembered file is read again, whatever it contains now
ReloadAll(ts) ==
  /\ Len(ts) = Len(entries)
  /\ Reload("reload", [i \in 1..Len(entries) |->
       IF entries[i].type = "file" THEN [entries[i] EXCEPT !.text = ts[i]]
                                   ELSE entries[i]])

Reloading == op.name \in {"reload", "reload_file"}

\* cf_interpret_line: the block is journalled and set; a string is stored in
\* the current pool
Interpret ==
  /\ op # Idle /\ ~op.err
  /\ op.text # <<>>
  /\ Len(IF Reloading THEN journal ELSE journal \o op.oldj) < MaxJournal
  /\ LET line == Head(op.text)
         last == line.first + Len(line.vals) - 1
         set  == IF line.ok THEN line.first..last ELSE {line.first}
     IN  /\ journal' = <<Block(line.first..last)>> \o journal
         /\ cells' = [c \in Cells |->
              IF c \in set THEN [v    |-> line.vals[c - line.first + 1],
                                 pool |-> IF line.string THEN pool ELSE 0]
              ELSE cells[c]]
         /\ op' = [op EXCEPT !.text = Tail(@), !.err = ~line.ok]
  /\ dirty' = TRUE
  /\ UNCHANGED <<pool, pools, live, lastPool, entries, committed, postpone,
                 loaded, unremembered>>

Remembered(type, t) == Append(entries, [type |-> type, text |-> t, pool |-> pool])

AtEnd == ~op.err /\ op.text = <<>>

\* cf_load and cf_set after a successful parse_fastbuf, maybe_commit included
LoadDone ==
  /\ op.name \in {"load", "set"}
  /\ AtEnd
  /\ ~HookFails(cells)
  /\ cells' = AfterHook
  /\ Committed
  /\ CommitTransaction(op.name = "load", op.oldj, AfterHookJ)
  /\ entries' = Remembered(IF op.name = "load" THEN "file" ELSE "string", op.now)
  /\ loaded' = (loaded \/ op.name = "load")
  /\ op' = Idle
  /\ UNCHANGED <<pool, live, lastPool, postpone, unremembered>>

\* cf_load and cf_set after an error in the text or in the hook
LoadFailed ==
  /\ op.name \in {"load", "set"}
  /\ op.err \/ (AtEnd /\ HookFails(cells))
  /\ cells' = Swapped(cells, journal)
  /\ RollbackTransaction(op.name = "load", op.oldj)
  /\ op' = Idle
  /\ UNCHANGED <<entries, dirty, committed, postpone, loaded, unremembered>>

\* Mutant: the entry is remembered where it was
ReloadEntryOld ==
  /\ Reloading
  /\ AtEnd /\ op.todo # <<>>
  /\ entries' = IF op.name = "reload" THEN Append(entries, Head(op.todo)) ELSE entries
  /\ op' = [op EXCEPT !.todo = Tail(@),
                      !.text = IF Len(@) > 1 THEN op.todo[2].text ELSE <<>>]
  /\ UNCHANGED <<cells, journal, pool, pools, live, lastPool, dirty, committed,
                 postpone, loaded, unremembered>>

\* The end of one entry in cf_reload (its maybe_commit does nothing in the
\* group): the entry is remembered and the next one begins
ReloadEntry ==
  /\ Reloading
  /\ AtEnd /\ op.todo # <<>>
  /\ entries' = IF op.name = "reload"
                THEN Remembered(Head(op.todo).type, Head(op.todo).text) ELSE entries
  /\ op' = [op EXCEPT !.todo = Tail(@),
                      !.text = IF Len(op.todo) > 1 THEN op.todo[2].text ELSE <<>>]
  /\ UNCHANGED <<cells, journal, pool, pools, live, lastPool, dirty, committed,
                 postpone, loaded, unremembered>>

\* cf_close_group inside cf_reload: the hooks run also after an error
GroupClosed == [postponed |-> postpone - 1,
                called    |-> postpone = 1,
                fails     |-> postpone = 1 /\ cells[1].v = Reject]

\* cf_reload when everything went well: the old pools are deleted
ReloadDone ==
  /\ Reloading
  /\ AtEnd /\ op.todo = <<>>
  /\ ~GroupClosed.fails
  /\ postpone' = GroupClosed.postponed
  /\ cells' = IF GroupClosed.called THEN HookMemory ELSE cells
  /\ journal' = IF GroupClosed.called THEN <<HookItem>> \o journal ELSE journal
  /\ dirty' = (dirty /\ ~GroupClosed.called)
  /\ committed' = GroupClosed.called
  /\ live' = live \ ToSet(pools)
  /\ pools' = <<pool>>
  /\ unremembered' = IF op.name = "reload_file" THEN <<op.now>> ELSE <<>>
  /\ op' = Idle
  /\ UNCHANGED <<pool, lastPool, entries, loaded>>

\* cf_reload after an error: its changes, the hook's included, are undone,
\* then the old configuration is swapped back
ReloadFailed ==
  /\ Reloading
  /\ op.err \/ (AtEnd /\ op.todo = <<>> /\ GroupClosed.fails)
  /\ postpone' = GroupClosed.postponed
  /\ LET clean == Swapped(cells, journal)
     IN  /\ cells' = Swapped(clean, op.oldj)
         /\ RollbackTransaction(TRUE, SwappedItems(clean, op.oldj))
  /\ dirty' = IF GroupClosed.called /\ ~GroupClosed.fails THEN FALSE ELSE dirty
  /\ committed' = op.ec
  /\ entries' = op.oldEntries
  /\ op' = Idle
  /\ UNCHANGED <<loaded, unremembered>>

\* cf_reload of a file which cannot be opened
ReloadMissing ==
  /\ Reloading
  /\ op.todo # <<>>
  /\ Head(op.todo).type = "file"
  /\ op.text = Head(op.todo).text
  /\ ~op.err
  /\ op' = [op EXCEPT !.err = TRUE]
  /\ UNCHANGED <<cells, journal, pool, pools, live, lastPool, entries, dirty,
                 committed, postpone, loaded, unremembered>>

OpenGroup ==
  /\ op = Idle
  /\ postpone = 0
  /\ postpone' = 1
  /\ UNCHANGED <<cells, journal, pool, pools, live, lastPool, entries, dirty,
                 committed, loaded, op, unremembered>>

\* cf_close_group: a failed hook leaves everything as it is
CloseGroup ==
  /\ op = Idle
  /\ postpone = 1
  /\ pool # 0
  /\ Len(journal) < MaxJournal
  /\ postpone' = 0
  /\ IF dirty \/ ~committed
     THEN IF cells[1].v = Reject
          THEN UNCHANGED <<cells, journal, dirty, committed>>
          ELSE /\ cells' = HookMemory
               /\ journal' = <<HookItem>> \o journal
               /\ dirty' = FALSE
               /\ committed' = TRUE
     ELSE UNCHANGED <<cells, journal, dirty, committed>>
  /\ UNCHANGED <<pool, pools, live, lastPool, entries, loaded, op,
                 unremembered>>

\* cf_revert, as cf_delete_context ends the use of a context by it
Revert ==
  /\ op = Idle
  /\ cells' = Swapped(cells, journal)
  /\ journal' = SwappedItems(cells, journal)
  /\ live' = live \ ToSet(pools)
  /\ pools' = <<>>
  /\ op' = [Idle EXCEPT !.name = "deleted"]
  /\ UNCHANGED <<pool, lastPool, entries, dirty, committed, postpone, loaded,
                 unremembered>>

-----------------------------------------------------------------------------

Init ==
  /\ cells = Defaults
  /\ journal = <<>>
  /\ pool = 0 /\ pools = <<>> /\ live = {} /\ lastPool = 0
  /\ entries = <<>>
  /\ dirty = FALSE /\ committed = FALSE /\ postpone = 0 /\ loaded = FALSE
  /\ op = Idle
  /\ unremembered = <<>>

Next ==
  \/ \E t \in Files : Load(t) \/ ReloadFile(t)
  \/ \E t \in Strings : Set(t)
  \/ \E ts \in [1..Len(entries) -> Files] : ReloadAll(ts)
  \/ LoadMissing \/ LoadDefault
  \/ Interpret
  \/ LoadDone \/ LoadFailed
  \/ ReloadEntry \/ ReloadDone \/ ReloadFailed \/ ReloadMissing
  \/ OpenGroup \/ CloseGroup \/ Revert

Spec == Init /\ [][Next]_confVars

-----------------------------------------------------------------------------

\* At every moment the journal leads back: undoing it gives the state before
\* the running cf_load or cf_set, undoing the part set aside gives the
\* defaults; during cf_reload the journal leads to the defaults and the part
\* set aside back to the configuration that is being replaced
\* (conf-journal.c).
JournalUndoes ==
  LET undone == Swapped(cells, journal)
  IN  /\ op.name = "idle" => undone = Defaults
      /\ op.name \in {"load", "set"} => /\ undone = op.before
                                       /\ Swapped(undone, op.oldj) = Defaults
      /\ Reloading => /\ undone = Defaults
                      /\ Swapped(undone, op.oldj) = op.before
      /\ op.name = "deleted" => cells = Defaults

\* "Returns a non-zero value upon error.  In that case, all configuration
\* settings are rolled back to the state before calling this function"
\* (conf.h on cf_reload; cf_load and cf_set alike), and so are the entries to
\* be reloaded next time.
FailureRestores ==
  [][ LoadFailed \/ ReloadFailed =>
        /\ cells' = op.before
        /\ entries' = IF Reloading THEN op.oldEntries ELSE entries ]_confVars

\* Nothing that will be used again lies in a deleted pool: values in the
\* memory, items of the journal and the values saved in them, remembered
\* entries (conf-journal.c, conf-input.c).
NoDanglingConfig ==
  op.name # "deleted" =>
    LET alive(ps) == ps \subseteq live \cup {0}
        kept(j) == UNION {{it.pool} \cup {it.copy[c].pool : c \in it.at} : it \in ToSet(j)}
    IN  /\ alive({cells[c].pool : c \in Cells})
        /\ alive(kept(journal) \cup kept(op.oldj))
        /\ alive({e.pool : e \in ToSet(entries)})
        /\ alive({e.pool : e \in ToSet(op.oldEntries)})
        /\ alive({pool} \cup ToSet(pools))

\* The value of cell c, which was v, after a line of a text
Assigned(c, v, line) ==
  IF c - line.first + 1 \in DOMAIN line.vals THEN line.vals[c - line.first + 1] ELSE v

\* The value of cell c, which was v, after the text t
Replay(c, v, t) ==
  LET after[n \in 0..Len(t)] == IF n = 0 THEN v ELSE Assigned(c, after[n - 1], t[n])
  IN  after[Len(t)]

\* The value the texts ts give cell c, one after another, from the default
Replayed(c, ts) ==
  LET after[n \in 0..Len(ts)] == IF n = 0 THEN 0 ELSE Replay(c, after[n - 1], ts[n])
  IN  after[Len(ts)]

TextsOf(es) == [i \in 1..Len(es) |-> es[i].text]

\* Between the operations every variable has the value given by the file of
\* the last cf_reload(file), if one succeeded since the last cf_reload(NULL),
\* and after it by the remembered files and strings, in their order: nothing
\* else the program loaded is left in it, and nothing of these is missing
\* (conf-input.c, cf_remember_entry and cf_reload).  This says what the next
\* cf_reload(NULL) brings back only when there is no such file.
EntriesExplainConfig ==
  op = Idle =>
    \A c \in Cells \ {Derived} :
      cells[c].v = Replayed(c, unremembered \o TextsOf(entries))

\* "If @file is NULL, reload all loaded configuration files and re-apply bits
\* of configuration passed to cf_set()" (conf.h on cf_reload): were no file
\* changed, the next cf_reload(NULL) would give the same values.  The code
\* does not do that: cf_reload(file) empties the list of entries and adds
\* nothing to it (conf-input.c, load_file in cf_reload).
ReloadRepeats ==
  op = Idle =>
    \A c \in Cells \ {Derived} : cells[c].v = Replayed(c, TextsOf(entries))

=============================================================================
