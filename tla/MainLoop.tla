------------------------------ MODULE MainLoop ------------------------------
(***************************************************************************)
(* The event loop (ucw/mainloop.c, the epoll variant): files, hooks and    *)
(* timers of one context, and main_loop with its four phases.              *)
(*                                                                         *)
(* The loop is single-threaded.  Its difficulty is that a callback of any  *)
(* phase may add, change and delete any file, hook or timer, its own       *)
(* included, while the loop is walking the lists.  So a callback is not a  *)
(* single step: between its call (cb # None) and its return it takes any   *)
(* number of user operations.  No order inside file_list and               *)
(* file_recalc_list is ever looked at, so these two are sets.              *)
(***************************************************************************)
EXTENDS Integers, Sequences, FiniteSets, Lists

CONSTANTS Files, Hooks, Timers,
          Wanted,      \* for every file, the sets of handlers its user installs
          PollFlags,   \* the events the kernel reports, among the four of AllEvents
          MaxTime      \* bound: the clock stops there

AllEvents == {"in", "out", "hup", "err"}

ASSUME MainLoopAssumption ==
  /\ IsFiniteSet(Files) /\ IsFiniteSet(Hooks) /\ IsFiniteSet(Timers)
  /\ Wanted \in [Files -> SUBSET SUBSET {"in", "out"}]
  /\ PollFlags \subseteq AllEvents
  /\ MaxTime \in Nat \ {0}

VARIABLES
  pc,          \* the phase: "out", "timers", "hooks", "sleep", "files", "again"
  cb,          \* the callback that is running: <<kind, object>>, or None
  file_list, file_recalc_list, file_active_list,
  handlers,    \* of every file: "in" for read_handler # NULL, "out" for write_handler
  want_events, \* what epoll watches for
  events,      \* reported and not handled yet, of the files in file_active_list
  file_cnt, poll_cnt,
  hook_list, hook_done_list,
  hook_min, hook_max,
  expires,     \* of every timer, 0 when it does not run
  now, timeout, single_step, shutdown,
  fresh,       \* history: hooks not called since their last hook_add
  rets         \* history: what the hooks of this round have returned

fileVars  == <<file_list, file_recalc_list, file_active_list, handlers, want_events,
               events, file_cnt, poll_cnt>>
hookVars  == <<hook_list, hook_done_list, fresh>>
roundVars == <<hook_min, hook_max, rets>>
timeVars  == <<now, timeout>>
vars == <<pc, cb, fileVars, hookVars, roundVars, expires, timeVars, single_step, shutdown>>

None == <<"none", "none">>

\* enum main_hook_return
HOOK_IDLE == 0
HOOK_RETRY == 1
HOOK_DONE == -1
HOOK_SHUTDOWN == -2
HookReturns == {HOOK_IDLE, HOOK_RETRY, HOOK_DONE, HOOK_SHUTDOWN}

Forever == MaxTime + 1    \* now + 1000000000

Lower(a, b) == IF a < b THEN a ELSE b
Higher(a, b) == IF a > b THEN a ELSE b

FileIsActive(f) == f \in file_list \cup file_recalc_list \cup Elements(file_active_list)
HookIsActive(h) == h \in Elements(hook_list) \cup Elements(hook_done_list)
Armed == {t \in Timers : expires[t] > 0}

-----------------------------------------------------------------------------
(* Operations of the user: from a callback, or outside of main_loop.       *)

InUser == pc = "out" \/ (cb # None /\ pc # "again")
ControlUnchanged == UNCHANGED <<pc, cb, roundVars, timeVars, single_step>>

\* file_set_events: the interest of f becomes mask; poll_cnt counts the files
\* with a non-empty one
PollCntAfter(f, mask) ==
  poll_cnt + (IF want_events[f] = {} /\ mask # {} THEN 1 ELSE 0)
           - (IF want_events[f] # {} /\ mask = {} THEN 1 ELSE 0)

FileSetEvents(f, mask) ==
  /\ want_events' = [want_events EXCEPT ![f] = mask]
  /\ poll_cnt' = PollCntAfter(f, mask)

\* f leaves file_active_list, and its events will not be looked at any more
ForgetEvents(f) == events' = [events EXCEPT ![f] = {}]

\* The user fills in the handlers and calls file_add.
FileAdd(f) ==
  /\ InUser /\ ~FileIsActive(f)
  /\ file_list' = file_list \cup {f}
  /\ file_cnt' = file_cnt + 1
  /\ \E w \in Wanted[f] :
       /\ handlers' = [handlers EXCEPT ![f] = w]
       /\ FileSetEvents(f, w)
  /\ UNCHANGED <<file_recalc_list, file_active_list, events, hookVars, expires, shutdown>>
  /\ ControlUnchanged

\* Mutants: the file is not removed from the list where it is; or it is moved
\* only when it lies in file_list.
FileChgNoRemove(f) ==
  /\ InUser /\ FileIsActive(f)
  /\ \E w \in Wanted[f] : handlers' = [handlers EXCEPT ![f] = w]
  /\ file_recalc_list' = file_recalc_list \cup {f}
  /\ UNCHANGED <<file_list, file_active_list, want_events, events, file_cnt, poll_cnt,
                 hookVars, expires, shutdown>>
  /\ ControlUnchanged

FileChgLazy(f) ==
  /\ InUser /\ FileIsActive(f)
  /\ \E w \in Wanted[f] : handlers' = [handlers EXCEPT ![f] = w]
  /\ IF f \in file_list
     THEN /\ file_list' = file_list \ {f}
          /\ file_recalc_list' = file_recalc_list \cup {f}
     ELSE UNCHANGED <<file_list, file_recalc_list>>
  /\ UNCHANGED <<file_active_list, want_events, events, file_cnt, poll_cnt,
                 hookVars, expires, shutdown>>
  /\ ControlUnchanged

\* The user changes the handlers and calls file_chg, wherever the file is.
FileChg(f) ==
  /\ InUser /\ FileIsActive(f)
  /\ \E w \in Wanted[f] : handlers' = [handlers EXCEPT ![f] = w]
  /\ file_list' = file_list \ {f}
  /\ file_active_list' = Without(file_active_list, f)
  /\ file_recalc_list' = file_recalc_list \cup {f}
  /\ ForgetEvents(f)
  /\ UNCHANGED <<want_events, file_cnt, poll_cnt, hookVars, expires, shutdown>>
  /\ ControlUnchanged

\* file_del; of an inactive file it does nothing
FileDel(f) ==
  /\ InUser /\ FileIsActive(f)
  /\ file_list' = file_list \ {f}
  /\ file_active_list' = Without(file_active_list, f)
  /\ file_recalc_list' = file_recalc_list \ {f}
  /\ file_cnt' = file_cnt - 1
  /\ FileSetEvents(f, {})
  /\ ForgetEvents(f)
  /\ UNCHANGED <<handlers, hookVars, expires, shutdown>>
  /\ ControlUnchanged

\* Mutant: a hook that is already active is left where it is.
HookAddOnce(h) ==
  /\ InUser
  /\ hook_list' = IF HookIsActive(h) THEN hook_list ELSE Append(hook_list, h)
  /\ UNCHANGED hook_done_list
  /\ fresh' = fresh \cup {h}
  /\ UNCHANGED <<fileVars, expires, shutdown>>
  /\ ControlUnchanged

HookAdd(h) ==
  /\ InUser
  /\ hook_list' = Append(Without(hook_list, h), h)
  /\ hook_done_list' = Without(hook_done_list, h)
  /\ fresh' = fresh \cup {h}
  /\ UNCHANGED <<fileVars, expires, shutdown>>
  /\ ControlUnchanged

HookDel(h) ==
  /\ InUser /\ HookIsActive(h)
  /\ hook_list' = Without(hook_list, h)
  /\ hook_done_list' = Without(hook_done_list, h)
  /\ fresh' = fresh \ {h}
  /\ UNCHANGED <<fileVars, expires, shutdown>>
  /\ ControlUnchanged

\* timer_add, and timer_del for e = 0; the heap below it is module Heap's
TimerAdd(t, e) ==
  /\ InUser /\ e # expires[t]
  /\ expires' = [expires EXCEPT ![t] = e]
  /\ UNCHANGED <<fileVars, hookVars, shutdown>>
  /\ ControlUnchanged

\* main_shut_down, from a callback: main_loop itself clears an earlier request
ShutDown ==
  /\ InUser /\ cb # None /\ ~shutdown
  /\ shutdown' = TRUE
  /\ UNCHANGED <<fileVars, hookVars, expires>>
  /\ ControlUnchanged

UserOperation ==
  \/ \E f \in Files : FileAdd(f) \/ FileChg(f) \/ FileDel(f)
  \/ \E h \in Hooks : HookAdd(h) \/ HookDel(h)
  \/ \E t \in Timers, e \in 0..MaxTime : TimerAdd(t, e)
  \/ ShutDown

-----------------------------------------------------------------------------
(* The loop.                                                               *)

GetTime == now' \in now..MaxTime

\* hook_min and hook_max are born in process_hooks; what they were is forgotten
\* when the loop wakes up
NewRound == hook_min' = HOOK_RETRY /\ hook_max' = HOOK_SHUTDOWN /\ rets' = {}

\* main_loop is entered, directly or by main_step
MainLoopEnter ==
  /\ pc = "out"
  /\ single_step' \in BOOLEAN
  /\ GetTime
  /\ shutdown' = FALSE
  /\ pc' = "timers"
  /\ UNCHANGED <<cb, fileVars, hookVars, roundVars, expires, timeout>>

Earliest == CHOOSE e \in {expires[t] : t \in Armed} : \A t \in Armed : e <= expires[t]
Expired == Armed # {} /\ Earliest <= now

\* process_timers: the top of the heap has expired
TimerCall ==
  /\ pc = "timers" /\ cb = None /\ Expired
  /\ \E t \in Armed : expires[t] = Earliest /\ cb' = <<"timer", t>>
  /\ UNCHANGED <<pc, fileVars, hookVars, roundVars, expires, timeVars, single_step, shutdown>>

TimerReturn ==
  /\ cb[1] = "timer"
  /\ cb' = None
  /\ UNCHANGED <<pc, fileVars, hookVars, roundVars, expires, timeVars, single_step, shutdown>>

\* process_timers ends and process_hooks begins
TimersEnd ==
  /\ pc = "timers" /\ cb = None /\ ~Expired
  /\ pc' = "hooks"
  /\ UNCHANGED <<cb, fileVars, hookVars, roundVars, expires, timeVars, single_step, shutdown>>

HookCall ==
  /\ pc = "hooks" /\ cb = None /\ hook_list # <<>>
  /\ LET h == Head(hook_list) IN
     /\ cb' = <<"hook", h>>
     /\ hook_done_list' = Append(hook_done_list, h)
     /\ fresh' = fresh \ {h}
  /\ hook_list' = Tail(hook_list)
  /\ UNCHANGED <<pc, fileVars, roundVars, expires, timeVars, single_step, shutdown>>

HookReturn ==
  /\ cb[1] = "hook"
  /\ \E ret \in HookReturns :
       /\ hook_min' = Lower(hook_min, ret)
       /\ hook_max' = Higher(hook_max, ret)
       /\ rets' = rets \cup {ret}
  /\ cb' = None
  /\ UNCHANGED <<pc, fileVars, hookVars, expires, timeVars, single_step, shutdown>>

\* Mutant: one hook that is done is taken for all of them.
HooksSayShutdownLoose ==
  \/ hook_min = HOOK_SHUTDOWN
  \/ hook_min = HOOK_DONE
  \/ shutdown

HooksSayShutdown ==
  \/ hook_min = HOOK_SHUTDOWN
  \/ hook_min = HOOK_DONE /\ hook_max = HOOK_DONE
  \/ shutdown

HooksOver == pc = "hooks" /\ cb = None /\ hook_list = <<>>

\* clist_move(&m->hook_list, &m->hook_done_list), and main_loop returns
HooksShutdown ==
  /\ HooksOver /\ HooksSayShutdown
  /\ hook_list' = hook_done_list /\ hook_done_list' = <<>>
  /\ pc' = "out" /\ single_step' = FALSE
  /\ NewRound
  /\ UNCHANGED <<cb, fileVars, fresh, expires, timeVars, shutdown>>

\* recalc_files: the files of file_recalc_list get the events they want
RecalcFiles ==
  /\ want_events' = [f \in Files |-> IF f \in file_recalc_list THEN handlers[f] ELSE want_events[f]]
  /\ poll_cnt' = poll_cnt
       + Cardinality({f \in file_recalc_list : want_events[f] = {} /\ handlers[f] # {}})
       - Cardinality({f \in file_recalc_list : want_events[f] # {} /\ handlers[f] = {}})
  /\ file_list' = file_list \cup file_recalc_list
  /\ file_recalc_list' = {}

\* Mutant: the timers are not looked at.
TimeoutNoTimers(wake, time) == IF single_step THEN 0 ELSE IF wake > time THEN wake - time ELSE 0

\* the timeout computed at the given time, when the hooks ask to wake at wake
Timeout(wake, time) ==
  LET w == IF Armed = {} THEN wake ELSE Lower(wake, Earliest) IN
  IF single_step THEN 0 ELSE IF w > time THEN w - time ELSE 0

\* after the hooks: compute the timeout, recalculate the files, call epoll_wait
GoToSleep ==
  /\ HooksOver /\ ~HooksSayShutdown
  /\ hook_list' = hook_done_list /\ hook_done_list' = <<>>
  /\ IF single_step THEN now' = now ELSE GetTime
  /\ timeout' = Timeout(IF hook_max = HOOK_RETRY THEN 0 ELSE Forever, now')
  /\ RecalcFiles
  /\ pc' = "sleep"
  /\ UNCHANGED <<cb, file_active_list, handlers, events, file_cnt, fresh, roundVars,
                 expires, single_step, shutdown>>

\* epoll_wait returns no events, on timeout or EINTR
WakeEmpty ==
  /\ pc = "sleep"
  /\ GetTime /\ timeout' = 0
  /\ NewRound
  /\ pc' = (IF single_step THEN "out" ELSE "timers") /\ single_step' = FALSE
  /\ UNCHANGED <<cb, fileVars, hookVars, expires, shutdown>>

Orders(S) == {s \in [1..Cardinality(S) -> S] : Elements(s) = S}

\* epoll_wait returns events: the files are relinked to file_active_list
WakeEvents ==
  /\ pc = "sleep"
  /\ GetTime /\ timeout' = 0
  /\ NewRound
  /\ \E S \in SUBSET {f \in Files : want_events[f] # {}} :
       /\ S # {}
       /\ file_active_list' \in Orders(S)
       /\ \E ev \in [S -> SUBSET PollFlags \ {{}}] :
            /\ \A f \in S : ev[f] \subseteq want_events[f] \cup {"hup", "err"}
            /\ events' = [f \in Files |-> IF f \in S THEN ev[f] ELSE events[f]]
       /\ file_list' = file_list \ S
  /\ pc' = "files"
  /\ UNCHANGED <<cb, file_recalc_list, handlers, want_events, file_cnt, poll_cnt, hookVars,
                 expires, single_step, shutdown>>

ReadMask  == {"in", "hup"}
WriteMask == {"out", "hup", "err"}

Fi == Head(file_active_list)
Readable  == "in" \in handlers[Fi] /\ events[Fi] \cap ReadMask # {}
Writeable == "out" \in handlers[Fi] /\ events[Fi] \cap WriteMask # {}

FileRead ==
  /\ pc = "files" /\ cb = None /\ file_active_list # <<>> /\ Readable
  /\ events' = [events EXCEPT ![Fi] = @ \ ReadMask]
  /\ cb' = <<"in", Fi>>
  /\ UNCHANGED <<pc, file_list, file_recalc_list, file_active_list, handlers, want_events,
                 file_cnt, poll_cnt, hookVars, roundVars, expires, timeVars, single_step, shutdown>>

FileWrite ==
  /\ pc = "files" /\ cb = None /\ file_active_list # <<>> /\ ~Readable /\ Writeable
  /\ events' = [events EXCEPT ![Fi] = @ \ WriteMask]
  /\ cb' = <<"out", Fi>>
  /\ UNCHANGED <<pc, file_list, file_recalc_list, file_active_list, handlers, want_events,
                 file_cnt, poll_cnt, hookVars, roundVars, expires, timeVars, single_step, shutdown>>

InFileCallback == cb[1] \in {"in", "out"}

\* The handler returns HOOK_RETRY: the do-while loop calls it again, unless the
\* handler has become NULL.  Nothing looks whether the file was relinked.
FileReturnRetry ==
  /\ pc = "files" /\ InFileCallback
  /\ cb[1] \in handlers[cb[2]]
  /\ pc' = "again"
  /\ UNCHANGED <<cb, fileVars, hookVars, roundVars, expires, timeVars, single_step, shutdown>>

FileCallAgain ==
  /\ pc = "again"
  /\ pc' = "files"
  /\ UNCHANGED <<cb, fileVars, hookVars, roundVars, expires, timeVars, single_step, shutdown>>

FileReturn ==
  /\ pc = "files" /\ InFileCallback
  /\ cb' = None
  /\ UNCHANGED <<pc, fileVars, hookVars, roundVars, expires, timeVars, single_step, shutdown>>

\* nothing left to call: back to file_list
FileDone ==
  /\ pc = "files" /\ cb = None /\ file_active_list # <<>> /\ ~Readable /\ ~Writeable
  /\ file_list' = file_list \cup {Fi}
  /\ file_active_list' = Tail(file_active_list)
  /\ ForgetEvents(Fi)
  /\ UNCHANGED <<pc, cb, file_recalc_list, handlers, want_events, file_cnt, poll_cnt,
                 hookVars, roundVars, expires, timeVars, single_step, shutdown>>

FilesEnd ==
  /\ pc = "files" /\ cb = None /\ file_active_list = <<>>
  /\ pc' = "timers"
  /\ UNCHANGED <<cb, fileVars, hookVars, roundVars, expires, timeVars, single_step, shutdown>>

-----------------------------------------------------------------------------
\* main_new
Init ==
  /\ pc = "out" /\ cb = None
  /\ file_list = {} /\ file_recalc_list = {} /\ file_active_list = <<>>
  /\ handlers = [f \in Files |-> {}]
  /\ want_events = [f \in Files |-> {}]
  /\ events = [f \in Files |-> {}]
  /\ file_cnt = 0 /\ poll_cnt = 0
  /\ hook_list = <<>> /\ hook_done_list = <<>> /\ fresh = {}
  /\ hook_min = HOOK_RETRY /\ hook_max = HOOK_SHUTDOWN /\ rets = {}
  /\ expires = [t \in Timers |-> 0]
  /\ now = 1 /\ timeout = 0
  /\ single_step = FALSE /\ shutdown = FALSE

CallStep ==
  TimerCall \/ HookCall \/ FileRead \/ FileWrite \/ FileCallAgain

ReturnStep ==
  TimerReturn \/ HookReturn \/ FileReturn \/ FileReturnRetry

PhaseStep ==
  TimersEnd \/ HooksShutdown \/ GoToSleep \/ WakeEmpty \/ WakeEvents \/ FileDone \/ FilesEnd

Next == UserOperation \/ MainLoopEnter \/ CallStep \/ ReturnStep \/ PhaseStep

Spec == Init /\ [][Next]_vars

-----------------------------------------------------------------------------
(* Properties.                                                             *)

TypeOK ==
  /\ pc \in {"out", "timers", "hooks", "sleep", "files", "again"}
  /\ cb \in {None} \cup ({"timer"} \X Timers) \cup ({"hook"} \X Hooks) \cup ({"in", "out"} \X Files)
  /\ file_list \subseteq Files /\ file_recalc_list \subseteq Files
  /\ file_active_list \in Seq(Files)
  /\ handlers \in [Files -> SUBSET {"in", "out"}]
  /\ want_events \in [Files -> SUBSET {"in", "out"}]
  /\ events \in [Files -> SUBSET AllEvents]
  /\ file_cnt \in Nat /\ poll_cnt \in Nat
  /\ hook_list \in Seq(Hooks) /\ hook_done_list \in Seq(Hooks) /\ fresh \subseteq Hooks
  /\ hook_min \in HookReturns /\ hook_max \in HookReturns /\ rets \subseteq HookReturns
  /\ expires \in [Timers -> 0..MaxTime]
  /\ now \in 1..MaxTime /\ timeout \in 0..Forever
  /\ single_step \in BOOLEAN /\ shutdown \in BOOLEAN

\* However callbacks relink things under the loop's hands, a file is linked to
\* at most one list, a hook too, and both counters are exact.
ListsConsistent ==
  /\ TypeOK
  /\ file_list \cap file_recalc_list = {}
  /\ (file_list \cup file_recalc_list) \cap Elements(file_active_list) = {}
  /\ NoDuplicates(file_active_list)
  /\ NoDuplicates(hook_list \o hook_done_list)
  /\ file_cnt = Cardinality({f \in Files : FileIsActive(f)})
  /\ poll_cnt = Cardinality({f \in Files : want_events[f] # {}})

\* Whenever the loop sleeps, epoll watches exactly the events for which some
\* active file has a handler: no wakeup is lost, and no event that nobody would
\* handle is asked for.
SleepWatchesHandlers ==
  pc = "sleep" =>
    /\ file_recalc_list = {} /\ file_active_list = <<>>
    /\ \A f \in Files : want_events[f] = (IF FileIsActive(f) THEN handlers[f] ELSE {})

\* "The hook will be scheduled at least once before next sleep [...] Adding an
\* already added hook is permitted and if the hook has been run, it will be run
\* again before next sleep" (mainloop.h); and a hook that asked for another
\* iteration makes the loop poll without sleeping.
HooksRunBeforeSleep ==
  pc = "sleep" =>
    /\ fresh = {} /\ hook_done_list = <<>>
    /\ HOOK_RETRY \in rets => timeout = 0

\* The loop never sleeps past the expiry of a timer, not even of one that was
\* armed by the hooks of this iteration.
TimersNotOverslept ==
  pc = "sleep" => \A t \in Armed : timeout = 0 \/ now + timeout <= expires[t]

\* The reasons to terminate: "when all hooks return HOOK_DONE or at last one
\* hook returns HOOK_SHUTDOWN" (mainloop.h), or a request to shut down.
ShutdownWanted ==
  shutdown \/ HOOK_SHUTDOWN \in rets \/ rets = {HOOK_DONE}

\* main_loop returns when there is a reason and otherwise goes on; the minimum
\* and the maximum of the hooks' answers tell it.  main_step may also just end.
ShutdownExact ==
  [][/\ HooksShutdown => ShutdownWanted
     /\ GoToSleep => ~ShutdownWanted]_vars

\* "we detect that the structure was relinked and stop processing its events,
\* leaving them for the next iteration of the main loop" (the comment in
\* main_loop): a handler is called again only if its file was not relinked.
NotCalledWhenRelinked ==
  pc = "again" => cb[2] \in Elements(file_active_list)

=============================================================================
