------------------------------ MODULE Process ------------------------------
(***************************************************************************)
(* Signals and child processes in the main loop (ucw/mainloop.c).          *)
(*                                                                         *)
(* Signals arrive asynchronously: signal_handler_pipe may run between any  *)
(* two steps of the program and only writes the signal's number to a pipe, *)
(* which the main loop reads.  Exits of children come as one of these      *)
(* signals, SIGCHLD; like all of them it is not queued by the kernel, so   *)
(* two exits may make a single signal.                                     *)
(*                                                                         *)
(* The kernel's part (signal masks, pending signals, zombies, the pipe) is *)
(* modelled from POSIX and from how the code uses it.                      *)
(***************************************************************************)
EXTENDS Integers, Sequences, FiniteSets, Lists

CONSTANTS Procs,      \* the user's struct main_process's
          MaxForks,   \* bound: children forked
          Sigs,       \* the user's struct main_signal's, all for the signal USER
          PipeCap,    \* numbers that fit into the signal pipe
          SigchldHandler, Iter, None

CHLD == "CHLD"
USER == "USER"
Signums == {CHLD, USER}
Children == 1..MaxForks
Signals == Sigs \cup {SigchldHandler}
Signum(sg) == IF sg = SigchldHandler THEN CHLD ELSE USER

ASSUME ProcessAssumption ==
  /\ IsFiniteSet(Procs) /\ IsFiniteSet(Sigs)
  /\ MaxForks \in Nat /\ PipeCap \in Nat \ {0}
  /\ SigchldHandler \notin Sigs /\ Iter \notin Signals
  /\ None \notin Signals \cup Procs \cup {Iter}

VARIABLES
  pc, ret,       \* where the program is, and where a nested call returns to
  arg,           \* the process or signal the current call is about
  signal_list,   \* with Iter in it while pipe_read_handler has called a handler
  signum, sg,    \* locals of pipe_read_handler
  process_list,
  pid,           \* of every main_process, a child or 0
  child,         \* "none", "running", "zombie", "reaped" without a report, "reported"
  installed, blocked, pending, pipe,    \* signals in the kernel
  overflow,      \* history: a signal did not fit into the pipe
  due,           \* history: handlers the current walk still has to call
  abandoned      \* history: children whose main_process the user deleted

kernelVars == <<installed, blocked, pending, pipe, overflow>>
walkVars   == <<signum, sg, due>>
procVars   == <<process_list, pid, child, abandoned>>
vars == <<pc, ret, arg, signal_list, walkVars, procVars, kernelVars>>

\* clist_next and clist_head
NextOf(s, x) == IF IndexOf(s, x) = Len(s) THEN None ELSE s[IndexOf(s, x) + 1]
First(s) == IF s = <<>> THEN None ELSE Head(s)

SignalIsActive(s) == s \in Elements(signal_list)

\* User code runs: the main loop's other callbacks, the handler of a signal, or
\* the handler of a process that exited.
InUser == pc \in {"loop", "signal_cb", "exit_cb"}

-----------------------------------------------------------------------------
(* The kernel.                                                             *)

\* SIGCHLD is ignored by default, and an ignored signal that is not blocked is
\* thrown away at once.  The other signals are raised only when they are caught.
Generate(s) ==
  pending' = IF s \in installed \cup blocked THEN pending \cup {s} ELSE pending

ChildExits(c) ==
  /\ child[c] = "running"
  /\ child' = [child EXCEPT ![c] = "zombie"]
  /\ Generate(CHLD)
  /\ UNCHANGED <<pc, ret, arg, signal_list, walkVars, process_list, pid,
                 abandoned, installed, blocked, pipe, overflow>>

SignalRaised ==
  /\ USER \in installed \ pending
  /\ Generate(USER)
  /\ UNCHANGED <<pc, ret, arg, signal_list, walkVars, procVars, installed, blocked, pipe, overflow>>

\* signal_handler_pipe: a full pipe makes write() fail, which is ignored
SignalHandlerPipe(s) ==
  /\ s \in pending \ blocked
  /\ pending' = pending \ {s}
  /\ IF Len(pipe) < PipeCap
     THEN pipe' = Append(pipe, s) /\ UNCHANGED overflow
     ELSE overflow' = TRUE /\ UNCHANGED pipe
  /\ UNCHANGED <<pc, ret, arg, signal_list, walkVars, procVars, installed, blocked>>

-----------------------------------------------------------------------------
(* Signals.                                                                *)

\* Mutant: the new handler is added at the tail.
SignalLinkTail(s) == signal_list' = Append(signal_list, s)

\* clist_add_head: "better if we are in the middle of walking the list"
SignalLink(s) == signal_list' = AddHead(signal_list, s)

\* signal_add, up to sigaction()
SignalAdd(s) ==
  /\ InUser /\ s \in Sigs /\ ~SignalIsActive(s)
  /\ SignalLink(s)
  /\ ret' = pc /\ arg' = s /\ pc' = "sigaction"
  /\ UNCHANGED <<walkVars, procVars, kernelVars>>

SigAction ==
  /\ pc = "sigaction"
  /\ installed' = installed \cup {Signum(arg)}
  /\ pc' = "unblock"
  /\ UNCHANGED <<ret, arg, signal_list, walkVars, procVars, blocked, pending, pipe, overflow>>

SigUnblock ==
  /\ pc = "unblock"
  /\ blocked' = blocked \ {Signum(arg)}
  /\ pc' = ret /\ ret' = "loop" /\ arg' = None
  /\ UNCHANGED <<signal_list, walkVars, procVars, installed, pending, pipe, overflow>>

\* signal_del; the last handler of a signal blocks it
SignalDel(s) ==
  /\ InUser /\ s \in Sigs /\ SignalIsActive(s)
  /\ signal_list' = Without(signal_list, s)
  /\ due' = due \ {s}
  /\ blocked' = IF \E x \in Elements(signal_list) \ {s, Iter} : Signum(x) = Signum(s)
                THEN blocked ELSE blocked \cup {Signum(s)}
  /\ UNCHANGED <<pc, ret, arg, signum, sg, procVars, installed, pending, pipe, overflow>>

\* pipe_read_handler reads a number and starts to walk the list
PipeRead ==
  /\ pc = "loop" /\ pipe # <<>>
  /\ signum' = Head(pipe)
  /\ pipe' = Tail(pipe)
  /\ sg' = First(signal_list)
  /\ due' = {s \in Elements(signal_list) : Signum(s) = Head(pipe)}
  /\ pc' = "walk"
  /\ UNCHANGED <<ret, arg, signal_list, procVars, installed, blocked, pending, overflow>>

WalkSkip ==
  /\ pc = "walk" /\ sg # None /\ Signum(sg) # signum
  /\ sg' = NextOf(signal_list, sg)
  /\ UNCHANGED <<pc, ret, arg, signal_list, signum, due, procVars, kernelVars>>

WalkCall ==
  /\ pc = "walk" /\ sg # None /\ Signum(sg) = signum
  /\ signal_list' = InsertAfter(signal_list, sg, Iter)
  /\ due' = due \ {sg}
  /\ pc' = IF sg = SigchldHandler THEN "reap" ELSE "signal_cb"
  /\ UNCHANGED <<ret, arg, signum, sg, procVars, kernelVars>>

\* the handler has returned: go on from the iterator
WalkReturn ==
  /\ sg' = NextOf(signal_list, Iter)
  /\ signal_list' = Without(signal_list, Iter)
  /\ pc' = "walk"
  /\ UNCHANGED <<ret, arg, signum, due, procVars, kernelVars>>

SignalCallbackReturns == pc = "signal_cb" /\ WalkReturn

WalkEnd ==
  /\ pc = "walk" /\ sg = None
  /\ pc' = "loop" /\ signum' = None
  /\ UNCHANGED <<ret, arg, signal_list, sg, due, procVars, kernelVars>>

-----------------------------------------------------------------------------
(* Processes.                                                              *)

Forked == {c \in Children : child[c] # "none"}
ProcessIsActive(p) == p \in process_list

\* process_fork: fork() succeeds.  When it fails, the handler is called at once,
\* and nothing else changes.
ProcessFork(p) ==
  /\ InUser /\ ~ProcessIsActive(p)
  /\ Forked # Children
  /\ LET c == Cardinality(Forked) + 1 IN
     /\ child' = [child EXCEPT ![c] = "running"]
     /\ pid' = [pid EXCEPT ![p] = c]
  /\ ret' = pc /\ arg' = p /\ pc' = "process_add"
  /\ UNCHANGED <<signal_list, walkVars, process_list, abandoned, kernelVars>>

\* Mutant: the list of processes is not told.
ProcessAddUnlinked ==
  /\ pc = "process_add"
  /\ UNCHANGED process_list
  /\ IF SignalIsActive(SigchldHandler)
     THEN pc' = ret /\ ret' = "loop" /\ arg' = None /\ UNCHANGED signal_list
     ELSE SignalLink(SigchldHandler) /\ arg' = SigchldHandler /\ pc' = "sigaction" /\ UNCHANGED ret
  /\ UNCHANGED <<walkVars, pid, child, abandoned, kernelVars>>

\* process_add: the first one adds the handler of SIGCHLD, by signal_add
ProcessAdd ==
  /\ pc = "process_add"
  /\ process_list' = process_list \cup {arg}
  /\ IF SignalIsActive(SigchldHandler)
     THEN pc' = ret /\ ret' = "loop" /\ arg' = None /\ UNCHANGED signal_list
     ELSE SignalLink(SigchldHandler) /\ arg' = SigchldHandler /\ pc' = "sigaction" /\ UNCHANGED ret
  /\ UNCHANGED <<walkVars, pid, child, abandoned, kernelVars>>

\* process_del by the user, who is not interested any more
ProcessDel(p) ==
  /\ InUser /\ ProcessIsActive(p)
  /\ process_list' = process_list \ {p}
  /\ abandoned' = abandoned \cup {pid[p]}
  /\ UNCHANGED <<pc, ret, arg, signal_list, walkVars, pid, child, kernelVars>>

Owner(c) == {p \in process_list : pid[p] = c}

\* sigchld_received: waitpid() finds a child
Reap(c) ==
  /\ pc = "reap" /\ child[c] = "zombie"
  /\ IF Owner(c) = {}
     THEN /\ child' = [child EXCEPT ![c] = "reaped"]
          /\ UNCHANGED <<process_list, pc>>
     ELSE /\ child' = [child EXCEPT ![c] = "reported"]
          /\ process_list' = process_list \ Owner(c)
          /\ pc' = "exit_cb"
  /\ UNCHANGED <<ret, arg, signal_list, walkVars, pid, abandoned, kernelVars>>

\* Mutant: one child per signal.
ExitCallbackReturnsToLoop == pc = "exit_cb" /\ WalkReturn

\* pr->handler() has returned; the loop goes on with waitpid()
ExitCallbackReturns ==
  /\ pc = "exit_cb"
  /\ pc' = "reap"
  /\ UNCHANGED <<ret, arg, signal_list, walkVars, procVars, kernelVars>>

ReapEnd ==
  /\ pc = "reap" /\ \A c \in Children : child[c] # "zombie"
  /\ WalkReturn

-----------------------------------------------------------------------------
Init ==
  /\ pc = "loop" /\ ret = "loop" /\ arg = None
  /\ signal_list = <<>> /\ signum = None /\ sg = None /\ due = {}
  /\ process_list = {} /\ pid = [p \in Procs |-> 0]
  /\ child = [c \in Children |-> "none"] /\ abandoned = {}
  /\ installed = {} /\ blocked = {} /\ pending = {} /\ pipe = <<>> /\ overflow = FALSE

Kernel ==
  \/ \E c \in Children : ChildExits(c)
  \/ SignalRaised
  \/ \E s \in Signums : SignalHandlerPipe(s)

User ==
  \/ \E s \in Sigs : SignalAdd(s) \/ SignalDel(s)
  \/ \E p \in Procs : ProcessFork(p) \/ ProcessDel(p)

Library ==
  \/ SigAction \/ SigUnblock \/ ProcessAdd
  \/ PipeRead \/ WalkSkip \/ WalkCall \/ WalkEnd
  \/ (\E c \in Children : Reap(c)) \/ ReapEnd
  \/ SignalCallbackReturns \/ ExitCallbackReturns

Next == Kernel \/ User \/ Library

Spec == Init /\ [][Next]_vars

\* The kernel delivers signals that are not blocked; every callback returns to
\* the main loop, which then looks at the pipe again and again, whatever its
\* other callbacks do.  Children need not exit.
Fairness ==
  /\ \A s \in Signums : WF_vars(SignalHandlerPipe(s))
  /\ []<>(pc = "loop")
  /\ SF_vars(PipeRead)

FairSpec == Spec /\ Fairness

-----------------------------------------------------------------------------
(* Properties.                                                             *)

TypeOK ==
  /\ pc \in {"loop", "signal_cb", "exit_cb", "sigaction", "unblock", "process_add", "walk", "reap"}
  /\ ret \in {"loop", "signal_cb", "exit_cb"}
  /\ arg \in Procs \cup Signals \cup {None}
  /\ signal_list \in Seq(Signals \cup {Iter})
  /\ signum \in Signums \cup {None} /\ sg \in Signals \cup {None}
  /\ process_list \subseteq Procs /\ pid \in [Procs -> 0..MaxForks]
  /\ child \in [Children -> {"none", "running", "zombie", "reaped", "reported"}]
  /\ installed \subseteq Signums /\ blocked \subseteq Signums /\ pending \subseteq Signums
  /\ pipe \in Seq(Signums) /\ overflow \in BOOLEAN
  /\ due \subseteq Signals /\ abandoned \subseteq Children

\* However the handlers add and delete handlers, themselves included, one signal
\* calls each handler that was there from its beginning and has not been deleted
\* exactly once, and no other; the iterator never stays in the list.
WalkExact ==
  /\ pc = "walk" /\ sg # None /\ Signum(sg) = signum => sg \in due
  /\ pc = "loop" => due = {}
  /\ pc \in {"loop", "walk"} => Iter \notin Elements(signal_list)

\* A signal that has a handler is caught and not blocked, except inside of
\* signal_add; a signal that lost its last handler is blocked, so that it waits
\* for the next one instead of going to nobody.
MaskMatchesHandlers ==
  pc \notin {"sigaction", "unblock"} =>
    \A s \in installed :
      s \in blocked <=> \A x \in Elements(signal_list) \ {Iter} : Signum(x) # s

\* Signals reach exactly the handlers they should: the walk through the list is
\* exact and the masks agree with the list, in states of the right types.
SignalsExact == TypeOK /\ WalkExact /\ MaskMatchesHandlers

\* waitpid(-1) never swallows the exit of a process the user still watches, not
\* even of one that exits between fork() and process_add().
NoSilentReap ==
  \A c \in Children : child[c] = "reaped" => c \in abandoned

Unnoticed(c) == child[c] = "zombie" /\ Owner(c) # {}
ExitNoticed(c) == [](~overflow) => (Unnoticed(c) ~> ~Unnoticed(c))

\* Once SIGCHLD is being caught, that is after the first process_fork(), the exit
\* of every process that is watched is noticed, even if one signal stands for
\* several exits (unless a signal is lost in a full pipe).
LaterExitsNoticed == \A c \in Children \ {1} : ExitNoticed(c)

\* "Called when the process exits" (mainloop.h, main_process.handler): every
\* exit of a watched process is noticed.
ExitsNoticed == \A c \in Children : ExitNoticed(c)

=============================================================================
