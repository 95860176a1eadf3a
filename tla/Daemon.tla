------------------------------- MODULE Daemon -------------------------------
(***************************************************************************)
(* Daemons and their control: ucw/daemon.c (daemon_init, daemon_run,       *)
(* daemon_exit) and ucw/daemon-ctrl.c (daemon_control).                    *)
(*                                                                         *)
(* Three kinds of processes meet in the PID file.  A launcher runs         *)
(* daemon_init and daemon_run; the daemon is its child, which shares the   *)
(* open PID file and so the lock on it; a controller runs daemon_control   *)
(* under the exclusive lock of the guard file.  Each start of the daemon   *)
(* is a generation, whose number stands for the PID of its daemon.         *)
(*                                                                         *)
(* A step is one system call on shared state.  A process may be killed or  *)
(* die of a failed call at any of them.  Controllers are not killed, but   *)
(* their waitpid() may fail; PIDs are not reused.                          *)
(***************************************************************************)
EXTENDS Naturals

CONSTANTS
  Ctls,       \* long-lived processes calling daemon_control
  MaxStarts,  \* bound on the generations
  MaxLoose    \* bound on the launchers nobody waits for

Gens == 1..MaxStarts

\* enum daemon_control_action
Actions == {"check", "start", "stop", "signal"}

VARIABLES
  guard,     \* the controllers with the guard file open and locked
  pc,        \* where each controller is in daemon_control
  op,        \* dc->action
  st,        \* the status found or to be returned
  pid,       \* the PID found, 0 if none
  run,       \* the generation started by DAEMON_CONTROL_START
  shlock,    \* the controllers holding the shared lock of the PID file
  file,      \* the contents of the PID file
  filePid,   \* the PID in it when file = "pid"
  launcher,  \* the state of each launcher
  daemon,    \* the state of each daemon
  starts,    \* how many generations there were
  loose,     \* how many launchers were started around daemon_control, or left by
             \* it when waitpid() failed
  term,      \* the living daemons which were sent the terminating signal
  owner,     \* history: the last generation which locked the PID file
  graceful,  \* history: whether that one has called daemon_exit
  foreign    \* history: the launchers nobody waited for at some moment since the
             \* guard file was locked

ctl == <<guard, pc, op, st, pid, run, shlock>>
proc == <<launcher, daemon, starts, loose, term>>
pidFile == <<file, filePid>>
history == <<owner, graceful, foreign>>
vars == <<ctl, proc, pidFile, history>>

\* Mutant: the lock belongs to the process, as fcntl() locks do
LocksOfProcess ==
  {g \in Gens : launcher[g] \in {"locked", "empty", "noted", "forked", "wrote", "known"}}

\* The generations holding the exclusive lock of the PID file: flock() locks
\* an open file, which fork() shares, until its last descriptor is closed
Locks ==
  {g \in Gens : \/ launcher[g] \in {"locked", "empty", "noted", "forked", "wrote", "known"}
                \/ daemon[g] \in {"waits", "body", "exiting"}}

\* The launchers still in daemon_init or daemon_run for whom no controller
\* waits under the guard lock
Unattended ==
  {g \in Gens : /\ launcher[g] \notin {"none", "done", "died"}
                /\ \A p \in Ctls : pc[p] = "wait" => run[p] # g}

-----------------------------------------------------------------------------
(* daemon_init and daemon_run in the launcher                              *)

\* daemon_init opens the PID file, creating it, and tries to lock it
LockPidFile(g) ==
  /\ launcher[g] = "new"
  /\ file' = IF file = "absent" THEN "empty" ELSE file
  /\ IF Locks = {} /\ shlock = {}
     THEN /\ launcher' = [launcher EXCEPT ![g] = "locked"]
          /\ owner' = g /\ graceful' = FALSE /\ UNCHANGED foreign
     ELSE /\ launcher' = [launcher EXCEPT ![g] = "died"]
          /\ UNCHANGED history
  /\ UNCHANGED <<ctl, daemon, starts, loose, term, filePid>>

\* The launcher goes from one state to another with the PID file as given
LauncherStep(g, from, to, content) ==
  /\ launcher[g] = from
  /\ launcher' = [launcher EXCEPT ![g] = to]
  /\ file' = content
  /\ filePid' = IF content = "pid" THEN g ELSE 0
  /\ UNCHANGED <<ctl, daemon, starts, loose, term, history>>

\* ... which makes a note of the start in it
TruncateFile(g) == LauncherStep(g, "locked", "empty", "empty")
NoteStart(g) == LauncherStep(g, "empty", "noted", "starting")

\* daemon_run
Fork(g) ==
  /\ launcher[g] = "noted"
  /\ launcher' = [launcher EXCEPT ![g] = "forked"]
  /\ daemon' = [daemon EXCEPT ![g] = "waits"]
  /\ UNCHANGED <<ctl, starts, loose, term, pidFile, history>>

\* The PID is written over the note, whose rest is then cut off
WritePid(g) == LauncherStep(g, "forked", "wrote", "mixed")
CutFile(g) == LauncherStep(g, "wrote", "known", "pid")

\* The PID file and the pipe are closed and the original process ends
ClosePipe(g) ==
  /\ launcher[g] = "known"
  /\ launcher' = [launcher EXCEPT ![g] = "done"]
  /\ UNCHANGED <<ctl, daemon, starts, loose, term, pidFile, history>>

\* die() after a failed call, a failed exec, or a signal
LauncherDies(g) ==
  /\ launcher[g] \notin {"none", "done", "died"}
  /\ launcher' = [launcher EXCEPT ![g] = "died"]
  /\ UNCHANGED <<ctl, daemon, starts, loose, term, pidFile, history>>

(* The daemon                                                              *)

\* Mutant: no pipe
ReadPipeAtOnce(g) ==
  /\ daemon[g] = "waits"
  /\ daemon' = [daemon EXCEPT ![g] = "body"]
  /\ UNCHANGED <<ctl, launcher, starts, loose, term, pidFile, history>>

\* The read from the pipe ends when the launcher closed it, dead or alive
ReadPipe(g) ==
  /\ daemon[g] = "waits"
  /\ launcher[g] \in {"done", "died"}
  /\ daemon' = [daemon EXCEPT ![g] = "body"]
  /\ UNCHANGED <<ctl, launcher, starts, loose, term, pidFile, history>>

\* daemon_exit empties the PID file ...
ExitTruncate(g) ==
  /\ daemon[g] = "body"
  /\ daemon' = [daemon EXCEPT ![g] = "exiting"]
  /\ file' = "empty"
  /\ filePid' = 0
  /\ graceful' = (graceful \/ g = owner)
  /\ UNCHANGED <<ctl, launcher, starts, loose, term, owner, foreign>>

\* ... and closes it
ExitClose(g) ==
  /\ daemon[g] = "exiting"
  /\ daemon' = [daemon EXCEPT ![g] = "leaving"]
  /\ UNCHANGED <<ctl, launcher, starts, loose, term, pidFile, history>>

\* The end of the daemon: exit() after its body, or a crash
DaemonEnds(g) ==
  /\ daemon[g] \notin {"none", "dead"}
  /\ daemon' = [daemon EXCEPT ![g] = "dead"]
  /\ term' = term \ {g}
  /\ UNCHANGED <<ctl, launcher, starts, loose, pidFile, history>>

-----------------------------------------------------------------------------
(* daemon_control                                                          *)

\* Where a controller goes, with which status and PID
Goto(p, where, status, number) ==
  /\ pc' = [pc EXCEPT ![p] = where]
  /\ st' = [st EXCEPT ![p] = status]
  /\ pid' = [pid EXCEPT ![p] = number]

\* daemon_control returns the status, which is not kept
Leave(p) ==
  /\ Goto(p, "out", "none", 0)
  /\ op' = [op EXCEPT ![p] = "none"]
  /\ run' = [run EXCEPT ![p] = 0]

Call(p) ==
  /\ pc[p] = "out"
  /\ Goto(p, "guard", "none", 0)
  /\ UNCHANGED <<guard, op, run, shlock, proc, pidFile, history>>

\* Mutant: no lock on the guard file
GuardOpen(p, action) ==
  /\ pc[p] = "guard"
  /\ guard' = guard \cup {p}
  /\ op' = [op EXCEPT ![p] = action]
  /\ foreign' = Unattended
  /\ Goto(p, "open", "none", 0)
  /\ UNCHANGED <<run, shlock, proc, pidFile, owner, graceful>>

\* The guard file is opened anew, so flock() waits for its own process, too.
\* dc->action is not looked at before.
GuardLock(p, action) ==
  /\ pc[p] = "guard"
  /\ guard = {}
  /\ guard' = {p}
  /\ op' = [op EXCEPT ![p] = action]
  /\ foreign' = Unattended
  /\ Goto(p, "open", "none", 0)
  /\ UNCHANGED <<run, shlock, proc, pidFile, owner, graceful>>

\* daemon_read_pid finds no PID file
ReadAbsent(p) ==
  /\ pc[p] = "open"
  /\ file = "absent"
  /\ Goto(p, "act", "not_running", 0)
  /\ UNCHANGED <<guard, op, run, shlock, proc, pidFile, history>>

\* It opens the PID file, which nobody removes, and tries to get a shared lock
ReadLock(p) ==
  /\ pc[p] \in {"open", "reopen"}
  /\ file # "absent"
  /\ pc' = [pc EXCEPT ![p] = IF @ = "open" THEN "read" ELSE "reread"]
  /\ shlock' = IF Locks = {} THEN shlock \cup {p} ELSE shlock
  /\ UNCHANGED <<guard, op, st, pid, run, proc, pidFile, history>>

\* The status daemon_read_pid makes of the lock and the contents
ReadStatus(p) ==
  LET locked == p \notin shlock IN
  CASE file = "empty" -> IF locked THEN "ok" ELSE "not_running"
    [] file # "empty" /\ ~locked -> "stale"
    [] file \in {"starting", "mixed"} /\ locked -> "error"
    [] OTHER -> "ok"

ReadNumber(p) ==
  IF ReadStatus(p) = "ok" /\ file = "pid" THEN filePid ELSE 0

\* It reads and closes the file
ReadPid(p) ==
  /\ pc[p] = "read"
  /\ Goto(p, IF ReadStatus(p) = "error" THEN "done" ELSE "act",
          ReadStatus(p), ReadNumber(p))
  /\ shlock' = shlock \ {p}
  /\ UNCHANGED <<guard, op, run, proc, pidFile, history>>

Check(p) ==
  /\ pc[p] = "act" /\ op[p] = "check"
  /\ Goto(p, "done", st[p], pid[p])
  /\ UNCHANGED <<guard, op, run, shlock, proc, pidFile, history>>

StartAlready(p) ==
  /\ pc[p] = "act" /\ op[p] = "start"
  /\ st[p] = "ok"
  /\ Goto(p, "done", "already_done", pid[p])
  /\ UNCHANGED <<guard, op, run, shlock, proc, pidFile, history>>

\* The daemon's program is run in a new process ...
StartFork(p) ==
  /\ pc[p] = "act" /\ op[p] = "start"
  /\ st[p] # "ok"
  /\ starts < MaxStarts
  /\ starts' = starts + 1
  /\ launcher' = [launcher EXCEPT ![starts + 1] = "new"]
  /\ run' = [run EXCEPT ![p] = starts + 1]
  /\ Goto(p, "wait", st[p], pid[p])
  /\ UNCHANGED <<guard, op, shlock, daemon, loose, term, pidFile, history>>

\* ... or the fork fails
StartForkFails(p) ==
  /\ pc[p] = "act" /\ op[p] = "start"
  /\ st[p] # "ok"
  /\ Goto(p, "done", "error", pid[p])
  /\ UNCHANGED <<guard, op, run, shlock, proc, pidFile, history>>

\* ... and waited for
StartWait(p) ==
  /\ pc[p] = "wait"
  /\ \/ launcher[run[p]] = "died" /\ Goto(p, "done", "error", pid[p])
     \/ launcher[run[p]] = "done" /\ Goto(p, "reopen", st[p], 0)
  /\ UNCHANGED <<guard, op, run, shlock, proc, pidFile, history>>

\* waitpid() fails, be it interrupted by a signal: the launcher goes on alone
StartWaitFails(p) ==
  /\ pc[p] = "wait"
  /\ loose < MaxLoose
  /\ loose' = loose + 1
  /\ Goto(p, "done", "error", pid[p])
  /\ foreign' = foreign \cup {run[p]}
  /\ UNCHANGED <<guard, op, run, shlock, launcher, daemon, starts, term, pidFile,
                 owner, graceful>>

\* The PID file is read once more
StartReread(p) ==
  /\ pc[p] = "reread"
  /\ Goto(p, "done",
          IF ReadStatus(p) \notin {"ok", "not_running"} THEN "error"
          ELSE IF st[p] = "stale" THEN "stale" ELSE "ok",
          ReadNumber(p))
  /\ shlock' = shlock \ {p}
  /\ UNCHANGED <<guard, op, run, proc, pidFile, history>>

StopNotRunning(p) ==
  /\ pc[p] = "act" /\ op[p] = "stop"
  /\ st[p] # "ok"
  /\ Goto(p, "done", IF st[p] = "not_running" THEN "already_done" ELSE st[p], pid[p])
  /\ UNCHANGED <<guard, op, run, shlock, proc, pidFile, history>>

\* A daemon which is just exiting has no PID and needs no signal
StopSignal(p) ==
  /\ pc[p] = "act" /\ op[p] = "stop"
  /\ st[p] = "ok"
  /\ term' = IF pid[p] # 0 /\ daemon[pid[p]] # "dead" THEN term \cup {pid[p]} ELSE term
  /\ Goto(p, "stopping", st[p], pid[p])
  /\ UNCHANGED <<guard, op, run, shlock, launcher, daemon, starts, loose, pidFile, history>>

\* Mutant: daemon_read_pid is told not to wait
StopNoWait(p) ==
  /\ pc[p] = "stopping"
  /\ Goto(p, "done", "ok", 0)
  /\ UNCHANGED <<guard, op, run, shlock, proc, pidFile, history>>

\* daemon_read_pid waits for the shared lock; whatever it reads then is
\* success, as a PID is parsed only when the lock is not available
StopWait(p) ==
  /\ pc[p] = "stopping"
  /\ Locks = {}
  /\ Goto(p, "done", "ok", 0)
  /\ UNCHANGED <<guard, op, run, shlock, proc, pidFile, history>>

SignalSend(p) ==
  /\ pc[p] = "act" /\ op[p] = "signal"
  /\ pid[p] # 0
  /\ Goto(p, "done", IF daemon[pid[p]] # "dead" THEN "ok" ELSE "not_running", pid[p])
  /\ UNCHANGED <<guard, op, run, shlock, proc, pidFile, history>>

\* The return which does not close the guard file
SignalReturn(p) ==
  /\ pc[p] = "act" /\ op[p] = "signal"
  /\ pid[p] = 0
  /\ Leave(p)
  /\ UNCHANGED <<guard, shlock, proc, pidFile, history>>

\* The guard file is closed
Return(p) ==
  /\ pc[p] = "done"
  /\ guard' = guard \ {p}
  /\ Leave(p)
  /\ UNCHANGED <<shlock, proc, pidFile, history>>

-----------------------------------------------------------------------------
(* Outside                                                                 *)

\* A controller ends and another process takes its part
CtlExits(p) ==
  /\ pc[p] = "out"
  /\ p \in guard
  /\ guard' = guard \ {p}
  /\ UNCHANGED <<pc, op, st, pid, run, shlock, proc, pidFile, history>>

\* Somebody runs the daemon's program by hand
DirectStart ==
  /\ loose < MaxLoose
  /\ starts < MaxStarts
  /\ loose' = loose + 1
  /\ starts' = starts + 1
  /\ launcher' = [launcher EXCEPT ![starts + 1] = "new"]
  /\ foreign' = foreign \cup {starts + 1}
  /\ UNCHANGED <<ctl, daemon, term, pidFile, owner, graceful>>

-----------------------------------------------------------------------------

Init ==
  /\ guard = {}
  /\ pc = [p \in Ctls |-> "out"]
  /\ op = [p \in Ctls |-> "none"]
  /\ st = [p \in Ctls |-> "none"]
  /\ pid = [p \in Ctls |-> 0]
  /\ run = [p \in Ctls |-> 0]
  /\ shlock = {}
  /\ file = "absent"
  /\ filePid = 0
  /\ launcher = [g \in Gens |-> "none"]
  /\ daemon = [g \in Gens |-> "none"]
  /\ starts = 0
  /\ loose = 0
  /\ term = {}
  /\ owner = 0
  /\ graceful = FALSE
  /\ foreign = {}

LauncherNext(g) ==
  LockPidFile(g) \/ TruncateFile(g) \/ NoteStart(g) \/ Fork(g) \/ WritePid(g)
  \/ CutFile(g) \/ ClosePipe(g)

\* The steps of daemon_control after the guard file was locked
CtlNext(p) ==
  \/ ReadAbsent(p) \/ ReadLock(p) \/ ReadPid(p)
  \/ Check(p)
  \/ StartAlready(p) \/ StartFork(p) \/ StartForkFails(p) \/ StartWait(p)
  \/ StartWaitFails(p) \/ StartReread(p)
  \/ StopNotRunning(p) \/ StopSignal(p) \/ StopWait(p)
  \/ SignalSend(p) \/ SignalReturn(p)
  \/ Return(p)

Next ==
  \/ \E g \in Gens :
       \/ LauncherNext(g) \/ LauncherDies(g)
       \/ ReadPipe(g) \/ ExitTruncate(g) \/ ExitClose(g) \/ DaemonEnds(g)
  \/ \E p \in Ctls :
       \/ Call(p) \/ \E action \in Actions : GuardLock(p, action)
       \/ CtlNext(p) \/ CtlExits(p)
  \/ DirectStart

Spec == Init /\ [][Next]_vars

\* A daemon asked to terminate does so by daemon_exit
Terminates(g) == g \in term /\ ExitTruncate(g)

\* Every process is scheduled, a daemon obeys the signal, the locks are granted
\* to those who wait for them.
FairSpec ==
  /\ Spec
  /\ \A g \in Gens : /\ WF_vars(LauncherNext(g))
                     /\ WF_vars(ReadPipe(g))
                     /\ WF_vars(Terminates(g))
                     /\ WF_vars(ExitClose(g))
  /\ \A p \in Ctls :
       WF_vars(CtlNext(p)) /\ SF_vars(\E action \in Actions : GuardLock(p, action))

-----------------------------------------------------------------------------

\* The variables keep to their domains, and at most one controller is inside
\* the part of daemon_control under the guard lock.
TypeOK ==
  /\ guard \subseteq Ctls /\ \A p, q \in guard : p = q
  /\ pc \in [Ctls -> {"out", "guard", "open", "read", "act", "wait", "reopen",
                      "reread", "stopping", "done"}]
  /\ \A p \in Ctls : pc[p] \notin {"out", "guard"} => p \in guard
  /\ op \in [Ctls -> {"none", "check", "start", "stop", "signal"}]
  /\ st \in [Ctls -> {"none", "ok", "already_done", "not_running", "stale", "error"}]
  /\ pid \in [Ctls -> 0..MaxStarts]
  /\ run \in [Ctls -> 0..MaxStarts]
  /\ shlock \subseteq guard
  /\ file \in {"absent", "empty", "starting", "mixed", "pid"}
  /\ filePid \in 0..MaxStarts
  /\ launcher \in [Gens -> {"none", "new", "locked", "empty", "noted", "forked",
                            "wrote", "known", "done", "died"}]
  /\ daemon \in [Gens -> {"none", "waits", "body", "exiting", "leaving", "dead"}]
  /\ starts \in 0..MaxStarts
  /\ loose \in 0..MaxLoose
  /\ term \subseteq Gens
  /\ owner \in 0..MaxStarts
  /\ graceful \in BOOLEAN
  /\ foreign \subseteq Gens

\* "Daemon is already running" (daemon.c): two daemons never run their bodies
\* at the same time before daemon_exit, even when the program is also started
\* by hand and launchers die at any moment.
OneDaemon ==
  \A g, h \in Gens :
    daemon[g] \in {"body", "exiting"} /\ daemon[h] \in {"body", "exiting"} => g = h

\* "avoid possible collision between writing of PID and daemon_exit()"
\* (daemon.c, daemon_run): what daemon_read_pid would call a crashed daemon is
\* never a daemon which left by daemon_exit.
StaleMeansCrash ==
  file \in {"starting", "mixed", "pid"} /\ Locks = {} => ~graceful

\* "no foreign process can be inside daemon_control() and therefore also in
\* daemon_init() or daemon_run()" (daemon-ctrl.c): as long as this is so during
\* the call, whatever happened before it, a PID read from the file is the PID
\* of the only daemon which may be running, so no signal goes astray to a
\* former one ("running daemon with known PID").
PidIsCurrent ==
  foreign = {} =>
    \A p \in Ctls : pid[p] # 0 =>
      \A g \in Gens : daemon[g] \in {"waits", "body", "exiting"} => g = pid[p]

\* What a caller may conclude from the status when no launcher ran unattended
\* during the call: after a successful STOP no daemon holds the PID file; after
\* a successful START the new daemon can be found by its PID, unless it has
\* already ended.
StatusHonest ==
  foreign = {} =>
    \A p \in Ctls : pc[p] = "done" =>
      /\ op[p] = "stop" /\ st[p] \in {"ok", "already_done"} => Locks = {}
      /\ op[p] = "start" /\ st[p] \in {"ok", "stale"} =>
           \/ file = "pid" /\ filePid = run[p]
           \/ daemon[run[p]] \in {"exiting", "leaving", "dead"}

\* "The function returns a status code" (daemon.h): a call of daemon_control
\* ends.
EveryCallReturns ==
  \A p \in Ctls : pc[p] = "guard" ~> pc[p] = "out"

=============================================================================
