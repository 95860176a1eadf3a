-------------------------- MODULE ComponentProofs --------------------------
(***************************************************************************)
(* The components of module Components, for every value of the constants.  *)
(*                                                                         *)
(* Daemons: the lock of the PID file belongs to one generation (its owner, *)
(* by LocksOK), which alone writes the file, so that the launcher's and    *)
(* the daemon's states tell its contents (FileOK).  A controller under the *)
(* guard lock knows that no launcher is at work, unless it waits for one   *)
(* itself or one runs which nobody waits for (SerialOK).                   *)
(*                                                                         *)
(* Block I/O: the position of a request, the bytes moved and the handler   *)
(* that is registered belong together (BlockInv).                          *)
(*                                                                         *)
(* Atomic fastbufs: what a thread has put is in the file or in its buffer, *)
(* from which whole records are written by one call (ThreadOK), and the    *)
(* file is closed only after the last thread has let it go (CountOK).      *)
(*                                                                         *)
(* Configuration: the journal leads back from the memory to where the      *)
(* operation began, what was set aside from there to the defaults, and all *)
(* values lie in pools that will not be deleted before them (ConfPools).   *)
(***************************************************************************)
EXTENDS Components, ListTheorems, FiniteSetTheorems, TLAPS

-----------------------------------------------------------------------------
(* Daemons.                                                                *)

\* D!TypeOK by parts: the controllers, at most one of them under the guard
\* lock, ...
CtlTypes ==
  /\ guard \subseteq Ctls /\ \A p, q \in guard : p = q
  /\ ctlPc \in [Ctls -> {"out", "guard", "open", "read", "act", "wait", "reopen",
                         "reread", "stopping", "done"}]
  /\ \A p \in Ctls : ctlPc[p] \notin {"out", "guard"} => p \in guard
  /\ ctlOp \in [Ctls -> {"none", "check", "start", "stop", "signal"}]
  /\ ctlStatus \in [Ctls -> {"none", "ok", "already_done", "not_running", "stale", "error"}]
  /\ pid \in [Ctls -> 0..MaxStarts]
  /\ ctlRun \in [Ctls -> 0..MaxStarts]
  /\ shlock \subseteq guard

\* ... the launchers and the daemons, and the PID file.
ProcTypes ==
  /\ pidContents \in {"absent", "empty", "starting", "mixed", "pid"}
  /\ filePid \in 0..MaxStarts
  /\ launcher \in [D!Gens -> {"none", "new", "locked", "empty", "noted", "forked",
                              "wrote", "known", "done", "died"}]
  /\ daemon \in [D!Gens -> {"none", "waits", "body", "exiting", "leaving", "dead"}]
  /\ starts \in 0..MaxStarts
  /\ loose \in 0..MaxLoose
  /\ term \subseteq D!Gens
  /\ owner \in 0..MaxStarts

GracefulType == graceful \in BOOLEAN

ForeignType == foreign \subseteq D!Gens

\* How far a daemon can be when its launcher is where it is.
GenerationsOK ==
  \A g \in D!Gens :
    /\ g > starts => launcher[g] = "none"
    /\ launcher[g] \in {"none", "new", "locked", "empty", "noted"} => daemon[g] = "none"
    /\ launcher[g] \in {"forked", "wrote", "known"} => daemon[g] \in {"waits", "dead"}
    /\ launcher[g] = "done" => daemon[g] # "none"

\* The owner is the only one to hold the exclusive lock, and nobody has the
\* shared one at the same time.
LocksOK ==
  /\ owner <= starts
  /\ \A g \in D!Locks : owner = g
  /\ \A p \in Ctls : p \in shlock => ctlPc[p] \in {"read", "reread"} /\ D!Locks = {}

\* What the PID file contains while its owner is at work and when it is not.
FileOK ==
  /\ pidContents = "absent" => owner = 0
  /\ \A g \in D!Gens :
       /\ launcher[g] = "empty" => pidContents = "empty"
       /\ launcher[g] \in {"noted", "forked"} => pidContents = "starting"
       /\ launcher[g] = "wrote" => pidContents = "mixed"
       /\ launcher[g] = "known" \/ (launcher[g] = "done" /\ daemon[g] \in {"waits", "body"}) =>
            pidContents = "pid" /\ filePid = g
  /\ pidContents = "pid" => owner # 0 /\ (filePid = owner \/ daemon[owner] = "none")
  /\ graceful => /\ pidContents = "empty" /\ owner # 0
                 /\ launcher[owner] \in {"done", "died"}
                 /\ daemon[owner] \in {"exiting", "leaving", "dead"}

\* What a controller has found out by the step it is in.
CtlOK ==
  \A p \in Ctls :
    /\ ctlPc[p] \in {"wait", "reopen", "reread"} => ctlOp[p] = "start" /\ ctlRun[p] \in D!Gens
    /\ ctlPc[p] = "stopping" => ctlOp[p] = "stop"
    /\ \/ ctlPc[p] \in {"reopen", "reread"}
       \/ ctlPc[p] = "done" /\ ctlOp[p] = "start" /\ ctlStatus[p] \in {"ok", "stale"}
       => ctlRun[p] \in D!Gens /\ launcher[ctlRun[p]] = "done"
    /\ pid[p] # 0 => ctlPc[p] \in {"act", "stopping", "done"}
    /\ ctlPc[p] = "act" /\ pid[p] # 0 => ctlStatus[p] = "ok"

\* As long as every launcher is waited for under the guard lock.
SerialOK ==
  foreign = {} =>
    /\ \A g \in D!Gens : launcher[g] \notin {"none", "done", "died"} =>
         \E p \in Ctls : ctlPc[p] = "wait" /\ ctlRun[p] = g
    /\ \A p \in Ctls :
         /\ ctlPc[p] = "act" /\ ctlStatus[p] # "ok" => D!Locks = {}
         /\ ctlPc[p] = "done" /\ ctlOp[p] = "stop" /\ ctlStatus[p] \in {"ok", "already_done"} =>
              D!Locks = {}

DaemonInv ==
  /\ CtlTypes /\ ProcTypes /\ GenerationsOK /\ LocksOK /\ FileOK /\ CtlOK /\ SerialOK
  /\ GracefulType /\ ForeignType /\ D!PidIsCurrent

\* The parts of the invariant give the type invariant.
LEMMA TypesOK == CtlTypes /\ ProcTypes /\ GracefulType /\ ForeignType => D!TypeOK
  BY Zenon DEF CtlTypes, ProcTypes, GracefulType, ForeignType, D!TypeOK

\* At first nobody runs.
LEMMA DaemonInit == D!Init => DaemonInv
<1> SUFFICES ASSUME D!Init PROVE DaemonInv
  OBVIOUS
<1> USE DaemonAssumption
<1>1. CtlTypes
  BY DEF D!Init, CtlTypes
<1>2. ProcTypes
  BY DEF D!Init, ProcTypes, D!Gens
<1>3. D!Locks = {}
  BY DEF D!Init, D!Locks
<1>4. GenerationsOK /\ LocksOK /\ FileOK /\ CtlOK
  BY <1>3 DEF D!Init, D!Gens, GenerationsOK, LocksOK, FileOK, CtlOK
<1>5. SerialOK /\ D!PidIsCurrent
  BY <1>3 DEF D!Init, SerialOK, D!PidIsCurrent
<1>6. GracefulType
  BY Zenon DEF D!Init, GracefulType
<1>7. ForeignType
  BY DEF D!Init, ForeignType
<1> QED
  BY <1>1, <1>2, <1>4, <1>5, <1>6, <1>7 DEF DaemonInv

\* A launcher which has not ended yet.
Active(g) == launcher[g] \notin {"none", "done", "died"}

\* A daemon which still has the PID file open.
Holds(g) == daemon[g] \in {"waits", "body", "exiting"}

\* What a step of a launcher or a daemon may do, as far as the controllers
\* depend on it: only a launcher at work gets the lock or forks a daemon, and
\* a launcher that ended stays so.
Tame ==
  /\ UNCHANGED <<D!ctl, starts, foreign>>
  /\ D!Locks' \subseteq D!Locks \/ \E g \in D!Gens : Active(g)
  /\ \A g \in D!Gens : /\ Active(g)' => Active(g)
                       /\ launcher[g] = "done" => launcher'[g] = "done"
                       /\ Holds(g)' => Holds(g) \/ Active(g)

\* A tame step leaves everything about the controllers true.
LEMMA TameStep ==
  ASSUME DaemonInv, Tame, ProcTypes', GracefulType', GenerationsOK', LocksOK', FileOK'
  PROVE  DaemonInv'
<1>1. /\ UNCHANGED <<guard, ctlPc, ctlOp, ctlStatus, pid, ctlRun, shlock, starts, foreign>>
  BY DEF Tame, D!ctl
<1>2. CtlTypes'
  BY <1>1 DEF DaemonInv, CtlTypes
<1>3. CtlOK'
  BY <1>1 DEF DaemonInv, CtlOK, Tame, D!Gens
<1>4. ASSUME foreign = {}, NEW p \in Ctls, ctlPc[p] \notin {"out", "guard", "wait"},
             NEW g \in D!Gens, Active(g)
      PROVE  FALSE
  <2>1. PICK q \in Ctls : ctlPc[q] = "wait" /\ ctlRun[q] = g
    BY <1>4 DEF DaemonInv, SerialOK, Active
  <2> QED
    BY <1>4, <2>1 DEF DaemonInv, CtlTypes
<1>5. SerialOK'
  <2> SUFFICES ASSUME foreign = {} PROVE SerialOK'
    BY <1>1 DEF SerialOK
  <2>1. ASSUME NEW g \in D!Gens, Active(g)'
        PROVE  \E p \in Ctls : ctlPc[p] = "wait" /\ ctlRun[p] = g
    BY <2>1 DEF DaemonInv, SerialOK, Tame, Active
  <2>2. ASSUME NEW p \in Ctls, ctlPc[p] \in {"act", "done"}, D!Locks = {}
        PROVE  D!Locks' = {}
    BY <1>4, <2>2 DEF Tame
  <2> QED
    BY <1>1, <2>1, <2>2 DEF DaemonInv, SerialOK, Active, D!Gens
<1>6. D!PidIsCurrent'
  <2> SUFFICES ASSUME foreign = {}, NEW p \in Ctls, pid[p] # 0, NEW g \in D!Gens, Holds(g)'
               PROVE  g = pid[p]
    BY <1>1 DEF D!PidIsCurrent, Holds, D!Gens
  <2>1. ctlPc[p] \in {"act", "stopping", "done"}
    BY DEF DaemonInv, CtlOK
  <2>2. Holds(g)
    BY <1>4, <2>1 DEF Tame
  <2> QED
    BY <2>2 DEF DaemonInv, D!PidIsCurrent, Holds
<1>7. ForeignType'
  BY <1>1 DEF DaemonInv, ForeignType, D!Gens
<1> QED
  BY <1>2, <1>3, <1>5, <1>6, <1>7 DEF DaemonInv

\* A launcher gets the lock of the PID file (daemon_init).
LEMMA LockStep ==
  ASSUME DaemonInv, NEW g \in D!Gens, D!LockPidFile(g)
  PROVE  DaemonInv'
<1> USE DaemonAssumption DEF D!Gens
<1>1. ProcTypes'
  BY DEF DaemonInv, ProcTypes, D!LockPidFile, D!history
<1>0. GracefulType'
  BY Zenon DEF DaemonInv, GracefulType, D!LockPidFile, D!history
<1>2. Tame
  BY DEF DaemonInv, ProcTypes, Tame, Active, Holds, D!LockPidFile, D!history
<1>3. GenerationsOK'
  BY DEF DaemonInv, ProcTypes, GenerationsOK, D!LockPidFile, D!history
<1>4. CASE D!Locks = {} /\ shlock = {}
  <2>1. /\ launcher' = [launcher EXCEPT ![g] = "locked"] /\ owner' = g /\ ~graceful'
        /\ UNCHANGED <<shlock, daemon, starts, filePid>> /\ pidContents' # "absent"
        /\ pidContents # "absent" => pidContents' = pidContents
    BY <1>4 DEF D!LockPidFile, D!ctl
  <2>2. \A h \in D!Gens : h \notin D!Locks /\ (h # g => h \notin D!Locks')
    BY <1>4, <2>1 DEF D!Locks, DaemonInv, ProcTypes
  <2>3. LocksOK'
    BY <1>4, <2>1, <2>2 DEF LocksOK, DaemonInv, GenerationsOK, D!LockPidFile, ProcTypes,
                            D!Locks
  <2>4. FileOK'
    BY <1>4, <2>1, <2>2 DEF FileOK, DaemonInv, GenerationsOK, D!LockPidFile, ProcTypes, D!Locks
  <2> QED
    BY <1>0, <1>1, <1>2, <1>3, <2>3, <2>4, TameStep
<1>5. CASE ~(D!Locks = {} /\ shlock = {})
  <2>1. /\ launcher' = [launcher EXCEPT ![g] = "died"] /\ UNCHANGED <<owner, graceful>>
        /\ UNCHANGED <<shlock, daemon, starts, filePid, ctlPc>>
        /\ pidContents # "absent" => pidContents' = pidContents
        /\ pidContents' # "absent"
    BY <1>5 DEF D!LockPidFile, D!history, D!ctl
  <2>2. D!Locks' = D!Locks
    BY <2>1 DEF D!Locks, DaemonInv, ProcTypes, GenerationsOK, D!LockPidFile
  <2>3. LocksOK'
    BY <2>1, <2>2 DEF LocksOK, DaemonInv
  <2>4. FileOK'
    BY <2>1, <2>2 DEF FileOK, LocksOK, DaemonInv, GenerationsOK, ProcTypes, D!LockPidFile
  <2> QED
    BY <1>0, <1>1, <1>2, <1>3, <2>3, <2>4, TameStep
<1> QED
  BY <1>4, <1>5

\* A lock which somebody gives up belongs to nobody else.
LEMMA LocksShrink ==
  ASSUME DaemonInv, Tame, D!Locks' \subseteq D!Locks, owner' = owner
  PROVE  LocksOK'
<1>1. UNCHANGED <<ctlPc, shlock, starts>>
  BY DEF Tame, D!ctl
<1> QED
  BY <1>1 DEF DaemonInv, LocksOK

\* The launcher empties the PID file ...
LEMMA TruncateFileStep ==
  ASSUME DaemonInv, NEW g \in D!Gens, D!TruncateFile(g)
  PROVE  DaemonInv'
<1> USE DaemonAssumption DEF D!Gens
<1> USE DEF D!LauncherStep, D!TruncateFile
<1>1. ProcTypes'
  BY DEF DaemonInv, ProcTypes, D!pidFile, D!history
<1>2. GracefulType'
  BY Zenon DEF DaemonInv, GracefulType, D!history
<1>3. Tame
  BY DEF DaemonInv, ProcTypes, Tame, Active, Holds, D!Locks, D!history
<1>4. GenerationsOK'
  BY DEF DaemonInv, ProcTypes, GenerationsOK
<1>5. D!Locks' \subseteq D!Locks /\ UNCHANGED owner
  BY DEF DaemonInv, ProcTypes, D!Locks, D!history
<1>6. FileOK'
  BY DEF DaemonInv, ProcTypes, GenerationsOK, LocksOK, FileOK, D!Locks, D!pidFile, D!history
<1> QED
  BY <1>1, <1>2, <1>3, <1>4, <1>5, <1>6, LocksShrink, TameStep

\* ... and makes a note of the start in it.
LEMMA NoteStartStep ==
  ASSUME DaemonInv, NEW g \in D!Gens, D!NoteStart(g)
  PROVE  DaemonInv'
<1> USE DaemonAssumption DEF D!Gens
<1> USE DEF D!LauncherStep, D!NoteStart
<1>1. ProcTypes'
  BY DEF DaemonInv, ProcTypes, D!pidFile, D!history
<1>2. GracefulType'
  BY Zenon DEF DaemonInv, GracefulType, D!history
<1>3. Tame
  BY DEF DaemonInv, ProcTypes, Tame, Active, Holds, D!Locks, D!history
<1>4. GenerationsOK'
  BY DEF DaemonInv, ProcTypes, GenerationsOK
<1>5. D!Locks' \subseteq D!Locks /\ UNCHANGED owner
  BY DEF DaemonInv, ProcTypes, D!Locks, D!history
<1>6. FileOK'
  BY DEF DaemonInv, ProcTypes, GenerationsOK, LocksOK, FileOK, D!Locks, D!pidFile, D!history
<1> QED
  BY <1>1, <1>2, <1>3, <1>4, <1>5, <1>6, LocksShrink, TameStep

\* The PID is written over the note, ...
LEMMA WritePidStep ==
  ASSUME DaemonInv, NEW g \in D!Gens, D!WritePid(g)
  PROVE  DaemonInv'
<1> USE DaemonAssumption DEF D!Gens
<1> USE DEF D!LauncherStep, D!WritePid
<1>1. ProcTypes'
  BY DEF DaemonInv, ProcTypes, D!pidFile, D!history
<1>2. GracefulType'
  BY Zenon DEF DaemonInv, GracefulType, D!history
<1>3. Tame
  BY DEF DaemonInv, ProcTypes, Tame, Active, Holds, D!Locks, D!history
<1>4. GenerationsOK'
  BY DEF DaemonInv, ProcTypes, GenerationsOK
<1>5. D!Locks' \subseteq D!Locks /\ UNCHANGED owner
  BY DEF DaemonInv, ProcTypes, D!Locks, D!history
<1>6. FileOK'
  BY DEF DaemonInv, ProcTypes, GenerationsOK, LocksOK, FileOK, D!Locks, D!pidFile, D!history
<1> QED
  BY <1>1, <1>2, <1>3, <1>4, <1>5, <1>6, LocksShrink, TameStep

\* ... whose rest is cut off.
LEMMA CutFileStep ==
  ASSUME DaemonInv, NEW g \in D!Gens, D!CutFile(g)
  PROVE  DaemonInv'
<1> USE DaemonAssumption DEF D!Gens
<1> USE DEF D!LauncherStep, D!CutFile
<1>1. ProcTypes'
  BY DEF DaemonInv, ProcTypes, D!pidFile, D!history
<1>2. GracefulType'
  BY Zenon DEF DaemonInv, GracefulType, D!history
<1>3. Tame
  BY DEF DaemonInv, ProcTypes, Tame, Active, Holds, D!Locks, D!history
<1>4. GenerationsOK'
  BY DEF DaemonInv, ProcTypes, GenerationsOK
<1>5. D!Locks' \subseteq D!Locks /\ UNCHANGED owner
  BY DEF DaemonInv, ProcTypes, D!Locks, D!history
<1>6. FileOK'
  BY DEF DaemonInv, ProcTypes, GenerationsOK, LocksOK, FileOK, D!Locks, D!pidFile, D!history
<1> QED
  BY <1>1, <1>2, <1>3, <1>4, <1>5, <1>6, LocksShrink, TameStep

\* The launcher forks the daemon.
LEMMA ForkStep ==
  ASSUME DaemonInv, NEW g \in D!Gens, D!Fork(g)
  PROVE  DaemonInv'
<1> USE DaemonAssumption DEF D!Gens
<1> USE DEF D!Fork
<1>1. ProcTypes'
  BY DEF DaemonInv, ProcTypes, D!pidFile, D!history
<1>2. GracefulType'
  BY Zenon DEF DaemonInv, GracefulType, D!history
<1>3. Tame
  BY DEF DaemonInv, ProcTypes, Tame, Active, Holds, D!Locks, D!history
<1>4. GenerationsOK'
  BY DEF DaemonInv, ProcTypes, GenerationsOK
<1>5. D!Locks' \subseteq D!Locks /\ UNCHANGED owner
  BY DEF DaemonInv, ProcTypes, D!Locks, D!history
<1>6. FileOK'
  BY DEF DaemonInv, ProcTypes, GenerationsOK, LocksOK, FileOK, D!Locks, D!pidFile, D!history
<1> QED
  BY <1>1, <1>2, <1>3, <1>4, <1>5, <1>6, LocksShrink, TameStep

\* The launcher closes the pipe and ends.
LEMMA ClosePipeStep ==
  ASSUME DaemonInv, NEW g \in D!Gens, D!ClosePipe(g)
  PROVE  DaemonInv'
<1> USE DaemonAssumption DEF D!Gens
<1> USE DEF D!ClosePipe
<1>1. ProcTypes'
  BY DEF DaemonInv, ProcTypes, D!pidFile, D!history
<1>2. GracefulType'
  BY Zenon DEF DaemonInv, GracefulType, D!history
<1>3. Tame
  BY DEF DaemonInv, ProcTypes, Tame, Active, Holds, D!Locks, D!history
<1>4. GenerationsOK'
  BY DEF DaemonInv, ProcTypes, GenerationsOK
<1>5. D!Locks' \subseteq D!Locks /\ UNCHANGED owner
  BY DEF DaemonInv, ProcTypes, D!Locks, D!history
<1>6. FileOK'
  BY DEF DaemonInv, ProcTypes, GenerationsOK, LocksOK, FileOK, D!Locks, D!pidFile, D!history
<1> QED
  BY <1>1, <1>2, <1>3, <1>4, <1>5, <1>6, LocksShrink, TameStep

\* A launcher dies on the way.
LEMMA LauncherDiesStep ==
  ASSUME DaemonInv, NEW g \in D!Gens, D!LauncherDies(g)
  PROVE  DaemonInv'
<1> USE DaemonAssumption DEF D!Gens
<1> USE DEF D!LauncherDies
<1>1. ProcTypes'
  BY DEF DaemonInv, ProcTypes, D!pidFile, D!history
<1>2. GracefulType'
  BY Zenon DEF DaemonInv, GracefulType, D!history
<1>3. Tame
  BY DEF DaemonInv, ProcTypes, Tame, Active, Holds, D!Locks, D!history
<1>4. GenerationsOK'
  BY DEF DaemonInv, ProcTypes, GenerationsOK
<1>5. D!Locks' \subseteq D!Locks /\ UNCHANGED owner
  BY DEF DaemonInv, ProcTypes, D!Locks, D!history
<1>6. FileOK'
  BY DEF DaemonInv, ProcTypes, GenerationsOK, LocksOK, FileOK, D!Locks, D!pidFile, D!history
<1> QED
  BY <1>1, <1>2, <1>3, <1>4, <1>5, <1>6, LocksShrink, TameStep

\* The daemon learns that the launcher has closed the pipe.
LEMMA ReadPipeStep ==
  ASSUME DaemonInv, NEW g \in D!Gens, D!ReadPipe(g)
  PROVE  DaemonInv'
<1> USE DaemonAssumption DEF D!Gens
<1> USE DEF D!ReadPipe
<1>1. ProcTypes'
  BY DEF DaemonInv, ProcTypes, D!pidFile, D!history
<1>2. GracefulType'
  BY Zenon DEF DaemonInv, GracefulType, D!history
<1>3. Tame
  BY DEF DaemonInv, ProcTypes, Tame, Active, Holds, D!Locks, D!history
<1>4. GenerationsOK'
  BY DEF DaemonInv, ProcTypes, GenerationsOK
<1>5. D!Locks' \subseteq D!Locks /\ UNCHANGED owner
  BY DEF DaemonInv, ProcTypes, D!Locks, D!history
<1>6. FileOK'
  BY DEF DaemonInv, ProcTypes, GenerationsOK, LocksOK, FileOK, D!Locks, D!pidFile, D!history
<1> QED
  BY <1>1, <1>2, <1>3, <1>4, <1>5, <1>6, LocksShrink, TameStep

\* daemon_exit empties the file ...
LEMMA ExitTruncateStep ==
  ASSUME DaemonInv, NEW g \in D!Gens, D!ExitTruncate(g)
  PROVE  DaemonInv'
<1> USE DaemonAssumption DEF D!Gens
<1> USE DEF D!ExitTruncate
<1>1. ProcTypes'
  BY DEF DaemonInv, ProcTypes, D!pidFile, D!history
<1>2. GracefulType'
  BY Zenon DEF DaemonInv, GracefulType, D!history
<1>3. Tame
  BY DEF DaemonInv, ProcTypes, Tame, Active, Holds, D!Locks, D!history
<1>4. GenerationsOK'
  BY DEF DaemonInv, ProcTypes, GenerationsOK
<1>5. D!Locks' \subseteq D!Locks /\ UNCHANGED owner
  BY DEF DaemonInv, ProcTypes, D!Locks, D!history
<1>6. FileOK'
  BY DEF DaemonInv, ProcTypes, GenerationsOK, LocksOK, FileOK, D!Locks, D!pidFile, D!history
<1> QED
  BY <1>1, <1>2, <1>3, <1>4, <1>5, <1>6, LocksShrink, TameStep

\* ... and gives up the lock.
LEMMA ExitCloseStep ==
  ASSUME DaemonInv, NEW g \in D!Gens, D!ExitClose(g)
  PROVE  DaemonInv'
<1> USE DaemonAssumption DEF D!Gens
<1> USE DEF D!ExitClose
<1>1. ProcTypes'
  BY DEF DaemonInv, ProcTypes, D!pidFile, D!history
<1>2. GracefulType'
  BY Zenon DEF DaemonInv, GracefulType, D!history
<1>3. Tame
  BY DEF DaemonInv, ProcTypes, Tame, Active, Holds, D!Locks, D!history
<1>4. GenerationsOK'
  BY DEF DaemonInv, ProcTypes, GenerationsOK
<1>5. D!Locks' \subseteq D!Locks /\ UNCHANGED owner
  BY DEF DaemonInv, ProcTypes, D!Locks, D!history
<1>6. FileOK'
  BY DEF DaemonInv, ProcTypes, GenerationsOK, LocksOK, FileOK, D!Locks, D!pidFile, D!history
<1> QED
  BY <1>1, <1>2, <1>3, <1>4, <1>5, <1>6, LocksShrink, TameStep

\* The process of a daemon ends, by itself or killed.
LEMMA DaemonEndsStep ==
  ASSUME DaemonInv, NEW g \in D!Gens, D!DaemonEnds(g)
  PROVE  DaemonInv'
<1> USE DaemonAssumption DEF D!Gens
<1> USE DEF D!DaemonEnds
<1>1. ProcTypes'
  BY DEF DaemonInv, ProcTypes, D!pidFile, D!history
<1>2. GracefulType'
  BY Zenon DEF DaemonInv, GracefulType, D!history
<1>3. Tame
  BY DEF DaemonInv, ProcTypes, Tame, Active, Holds, D!Locks, D!history
<1>4. GenerationsOK'
  BY DEF DaemonInv, ProcTypes, GenerationsOK
<1>5. D!Locks' \subseteq D!Locks /\ UNCHANGED owner
  BY DEF DaemonInv, ProcTypes, D!Locks, D!history
<1>6. FileOK'
  BY DEF DaemonInv, ProcTypes, GenerationsOK, LocksOK, FileOK, D!Locks, D!pidFile, D!history
<1> QED
  BY <1>1, <1>2, <1>3, <1>4, <1>5, <1>6, LocksShrink, TameStep

\* A controller past the guard lock is the only one there ...
LEMMA Alone ==
  ASSUME DaemonInv, NEW p \in Ctls, ctlPc[p] \notin {"out", "guard"}
  PROVE  /\ p \in guard
         /\ \A q \in Ctls : q # p => ctlPc[q] \in {"out", "guard"} /\ q \notin guard
         /\ shlock \subseteq {p}
  BY DEF DaemonInv, CtlTypes

\* ... and no launcher is at work, unless the controller waits for it.
LEMMA NobodyStarts ==
  ASSUME DaemonInv, NEW p \in Ctls, ctlPc[p] \notin {"out", "guard"}, foreign = {},
         NEW g \in D!Gens, Active(g)
  PROVE  ctlPc[p] = "wait" /\ ctlRun[p] = g
<1>1. PICK q \in Ctls : ctlPc[q] = "wait" /\ ctlRun[q] = g
  BY DEF DaemonInv, SerialOK, Active
<1> QED
  BY <1>1, Alone

\* A step of a controller leaves the launchers, the daemons and the PID file
\* alone, but for signals.
Beside ==
  UNCHANGED <<pidContents, filePid, launcher, daemon, starts, owner, graceful>>

\* Most of them start no launcher to be left alone, either.
Outside ==
  UNCHANGED <<pidContents, filePid, launcher, daemon, starts, loose, owner, graceful, foreign>>

\* Such a step keeps what is about launchers and daemons.
LEMMA BesideStep ==
  ASSUME DaemonInv, Beside, term' \subseteq D!Gens, loose' \in 0..MaxLoose,
         CtlTypes', CtlOK', SerialOK',
         D!PidIsCurrent', ForeignType',
         \A p \in Ctls : p \in shlock' => ctlPc'[p] \in {"read", "reread"} /\ D!Locks = {}
  PROVE  DaemonInv'
<1> USE DEF Beside
<1>1. D!Locks' = D!Locks
  BY DEF D!Locks
<1>2. ProcTypes'
  BY DEF DaemonInv, ProcTypes, D!Gens
<1>3. GenerationsOK'
  BY DEF DaemonInv, GenerationsOK, D!Gens
<1>4. FileOK'
  BY DEF DaemonInv, FileOK, D!Gens
<1>5. LocksOK'
  BY <1>1 DEF DaemonInv, LocksOK
<1>6. GracefulType'
  BY DEF DaemonInv, GracefulType
<1> QED
  BY <1>2, <1>3, <1>4, <1>5, <1>6 DEF DaemonInv

LEMMA OutsideStep ==
  ASSUME DaemonInv, Outside, term' \subseteq D!Gens, CtlTypes', CtlOK', SerialOK',
         D!PidIsCurrent',
         \A p \in Ctls : p \in shlock' => ctlPc'[p] \in {"read", "reread"} /\ D!Locks = {}
  PROVE  DaemonInv'
<1>1. Beside
  BY DEF Beside, Outside
<1>2. ForeignType' /\ loose' \in 0..MaxLoose
  BY DEF Outside, DaemonInv, ProcTypes, ForeignType, D!Gens
<1> QED
  BY <1>1, <1>2, BesideStep

\* daemon_control is called.
LEMMA CallStep ==
  ASSUME DaemonInv, NEW p \in Ctls, D!Call(p)
  PROVE  DaemonInv'
<1> USE DEF D!Call, D!Goto
<1>1. Outside /\ term' \subseteq D!Gens
  BY DaemonAssumption DEF Outside, DaemonInv, CtlTypes, ProcTypes, D!Gens, D!proc, D!pidFile,
                          D!history
<1>3. CtlTypes'
  BY DaemonAssumption, <1>1 DEF DaemonInv, CtlTypes, ProcTypes, LocksOK
<1>4. CtlOK'
  BY <1>1 DEF Outside, DaemonInv, CtlTypes, CtlOK, ProcTypes, D!Gens
<1>5. D!Locks' = D!Locks /\ (D!Locks # {} => D!Locks = {owner} /\ owner \in D!Gens)
  BY <1>1 DEF Outside, D!Locks, DaemonInv, LocksOK
<1>6. SerialOK'
  BY <1>1, <1>5, NobodyStarts DEF Outside, DaemonInv, CtlTypes, CtlOK, SerialOK, LocksOK,
                                  FileOK, Active, D!Gens
<1>7. D!PidIsCurrent'
  BY <1>1, <1>5, NobodyStarts DEF Outside, DaemonInv, CtlTypes, CtlOK, D!PidIsCurrent, LocksOK,
                                  FileOK, D!Locks, D!Gens
<1>8. \A q \in Ctls : q \in shlock' => ctlPc'[q] \in {"read", "reread"} /\ D!Locks = {}
  BY <1>1, <1>5 DEF DaemonInv, CtlTypes, LocksOK
<1> QED
  BY <1>1, <1>3, <1>4, <1>6, <1>7, <1>8, OutsideStep

\* daemon_read_pid finds no file.
LEMMA ReadAbsentStep ==
  ASSUME DaemonInv, NEW p \in Ctls, D!ReadAbsent(p)
  PROVE  DaemonInv'
<1> USE DEF D!ReadAbsent, D!Goto
<1>1. Outside /\ term' \subseteq D!Gens
  BY DaemonAssumption DEF Outside, DaemonInv, CtlTypes, ProcTypes, D!Gens, D!proc, D!pidFile,
                          D!history
<1>2. /\ p \in guard /\ shlock \subseteq {p}
      /\ \A q \in Ctls : q # p => ctlPc[q] \in {"out", "guard"} /\ q \notin guard
  BY Alone
<1>3. CtlTypes'
  BY <1>2, DaemonAssumption, <1>1 DEF DaemonInv, CtlTypes, ProcTypes, LocksOK
<1>4. CtlOK'
  BY <1>2, <1>1 DEF Outside, DaemonInv, CtlTypes, CtlOK, ProcTypes, D!Gens
<1>5. D!Locks' = D!Locks /\ (D!Locks # {} => D!Locks = {owner} /\ owner \in D!Gens)
  BY <1>1 DEF Outside, D!Locks, DaemonInv, LocksOK
<1>6. SerialOK'
  BY <1>2, <1>1, <1>5, NobodyStarts DEF Outside, DaemonInv, CtlTypes, CtlOK, SerialOK, LocksOK,
                                        FileOK, Active, D!Gens
<1>7. D!PidIsCurrent'
  BY <1>2, <1>1, <1>5, NobodyStarts DEF Outside, DaemonInv, CtlTypes, CtlOK, D!PidIsCurrent,
                                        LocksOK, FileOK, D!Locks, D!Gens
<1>8. \A q \in Ctls : q \in shlock' => ctlPc'[q] \in {"read", "reread"} /\ D!Locks = {}
  BY <1>2, <1>1, <1>5 DEF DaemonInv, CtlTypes, LocksOK
<1> QED
  BY <1>1, <1>3, <1>4, <1>6, <1>7, <1>8, OutsideStep

\* daemon_read_pid tries the lock.
LEMMA ReadLockStep ==
  ASSUME DaemonInv, NEW p \in Ctls, D!ReadLock(p)
  PROVE  DaemonInv'
<1> USE DEF D!ReadLock
<1>1. Outside /\ term' \subseteq D!Gens
  BY DaemonAssumption DEF Outside, DaemonInv, CtlTypes, ProcTypes, D!Gens, D!proc, D!pidFile,
                          D!history
<1>2. /\ p \in guard /\ shlock \subseteq {p}
      /\ \A q \in Ctls : q # p => ctlPc[q] \in {"out", "guard"} /\ q \notin guard
  BY Alone
<1>3. CtlTypes'
  BY <1>2, DaemonAssumption, <1>1 DEF DaemonInv, CtlTypes, ProcTypes, LocksOK
<1>4. CtlOK'
  BY <1>2, <1>1 DEF Outside, DaemonInv, CtlTypes, CtlOK, ProcTypes, D!Gens
<1>5. D!Locks' = D!Locks /\ (D!Locks # {} => D!Locks = {owner} /\ owner \in D!Gens)
  BY <1>1 DEF Outside, D!Locks, DaemonInv, LocksOK
<1>6. SerialOK'
  BY <1>2, <1>1, <1>5, NobodyStarts DEF Outside, DaemonInv, CtlTypes, CtlOK, SerialOK, LocksOK,
                                        FileOK, Active, D!Gens
<1>7. D!PidIsCurrent'
  BY <1>2, <1>1, <1>5, NobodyStarts DEF Outside, DaemonInv, CtlTypes, CtlOK, D!PidIsCurrent,
                                        LocksOK, FileOK, D!Locks, D!Gens
<1>8. \A q \in Ctls : q \in shlock' => ctlPc'[q] \in {"read", "reread"} /\ D!Locks = {}
  BY <1>2, <1>1, <1>5 DEF DaemonInv, CtlTypes, LocksOK
<1> QED
  BY <1>1, <1>3, <1>4, <1>6, <1>7, <1>8, OutsideStep

\* daemon_read_pid reads the PID.
LEMMA ReadPidStep ==
  ASSUME DaemonInv, NEW p \in Ctls, D!ReadPid(p)
  PROVE  DaemonInv'
<1> USE DEF D!ReadPid, D!Goto, D!ReadStatus, D!ReadNumber
<1>1. Outside /\ term' \subseteq D!Gens
  BY DaemonAssumption DEF Outside, DaemonInv, CtlTypes, ProcTypes, D!Gens, D!proc, D!pidFile,
                          D!history
<1>2. /\ p \in guard /\ shlock \subseteq {p}
      /\ \A q \in Ctls : q # p => ctlPc[q] \in {"out", "guard"} /\ q \notin guard
  BY Alone
<1>3. CtlTypes'
  BY <1>2, DaemonAssumption, <1>1 DEF DaemonInv, CtlTypes, ProcTypes, LocksOK
<1>4. CtlOK'
  BY <1>2, <1>1 DEF Outside, DaemonInv, CtlTypes, CtlOK, ProcTypes, D!Gens
<1>5. D!Locks' = D!Locks /\ (D!Locks # {} => D!Locks = {owner} /\ owner \in D!Gens)
  BY <1>1 DEF Outside, D!Locks, DaemonInv, LocksOK
<1>6. SerialOK'
  BY <1>2, <1>1, <1>5, NobodyStarts DEF Outside, DaemonInv, CtlTypes, CtlOK, SerialOK, LocksOK,
                                        FileOK, Active, D!Gens
<1>7. D!PidIsCurrent'
  BY <1>2, <1>1, <1>5, NobodyStarts DEF Outside, DaemonInv, CtlTypes, CtlOK, D!PidIsCurrent,
                                        LocksOK, FileOK, D!Locks, D!Gens
<1>8. \A q \in Ctls : q \in shlock' => ctlPc'[q] \in {"read", "reread"} /\ D!Locks = {}
  BY <1>2, <1>1, <1>5 DEF DaemonInv, CtlTypes, LocksOK
<1> QED
  BY <1>1, <1>3, <1>4, <1>6, <1>7, <1>8, OutsideStep

\* DAEMON_CONTROL_CHECK.
LEMMA CheckStep ==
  ASSUME DaemonInv, NEW p \in Ctls, D!Check(p)
  PROVE  DaemonInv'
<1> USE DEF D!Check, D!Goto
<1>1. Outside /\ term' \subseteq D!Gens
  BY DaemonAssumption DEF Outside, DaemonInv, CtlTypes, ProcTypes, D!Gens, D!proc, D!pidFile,
                          D!history
<1>2. /\ p \in guard /\ shlock \subseteq {p}
      /\ \A q \in Ctls : q # p => ctlPc[q] \in {"out", "guard"} /\ q \notin guard
  BY Alone
<1>3. CtlTypes'
  BY <1>2, DaemonAssumption, <1>1 DEF DaemonInv, CtlTypes, ProcTypes, LocksOK
<1>4. CtlOK'
  BY <1>2, <1>1 DEF Outside, DaemonInv, CtlTypes, CtlOK, ProcTypes, D!Gens
<1>5. D!Locks' = D!Locks /\ (D!Locks # {} => D!Locks = {owner} /\ owner \in D!Gens)
  BY <1>1 DEF Outside, D!Locks, DaemonInv, LocksOK
<1>6. SerialOK'
  BY <1>2, <1>1, <1>5, NobodyStarts DEF Outside, DaemonInv, CtlTypes, CtlOK, SerialOK, LocksOK,
                                        FileOK, Active, D!Gens
<1>7. D!PidIsCurrent'
  BY <1>2, <1>1, <1>5, NobodyStarts DEF Outside, DaemonInv, CtlTypes, CtlOK, D!PidIsCurrent,
                                        LocksOK, FileOK, D!Locks, D!Gens
<1>8. \A q \in Ctls : q \in shlock' => ctlPc'[q] \in {"read", "reread"} /\ D!Locks = {}
  BY <1>2, <1>1, <1>5 DEF DaemonInv, CtlTypes, LocksOK
<1> QED
  BY <1>1, <1>3, <1>4, <1>6, <1>7, <1>8, OutsideStep

\* DAEMON_CONTROL_START finds the daemon running.
LEMMA StartAlreadyStep ==
  ASSUME DaemonInv, NEW p \in Ctls, D!StartAlready(p)
  PROVE  DaemonInv'
<1> USE DEF D!StartAlready, D!Goto
<1>1. Outside /\ term' \subseteq D!Gens
  BY DaemonAssumption DEF Outside, DaemonInv, CtlTypes, ProcTypes, D!Gens, D!proc, D!pidFile,
                          D!history
<1>2. /\ p \in guard /\ shlock \subseteq {p}
      /\ \A q \in Ctls : q # p => ctlPc[q] \in {"out", "guard"} /\ q \notin guard
  BY Alone
<1>3. CtlTypes'
  BY <1>2, DaemonAssumption, <1>1 DEF DaemonInv, CtlTypes, ProcTypes, LocksOK
<1>4. CtlOK'
  BY <1>2, <1>1 DEF Outside, DaemonInv, CtlTypes, CtlOK, ProcTypes, D!Gens
<1>5. D!Locks' = D!Locks /\ (D!Locks # {} => D!Locks = {owner} /\ owner \in D!Gens)
  BY <1>1 DEF Outside, D!Locks, DaemonInv, LocksOK
<1>6. SerialOK'
  BY <1>2, <1>1, <1>5, NobodyStarts DEF Outside, DaemonInv, CtlTypes, CtlOK, SerialOK, LocksOK,
                                        FileOK, Active, D!Gens
<1>7. D!PidIsCurrent'
  BY <1>2, <1>1, <1>5, NobodyStarts DEF Outside, DaemonInv, CtlTypes, CtlOK, D!PidIsCurrent,
                                        LocksOK, FileOK, D!Locks, D!Gens
<1>8. \A q \in Ctls : q \in shlock' => ctlPc'[q] \in {"read", "reread"} /\ D!Locks = {}
  BY <1>2, <1>1, <1>5 DEF DaemonInv, CtlTypes, LocksOK
<1> QED
  BY <1>1, <1>3, <1>4, <1>6, <1>7, <1>8, OutsideStep

\* DAEMON_CONTROL_START cannot fork.
LEMMA StartForkFailsStep ==
  ASSUME DaemonInv, NEW p \in Ctls, D!StartForkFails(p)
  PROVE  DaemonInv'
<1> USE DEF D!StartForkFails, D!Goto
<1>1. Outside /\ term' \subseteq D!Gens
  BY DaemonAssumption DEF Outside, DaemonInv, CtlTypes, ProcTypes, D!Gens, D!proc, D!pidFile,
                          D!history
<1>2. /\ p \in guard /\ shlock \subseteq {p}
      /\ \A q \in Ctls : q # p => ctlPc[q] \in {"out", "guard"} /\ q \notin guard
  BY Alone
<1>3. CtlTypes'
  BY <1>2, DaemonAssumption, <1>1 DEF DaemonInv, CtlTypes, ProcTypes, LocksOK
<1>4. CtlOK'
  BY <1>2, <1>1 DEF Outside, DaemonInv, CtlTypes, CtlOK, ProcTypes, D!Gens
<1>5. D!Locks' = D!Locks /\ (D!Locks # {} => D!Locks = {owner} /\ owner \in D!Gens)
  BY <1>1 DEF Outside, D!Locks, DaemonInv, LocksOK
<1>6. SerialOK'
  BY <1>2, <1>1, <1>5, NobodyStarts DEF Outside, DaemonInv, CtlTypes, CtlOK, SerialOK, LocksOK,
                                        FileOK, Active, D!Gens
<1>7. D!PidIsCurrent'
  BY <1>2, <1>1, <1>5, NobodyStarts DEF Outside, DaemonInv, CtlTypes, CtlOK, D!PidIsCurrent,
                                        LocksOK, FileOK, D!Locks, D!Gens
<1>8. \A q \in Ctls : q \in shlock' => ctlPc'[q] \in {"read", "reread"} /\ D!Locks = {}
  BY <1>2, <1>1, <1>5 DEF DaemonInv, CtlTypes, LocksOK
<1> QED
  BY <1>1, <1>3, <1>4, <1>6, <1>7, <1>8, OutsideStep

\* DAEMON_CONTROL_START waits for the launcher.
LEMMA StartWaitStep ==
  ASSUME DaemonInv, NEW p \in Ctls, D!StartWait(p)
  PROVE  DaemonInv'
<1> USE DEF D!StartWait, D!Goto
<1>1. Outside /\ term' \subseteq D!Gens
  BY DaemonAssumption DEF Outside, DaemonInv, CtlTypes, ProcTypes, D!Gens, D!proc, D!pidFile,
                          D!history
<1>2. /\ p \in guard /\ shlock \subseteq {p}
      /\ \A q \in Ctls : q # p => ctlPc[q] \in {"out", "guard"} /\ q \notin guard
  BY Alone
<1>3. CtlTypes'
  BY <1>2, DaemonAssumption, <1>1 DEF DaemonInv, CtlTypes, ProcTypes, LocksOK
<1>4. CtlOK'
  <2>1. CASE launcher[ctlRun[p]] = "died" /\ D!Goto(p, "done", "error", pid[p])
    BY <2>1, <1>2, <1>1 DEF Outside, DaemonInv, CtlTypes, CtlOK, D!Gens
  <2>2. CASE launcher[ctlRun[p]] = "done" /\ D!Goto(p, "reopen", ctlStatus[p], 0)
    BY <2>2, <1>2, <1>1 DEF Outside, DaemonInv, CtlTypes, CtlOK, D!Gens
  <2> QED
    BY <2>1, <2>2
<1>5. D!Locks' = D!Locks /\ (D!Locks # {} => D!Locks = {owner} /\ owner \in D!Gens)
  BY <1>1 DEF Outside, D!Locks, DaemonInv, LocksOK
<1>6. SerialOK'
  BY <1>2, <1>1, <1>5, NobodyStarts DEF Outside, DaemonInv, CtlTypes, CtlOK, SerialOK, LocksOK,
                                        FileOK, Active, D!Gens
<1>7. D!PidIsCurrent'
  BY <1>2, <1>1, <1>5, NobodyStarts DEF Outside, DaemonInv, CtlTypes, CtlOK, D!PidIsCurrent,
                                        LocksOK, FileOK, D!Locks, D!Gens
<1>8. \A q \in Ctls : q \in shlock' => ctlPc'[q] \in {"read", "reread"} /\ D!Locks = {}
  BY <1>2, <1>1, <1>5 DEF DaemonInv, CtlTypes, LocksOK
<1> QED
  BY <1>1, <1>3, <1>4, <1>6, <1>7, <1>8, OutsideStep

\* DAEMON_CONTROL_START reads the PID again.
LEMMA StartRereadStep ==
  ASSUME DaemonInv, NEW p \in Ctls, D!StartReread(p)
  PROVE  DaemonInv'
<1> USE DEF D!StartReread, D!Goto, D!ReadStatus, D!ReadNumber
<1>1. Outside /\ term' \subseteq D!Gens
  BY DaemonAssumption DEF Outside, DaemonInv, CtlTypes, ProcTypes, D!Gens, D!proc, D!pidFile,
                          D!history
<1>2. /\ p \in guard /\ shlock \subseteq {p}
      /\ \A q \in Ctls : q # p => ctlPc[q] \in {"out", "guard"} /\ q \notin guard
  BY Alone
<1>3. CtlTypes'
  BY <1>2, DaemonAssumption, <1>1 DEF DaemonInv, CtlTypes, ProcTypes, LocksOK
<1>4. CtlOK'
  BY <1>2, <1>1 DEF Outside, DaemonInv, CtlTypes, CtlOK, ProcTypes, D!Gens
<1>5. D!Locks' = D!Locks /\ (D!Locks # {} => D!Locks = {owner} /\ owner \in D!Gens)
  BY <1>1 DEF Outside, D!Locks, DaemonInv, LocksOK
<1>6. SerialOK'
  BY <1>2, <1>1, <1>5, NobodyStarts DEF Outside, DaemonInv, CtlTypes, CtlOK, SerialOK, LocksOK,
                                        FileOK, Active, D!Gens
<1>7. D!PidIsCurrent'
  BY <1>2, <1>1, <1>5, NobodyStarts DEF Outside, DaemonInv, CtlTypes, CtlOK, D!PidIsCurrent,
                                        LocksOK, FileOK, D!Locks, D!Gens
<1>8. \A q \in Ctls : q \in shlock' => ctlPc'[q] \in {"read", "reread"} /\ D!Locks = {}
  BY <1>2, <1>1, <1>5 DEF DaemonInv, CtlTypes, LocksOK
<1> QED
  BY <1>1, <1>3, <1>4, <1>6, <1>7, <1>8, OutsideStep

\* DAEMON_CONTROL_STOP finds no daemon.
LEMMA StopNotRunningStep ==
  ASSUME DaemonInv, NEW p \in Ctls, D!StopNotRunning(p)
  PROVE  DaemonInv'
<1> USE DEF D!StopNotRunning, D!Goto
<1>1. Outside /\ term' \subseteq D!Gens
  BY DaemonAssumption DEF Outside, DaemonInv, CtlTypes, ProcTypes, D!Gens, D!proc, D!pidFile,
                          D!history
<1>2. /\ p \in guard /\ shlock \subseteq {p}
      /\ \A q \in Ctls : q # p => ctlPc[q] \in {"out", "guard"} /\ q \notin guard
  BY Alone
<1>3. CtlTypes'
  BY <1>2, DaemonAssumption, <1>1 DEF DaemonInv, CtlTypes, ProcTypes, LocksOK
<1>4. CtlOK'
  BY <1>2, <1>1 DEF Outside, DaemonInv, CtlTypes, CtlOK, ProcTypes, D!Gens
<1>5. D!Locks' = D!Locks /\ (D!Locks # {} => D!Locks = {owner} /\ owner \in D!Gens)
  BY <1>1 DEF Outside, D!Locks, DaemonInv, LocksOK
<1>6. SerialOK'
  BY <1>2, <1>1, <1>5, NobodyStarts DEF Outside, DaemonInv, CtlTypes, CtlOK, SerialOK, LocksOK,
                                        FileOK, Active, D!Gens
<1>7. D!PidIsCurrent'
  BY <1>2, <1>1, <1>5, NobodyStarts DEF Outside, DaemonInv, CtlTypes, CtlOK, D!PidIsCurrent,
                                        LocksOK, FileOK, D!Locks, D!Gens
<1>8. \A q \in Ctls : q \in shlock' => ctlPc'[q] \in {"read", "reread"} /\ D!Locks = {}
  BY <1>2, <1>1, <1>5 DEF DaemonInv, CtlTypes, LocksOK
<1> QED
  BY <1>1, <1>3, <1>4, <1>6, <1>7, <1>8, OutsideStep

\* DAEMON_CONTROL_STOP sends its signal.
LEMMA StopSignalStep ==
  ASSUME DaemonInv, NEW p \in Ctls, D!StopSignal(p)
  PROVE  DaemonInv'
<1> USE DEF D!StopSignal, D!Goto
<1>0. pid[p] \in Nat /\ (pid[p] # 0 => pid[p] \in D!Gens)
  BY DaemonAssumption DEF DaemonInv, CtlTypes, D!Gens
<1>1. Outside /\ term' \subseteq D!Gens
  <2>1. Outside
    BY DEF Outside, D!pidFile, D!history
  <2>2. term' \subseteq D!Gens
    BY <1>0 DEF DaemonInv, ProcTypes
  <2> QED
    BY <2>1, <2>2
<1>2. /\ p \in guard /\ shlock \subseteq {p}
      /\ \A q \in Ctls : q # p => ctlPc[q] \in {"out", "guard"} /\ q \notin guard
  BY Alone
<1>3. CtlTypes'
  BY <1>2, DaemonAssumption, <1>1 DEF DaemonInv, CtlTypes, ProcTypes, LocksOK
<1>4. CtlOK'
  BY <1>2, <1>1 DEF Outside, DaemonInv, CtlTypes, CtlOK, ProcTypes, D!Gens
<1>5. D!Locks' = D!Locks /\ (D!Locks # {} => D!Locks = {owner} /\ owner \in D!Gens)
  BY <1>1 DEF Outside, D!Locks, DaemonInv, LocksOK
<1>6. SerialOK'
  BY <1>2, <1>1, <1>5, NobodyStarts DEF Outside, DaemonInv, CtlTypes, CtlOK, SerialOK, LocksOK,
                                        FileOK, Active, D!Gens
<1>7. D!PidIsCurrent'
  BY <1>2, <1>1, <1>5, NobodyStarts DEF Outside, DaemonInv, CtlTypes, CtlOK, D!PidIsCurrent,
                                        LocksOK, FileOK, D!Locks, D!Gens
<1>8. \A q \in Ctls : q \in shlock' => ctlPc'[q] \in {"read", "reread"} /\ D!Locks = {}
  BY <1>2, <1>1, <1>5 DEF DaemonInv, CtlTypes, LocksOK
<1> QED
  BY <1>1, <1>3, <1>4, <1>6, <1>7, <1>8, OutsideStep

\* DAEMON_CONTROL_STOP waits for the lock.
LEMMA StopWaitStep ==
  ASSUME DaemonInv, NEW p \in Ctls, D!StopWait(p)
  PROVE  DaemonInv'
<1> USE DEF D!StopWait, D!Goto
<1>1. Outside /\ term' \subseteq D!Gens
  BY DaemonAssumption DEF Outside, DaemonInv, CtlTypes, ProcTypes, D!Gens, D!proc, D!pidFile,
                          D!history
<1>2. /\ p \in guard /\ shlock \subseteq {p}
      /\ \A q \in Ctls : q # p => ctlPc[q] \in {"out", "guard"} /\ q \notin guard
  BY Alone
<1>3. CtlTypes'
  BY <1>2, DaemonAssumption, <1>1 DEF DaemonInv, CtlTypes, ProcTypes, LocksOK
<1>4. CtlOK'
  BY <1>2, <1>1 DEF Outside, DaemonInv, CtlTypes, CtlOK, ProcTypes, D!Gens
<1>5. D!Locks' = D!Locks /\ (D!Locks # {} => D!Locks = {owner} /\ owner \in D!Gens)
  BY <1>1 DEF Outside, D!Locks, DaemonInv, LocksOK
<1>6. SerialOK'
  BY <1>2, <1>1, <1>5, NobodyStarts DEF Outside, DaemonInv, CtlTypes, CtlOK, SerialOK, LocksOK,
                                        FileOK, Active, D!Gens
<1>7. D!PidIsCurrent'
  BY <1>2, <1>1, <1>5, NobodyStarts DEF Outside, DaemonInv, CtlTypes, CtlOK, D!PidIsCurrent,
                                        LocksOK, FileOK, D!Locks, D!Gens
<1>8. \A q \in Ctls : q \in shlock' => ctlPc'[q] \in {"read", "reread"} /\ D!Locks = {}
  BY <1>2, <1>1, <1>5 DEF DaemonInv, CtlTypes, LocksOK
<1> QED
  BY <1>1, <1>3, <1>4, <1>6, <1>7, <1>8, OutsideStep

\* DAEMON_CONTROL_SIGNAL sends its signal.
LEMMA SignalSendStep ==
  ASSUME DaemonInv, NEW p \in Ctls, D!SignalSend(p)
  PROVE  DaemonInv'
<1> USE DEF D!SignalSend, D!Goto
<1>1. Outside /\ term' \subseteq D!Gens
  BY DaemonAssumption DEF Outside, DaemonInv, CtlTypes, ProcTypes, D!Gens, D!proc, D!pidFile,
                          D!history
<1>2. /\ p \in guard /\ shlock \subseteq {p}
      /\ \A q \in Ctls : q # p => ctlPc[q] \in {"out", "guard"} /\ q \notin guard
  BY Alone
<1>3. CtlTypes'
  BY <1>2, DaemonAssumption, <1>1 DEF DaemonInv, CtlTypes, ProcTypes, LocksOK
<1>4. CtlOK'
  BY <1>2, <1>1 DEF Outside, DaemonInv, CtlTypes, CtlOK, ProcTypes, D!Gens
<1>5. D!Locks' = D!Locks /\ (D!Locks # {} => D!Locks = {owner} /\ owner \in D!Gens)
  BY <1>1 DEF Outside, D!Locks, DaemonInv, LocksOK
<1>6. SerialOK'
  BY <1>2, <1>1, <1>5, NobodyStarts DEF Outside, DaemonInv, CtlTypes, CtlOK, SerialOK, LocksOK,
                                        FileOK, Active, D!Gens
<1>7. D!PidIsCurrent'
  BY <1>2, <1>1, <1>5, NobodyStarts DEF Outside, DaemonInv, CtlTypes, CtlOK, D!PidIsCurrent,
                                        LocksOK, FileOK, D!Locks, D!Gens
<1>8. \A q \in Ctls : q \in shlock' => ctlPc'[q] \in {"read", "reread"} /\ D!Locks = {}
  BY <1>2, <1>1, <1>5 DEF DaemonInv, CtlTypes, LocksOK
<1> QED
  BY <1>1, <1>3, <1>4, <1>6, <1>7, <1>8, OutsideStep

\* DAEMON_CONTROL_SIGNAL returns.
LEMMA SignalReturnStep ==
  ASSUME DaemonInv, NEW p \in Ctls, D!SignalReturn(p)
  PROVE  DaemonInv'
<1> USE DEF D!SignalReturn, D!Goto, D!Leave
<1>1. Outside /\ term' \subseteq D!Gens
  BY DaemonAssumption DEF Outside, DaemonInv, CtlTypes, ProcTypes, D!Gens, D!proc, D!pidFile,
                          D!history
<1>2. /\ p \in guard /\ shlock \subseteq {p}
      /\ \A q \in Ctls : q # p => ctlPc[q] \in {"out", "guard"} /\ q \notin guard
  BY Alone
<1>3. CtlTypes'
  BY <1>2, DaemonAssumption, <1>1 DEF DaemonInv, CtlTypes, ProcTypes, LocksOK
<1>4. CtlOK'
  BY <1>2, <1>1 DEF Outside, DaemonInv, CtlTypes, CtlOK, ProcTypes, D!Gens
<1>5. D!Locks' = D!Locks /\ (D!Locks # {} => D!Locks = {owner} /\ owner \in D!Gens)
  BY <1>1 DEF Outside, D!Locks, DaemonInv, LocksOK
<1>6. SerialOK'
  BY <1>2, <1>1, <1>5, NobodyStarts DEF Outside, DaemonInv, CtlTypes, CtlOK, SerialOK, LocksOK,
                                        FileOK, Active, D!Gens
<1>7. D!PidIsCurrent'
  BY <1>2, <1>1, <1>5, NobodyStarts DEF Outside, DaemonInv, CtlTypes, CtlOK, D!PidIsCurrent,
                                        LocksOK, FileOK, D!Locks, D!Gens
<1>8. \A q \in Ctls : q \in shlock' => ctlPc'[q] \in {"read", "reread"} /\ D!Locks = {}
  BY <1>2, <1>1, <1>5 DEF DaemonInv, CtlTypes, LocksOK
<1> QED
  BY <1>1, <1>3, <1>4, <1>6, <1>7, <1>8, OutsideStep

\* daemon_control returns.
LEMMA ReturnStep ==
  ASSUME DaemonInv, NEW p \in Ctls, D!Return(p)
  PROVE  DaemonInv'
<1> USE DEF D!Return, D!Goto, D!Leave
<1>1. Outside /\ term' \subseteq D!Gens
  BY DaemonAssumption DEF Outside, DaemonInv, CtlTypes, ProcTypes, D!Gens, D!proc, D!pidFile,
                          D!history
<1>2. /\ p \in guard /\ shlock \subseteq {p}
      /\ \A q \in Ctls : q # p => ctlPc[q] \in {"out", "guard"} /\ q \notin guard
  BY Alone
<1>3. CtlTypes'
  BY <1>2, DaemonAssumption, <1>1 DEF DaemonInv, CtlTypes, ProcTypes, LocksOK
<1>4. CtlOK'
  BY <1>2, <1>1 DEF Outside, DaemonInv, CtlTypes, CtlOK, ProcTypes, D!Gens
<1>5. D!Locks' = D!Locks /\ (D!Locks # {} => D!Locks = {owner} /\ owner \in D!Gens)
  BY <1>1 DEF Outside, D!Locks, DaemonInv, LocksOK
<1>6. SerialOK'
  BY <1>2, <1>1, <1>5, NobodyStarts DEF Outside, DaemonInv, CtlTypes, CtlOK, SerialOK, LocksOK,
                                        FileOK, Active, D!Gens
<1>7. D!PidIsCurrent'
  BY <1>2, <1>1, <1>5, NobodyStarts DEF Outside, DaemonInv, CtlTypes, CtlOK, D!PidIsCurrent,
                                        LocksOK, FileOK, D!Locks, D!Gens
<1>8. \A q \in Ctls : q \in shlock' => ctlPc'[q] \in {"read", "reread"} /\ D!Locks = {}
  BY <1>2, <1>1, <1>5 DEF DaemonInv, CtlTypes, LocksOK
<1> QED
  BY <1>1, <1>3, <1>4, <1>6, <1>7, <1>8, OutsideStep

\* The process of a controller ends and another one takes its part.
LEMMA CtlExitsStep ==
  ASSUME DaemonInv, NEW p \in Ctls, D!CtlExits(p)
  PROVE  DaemonInv'
<1> USE DEF D!CtlExits
<1>1. Outside /\ term' \subseteq D!Gens
  BY DaemonAssumption DEF Outside, DaemonInv, CtlTypes, ProcTypes, D!Gens, D!proc, D!pidFile,
                          D!history
<1>3. CtlTypes'
  BY DaemonAssumption, <1>1 DEF DaemonInv, CtlTypes, ProcTypes, LocksOK
<1>4. CtlOK'
  BY <1>1 DEF Outside, DaemonInv, CtlTypes, CtlOK, ProcTypes, D!Gens
<1>5. D!Locks' = D!Locks /\ (D!Locks # {} => D!Locks = {owner} /\ owner \in D!Gens)
  BY <1>1 DEF Outside, D!Locks, DaemonInv, LocksOK
<1>6. SerialOK'
  BY <1>1, <1>5, NobodyStarts DEF Outside, DaemonInv, CtlTypes, CtlOK, SerialOK, LocksOK,
                                  FileOK, Active, D!Gens
<1>7. D!PidIsCurrent'
  BY <1>1, <1>5, NobodyStarts DEF Outside, DaemonInv, CtlTypes, CtlOK, D!PidIsCurrent, LocksOK,
                                  FileOK, D!Locks, D!Gens
<1>8. \A q \in Ctls : q \in shlock' => ctlPc'[q] \in {"read", "reread"} /\ D!Locks = {}
  BY <1>1, <1>5 DEF DaemonInv, CtlTypes, LocksOK
<1> QED
  BY <1>1, <1>3, <1>4, <1>6, <1>7, <1>8, OutsideStep

\* daemon_control gets the guard lock.
LEMMA GuardLockStep ==
  ASSUME DaemonInv, NEW p \in Ctls, NEW action \in D!Actions, D!GuardLock(p, action)
  PROVE  DaemonInv'
<1> USE DEF D!GuardLock, D!Goto
<1>1. Beside /\ term' \subseteq D!Gens /\ loose' \in 0..MaxLoose /\ foreign' = D!Unattended
  BY DEF Beside, DaemonInv, ProcTypes, D!proc, D!pidFile
<1>2. \A q \in Ctls : ctlPc[q] \in {"out", "guard"} /\ q \notin shlock
  BY DEF DaemonInv, CtlTypes
<1>3. CtlTypes'
  BY <1>2, DaemonAssumption DEF DaemonInv, CtlTypes, D!Actions
<1>4. CtlOK'
  BY <1>1, <1>2 DEF Beside, DaemonInv, CtlTypes, CtlOK, D!Gens
<1>5. SerialOK'
  <2>1. foreign' = {} => \A g \in D!Gens : ~Active(g)
    BY <1>1, <1>2 DEF D!Unattended, Active
  <2>2. \A q \in Ctls : ctlPc'[q] \in {"out", "guard", "open"}
    BY <1>2 DEF DaemonInv, CtlTypes
  <2> QED
    BY <1>1, <2>1, <2>2 DEF Beside, SerialOK, Active, D!Gens
<1>6. D!PidIsCurrent'
  <2>1. \A q \in Ctls : pid'[q] = 0
    BY <1>2 DEF DaemonInv, CtlTypes, CtlOK
  <2> QED
    BY <2>1 DEF D!PidIsCurrent
<1>7. \A q \in Ctls : q \in shlock' => ctlPc'[q] \in {"read", "reread"} /\ D!Locks = {}
  BY <1>2 DEF DaemonInv
<1>8. ForeignType'
  BY <1>1 DEF ForeignType, D!Unattended, D!Gens
<1> QED
  BY <1>1, <1>3, <1>4, <1>5, <1>6, <1>7, <1>8, BesideStep

\* DAEMON_CONTROL_START does not succeed in waiting and leaves the launcher alone.
LEMMA StartWaitFailsStep ==
  ASSUME DaemonInv, NEW p \in Ctls, D!StartWaitFails(p)
  PROVE  DaemonInv'
<1> USE DEF D!StartWaitFails, D!Goto
<1>1. /\ Beside /\ term' \subseteq D!Gens /\ foreign' = foreign \cup {ctlRun[p]}
      /\ ctlRun[p] \in D!Gens /\ loose' \in 0..MaxLoose
  BY DaemonAssumption DEF Beside, DaemonInv, ProcTypes, CtlOK, D!pidFile
<1>2. /\ p \in guard /\ shlock \subseteq {p}
      /\ \A q \in Ctls : q # p => ctlPc[q] \in {"out", "guard"} /\ q \notin guard
  BY Alone
<1>3. CtlTypes'
  BY <1>2 DEF DaemonInv, CtlTypes
<1>4. CtlOK'
  BY <1>1, <1>2 DEF Beside, DaemonInv, CtlTypes, CtlOK, D!Gens
<1>5. foreign' # {}
  BY <1>1
<1>6. SerialOK' /\ D!PidIsCurrent'
  BY <1>5 DEF SerialOK, D!PidIsCurrent
<1>7. \A q \in Ctls : q \in shlock' => ctlPc'[q] \in {"read", "reread"} /\ D!Locks = {}
  BY <1>2 DEF DaemonInv, LocksOK
<1>8. ForeignType'
  BY <1>1 DEF DaemonInv, ForeignType, D!Gens
<1> QED
  BY <1>1, <1>3, <1>4, <1>6, <1>7, <1>8, BesideStep

\* A new launcher comes after all the others and has nothing yet.
LEMMA NewLauncher ==
  ASSUME DaemonInv, starts < MaxStarts, starts' = starts + 1,
         launcher' = [launcher EXCEPT ![starts + 1] = "new"],
         UNCHANGED <<pidContents, filePid, daemon, term, owner, graceful>>,
         loose' \in 0..MaxLoose
  PROVE  /\ starts + 1 \in D!Gens /\ launcher[starts + 1] = "none"
         /\ D!Locks' = D!Locks
         /\ ProcTypes' /\ GracefulType' /\ GenerationsOK' /\ FileOK'
<1> USE DaemonAssumption
<1>1. starts + 1 \in D!Gens /\ launcher[starts + 1] = "none" /\ daemon[starts + 1] = "none"
  BY DEF DaemonInv, ProcTypes, GenerationsOK, D!Gens
<1>2. D!Locks' = D!Locks
  BY <1>1 DEF DaemonInv, ProcTypes, D!Locks, D!Gens
<1>3. ProcTypes'
  BY <1>1 DEF DaemonInv, ProcTypes, D!Gens
<1>4. GracefulType'
  BY DEF DaemonInv, GracefulType
<1>5. GenerationsOK'
  BY <1>1 DEF DaemonInv, ProcTypes, GenerationsOK, D!Gens
<1>6. FileOK'
  BY <1>1 DEF DaemonInv, ProcTypes, FileOK, LocksOK, D!Gens
<1> QED
  BY <1>1, <1>2, <1>3, <1>4, <1>5, <1>6

\* DAEMON_CONTROL_START forks a launcher.
LEMMA StartForkStep ==
  ASSUME DaemonInv, NEW p \in Ctls, D!StartFork(p)
  PROVE  DaemonInv'
<1> USE DEF D!StartFork, D!Goto
<1>1. /\ starts + 1 \in D!Gens /\ launcher[starts + 1] = "none"
      /\ D!Locks' = D!Locks
      /\ ProcTypes' /\ GracefulType' /\ GenerationsOK' /\ FileOK'
  BY NewLauncher DEF DaemonInv, ProcTypes, D!pidFile, D!history
<1>2. /\ p \in guard /\ shlock \subseteq {p}
      /\ \A q \in Ctls : q # p => ctlPc[q] \in {"out", "guard"} /\ q \notin guard
  BY Alone
<1>3. CtlTypes'
  BY <1>1, <1>2 DEF DaemonInv, CtlTypes, D!Gens
<1>4. CtlOK'
  BY <1>1, <1>2 DEF DaemonInv, CtlTypes, CtlOK, ProcTypes, D!Gens
<1>5. LocksOK'
  BY <1>1, <1>2 DEF DaemonInv, ProcTypes, LocksOK, D!history
<1>6. SerialOK'
  <2> SUFFICES ASSUME foreign = {} PROVE SerialOK'
    BY DEF SerialOK, D!history
  <2>1. \A g \in D!Gens : ~Active(g)
    BY NobodyStarts
  <2> QED
    BY <1>1, <1>2, <2>1 DEF DaemonInv, CtlTypes, ProcTypes, SerialOK, Active, D!Gens, D!history
<1>7. D!PidIsCurrent'
  BY <1>1, <1>2 DEF DaemonInv, CtlTypes, CtlOK, D!PidIsCurrent, D!Gens, D!history
<1>8. ForeignType'
  BY DEF DaemonInv, ForeignType, D!Gens, D!history
<1> QED
  BY <1>1, <1>3, <1>4, <1>5, <1>6, <1>7, <1>8 DEF DaemonInv

\* Somebody starts the daemon without daemon_control.
LEMMA DirectStartStep ==
  ASSUME DaemonInv, D!DirectStart
  PROVE  DaemonInv'
<1> USE DEF D!DirectStart
<1>0. loose' \in 0..MaxLoose /\ foreign' # {}
  BY DaemonAssumption DEF DaemonInv, ProcTypes
<1>1. /\ starts + 1 \in D!Gens /\ launcher[starts + 1] = "none"
      /\ D!Locks' = D!Locks
      /\ ProcTypes' /\ GracefulType' /\ GenerationsOK' /\ FileOK'
  BY <1>0, NewLauncher DEF D!pidFile
<1>2. UNCHANGED <<guard, ctlPc, ctlOp, ctlStatus, pid, ctlRun, shlock, owner>>
  BY DEF D!ctl
<1>3. CtlTypes'
  BY <1>2 DEF DaemonInv, CtlTypes
<1>4. CtlOK'
  BY <1>1, <1>2 DEF DaemonInv, CtlTypes, CtlOK, ProcTypes, D!Gens
<1>5. LocksOK'
  BY <1>1, <1>2 DEF DaemonInv, ProcTypes, LocksOK
<1>6. SerialOK' /\ D!PidIsCurrent'
  BY <1>0 DEF SerialOK, D!PidIsCurrent
<1>7. ForeignType'
  BY <1>1 DEF DaemonInv, ForeignType, D!Gens
<1> QED
  BY <1>1, <1>3, <1>4, <1>5, <1>6, <1>7 DEF DaemonInv

\* Every step keeps the invariant.
LEMMA DaemonNext == DaemonInv /\ [D!Next]_(D!vars) => DaemonInv'
<1> SUFFICES ASSUME DaemonInv, [D!Next]_(D!vars) PROVE DaemonInv'
  OBVIOUS
<1>1. CASE UNCHANGED D!vars
  <2>1. Outside /\ UNCHANGED <<guard, ctlPc, ctlOp, ctlStatus, pid, ctlRun, shlock, term>>
    BY <1>1 DEF D!vars, D!ctl, D!proc, D!pidFile, D!history, Outside
  <2>2. CtlTypes' /\ CtlOK' /\ D!Locks' = D!Locks /\ term' \subseteq D!Gens
    BY <2>1 DEF Outside, DaemonInv, CtlTypes, CtlOK, D!Gens, D!Locks, ProcTypes
  <2>3. SerialOK' /\ D!PidIsCurrent'
    BY <2>1, <2>2 DEF Outside, DaemonInv, SerialOK, D!PidIsCurrent, D!Gens
  <2> QED
    BY <2>1, <2>2, <2>3, OutsideStep DEF DaemonInv, LocksOK
<1>2. ASSUME NEW g \in D!Gens,
             \/ D!LauncherNext(g) \/ D!LauncherDies(g)
             \/ D!ReadPipe(g) \/ D!ExitTruncate(g) \/ D!ExitClose(g) \/ D!DaemonEnds(g)
      PROVE  DaemonInv'
  BY <1>2, LockStep, TruncateFileStep, NoteStartStep, ForkStep, WritePidStep, CutFileStep,
     ClosePipeStep, LauncherDiesStep, ReadPipeStep, ExitTruncateStep, ExitCloseStep,
     DaemonEndsStep, Zenon
     DEF D!LauncherNext
<1>3. ASSUME NEW p \in Ctls, D!CtlNext(p)
      PROVE  DaemonInv'
  BY <1>3, ReadAbsentStep, ReadLockStep, ReadPidStep, CheckStep, StartAlreadyStep,
     StartForkStep, StartForkFailsStep, StartWaitStep, StartWaitFailsStep,
     StartRereadStep, StopNotRunningStep, StopSignalStep, StopWaitStep, SignalSendStep, SignalReturnStep, ReturnStep, Zenon
     DEF D!CtlNext
<1> QED
  BY <1>1, <1>2, <1>3, CallStep, GuardLockStep, CtlExitsStep, DirectStartStep, Zenon
     DEF D!Next

\* The invariant of daemons and their control: the lock of the PID file has at
\* most one owner, whose progress the file tells, and the controller under the
\* guard lock knows who may be running (daemon.c, daemon-ctrl.c).
THEOREM DaemonInvariance == D!Spec => []DaemonInv
<1> QED
  BY DaemonInit, DaemonNext, PTL DEF D!Spec

\* Two daemons never run their bodies at the same time before daemon_exit,
\* however many launchers and controllers there are and wherever they die: a
\* daemon in its body holds the lock of the PID file it inherited.
THEOREM OneDaemonTheorem == D!Spec => []OneDaemon
<1>1. DaemonInv => OneDaemon
  <2> SUFFICES ASSUME DaemonInv PROVE OneDaemon
    OBVIOUS
  <2>1. D!TypeOK
    BY TypesOK DEF DaemonInv
  <2>2. D!OneDaemon
    BY DEF DaemonInv, LocksOK, D!Locks, D!OneDaemon
  <2> QED
    BY <2>1, <2>2 DEF OneDaemon
<1> QED
  BY <1>1, DaemonInvariance, PTL

\* A PID file which is not empty and which nobody locks was not left by
\* daemon_exit: daemon_read_pid says "stale" of crashes only.
THEOREM StaleMeansCrashTheorem == D!Spec => []StaleMeansCrash
<1>1. DaemonInv => StaleMeansCrash
  BY DEF DaemonInv, FileOK, StaleMeansCrash, D!StaleMeansCrash
<1> QED
  BY <1>1, DaemonInvariance, PTL

\* As long as no launcher runs which nobody waits for under the guard lock, the
\* PID daemon_control has read is that of the only daemon which may be running,
\* until it is done with it.
THEOREM PidIsCurrentTheorem == D!Spec => []PidIsCurrent
<1>1. DaemonInv => PidIsCurrent
  BY DEF DaemonInv, PidIsCurrent
<1> QED
  BY <1>1, DaemonInvariance, PTL

\* After a successful STOP nobody holds the PID file; after a successful START
\* the daemon is found by its PID unless it has ended, if no launcher ran
\* during the call which nobody waited for.
THEOREM StatusHonestTheorem == D!Spec => []StatusHonest
<1>1. DaemonInv => StatusHonest
  <2> SUFFICES ASSUME DaemonInv, foreign = {}, NEW p \in Ctls, ctlPc[p] = "done"
               PROVE  /\ ctlOp[p] = "stop" /\ ctlStatus[p] \in {"ok", "already_done"} =>
                           D!Locks = {}
                      /\ ctlOp[p] = "start" /\ ctlStatus[p] \in {"ok", "stale"} =>
                           \/ pidContents = "pid" /\ filePid = ctlRun[p]
                           \/ daemon[ctlRun[p]] \in {"exiting", "leaving", "dead"}
    BY DEF StatusHonest, D!StatusHonest
  <2>1. ctlOp[p] = "stop" /\ ctlStatus[p] \in {"ok", "already_done"} => D!Locks = {}
    BY DEF DaemonInv, SerialOK
  <2>2. ASSUME ctlOp[p] = "start", ctlStatus[p] \in {"ok", "stale"}
        PROVE  \/ pidContents = "pid" /\ filePid = ctlRun[p]
               \/ daemon[ctlRun[p]] \in {"exiting", "leaving", "dead"}
    <3>1. ctlRun[p] \in D!Gens /\ launcher[ctlRun[p]] = "done"
      BY <2>2 DEF DaemonInv, CtlOK
    <3>2. daemon[ctlRun[p]] \in {"waits", "body", "exiting", "leaving", "dead"}
      BY <3>1 DEF DaemonInv, GenerationsOK, ProcTypes
    <3> QED
      BY <3>1, <3>2 DEF DaemonInv, FileOK
  <2> QED
    BY <2>1, <2>2
<1> QED
  BY <1>1, DaemonInvariance, PTL

-----------------------------------------------------------------------------
(* Block I/O.  The main loop must not call the handler of a side that has  *)
(* no request: between two callbacks, the handler that runs is a set one.  *)

BlockTypes ==
  /\ handler \in [B!Sides -> BOOLEAN]
  /\ open \in [B!Sides -> BOOLEAN]
  /\ pos \in [B!Sides -> Nat] /\ len \in [B!Sides -> Nat]
  /\ moved \in [B!Sides -> Nat] /\ done \in [B!Sides -> Nat]
  /\ cancelled \in [B!Sides -> Nat]
  /\ running \in B!Sides \cup {"none"}
  /\ calling \in {"none", "done", "error", "timeout"}

BlockInv ==
  /\ BlockTypes
  /\ calling = "done" => running # "none"
  /\ running # "none" /\ calling = "none" => handler[running]
  /\ B!RequestPolled
  /\ B!BytesAccounted

\* At first there is no request.
LEMMA BlockInit == B!Init => BlockInv
<1> SUFFICES ASSUME B!Init PROVE BlockInv
  OBVIOUS
<1> USE DEF B!Init, B!Zero
<1>1. BlockTypes
  BY DEF BlockTypes
<1>2. B!RequestPolled
  BY DEF B!RequestPolled
<1>3. B!BytesAccounted
  BY DEF B!BytesAccounted
<1> QED
  BY <1>1, <1>2, <1>3 DEF BlockInv

\* The requests stay as they are.
LEMMA NoRequestStep ==
  ASSUME BlockInv, UNCHANGED <<handler, pos, len, moved, done, cancelled, open>>,
         running' \in B!Sides \cup {"none"},
         calling' \in {"none", "done", "error", "timeout"},
         calling' = "done" => running' # "none",
         running' # "none" /\ calling' = "none" => handler[running']
  PROVE  BlockInv'
<1>1. BlockTypes'
  BY DEF BlockInv, BlockTypes, B!Sides
<1>2. B!RequestPolled' /\ B!BytesAccounted'
  BY DEF BlockInv, B!RequestPolled, B!BytesAccounted, B!Sides
<1> QED
  BY <1>1, <1>2 DEF BlockInv

\* block_io_read or block_io_write.
LEMMA RequestStep ==
  ASSUME BlockInv, NEW s \in B!Sides, NEW n \in BlockLens, B!Request(s, n)
  PROVE  BlockInv'
<1>0. n \in Nat /\ (n > 0) \in BOOLEAN
  BY BlockAssumption
<1>1. BlockTypes'
  BY <1>0 DEF BlockInv, BlockTypes, B!Request
<1>2. B!RequestPolled'
  BY <1>0 DEF BlockInv, BlockTypes, B!RequestPolled, B!Request
<1>3. B!BytesAccounted'
  BY <1>0 DEF BlockInv, BlockTypes, B!BytesAccounted, B!Request
<1>4. /\ calling' = "done" => running' # "none"
      /\ running' # "none" /\ calling' = "none" => handler'[running']
  BY DEF BlockInv, B!Request, B!UserRuns
<1> QED
  BY <1>1, <1>2, <1>3, <1>4 DEF BlockInv

\* The handler of the file transfers some bytes.
LEMMA TransferStep ==
  ASSUME BlockInv, NEW s \in B!Sides, NEW n \in BlockLens, B!Transfer(s, n)
  PROVE  BlockInv'
<1>0. n \in Nat
  BY BlockAssumption
<1>1. BlockTypes'
  BY <1>0 DEF BlockInv, BlockTypes, B!Transfer
<1>2. handler[s] /\ open[s]
  BY DEF BlockInv, BlockTypes, B!RequestPolled, B!Transfer, B!InHandler, B!Sides
<1>3. B!RequestPolled'
  BY DEF BlockInv, B!RequestPolled, B!Transfer
<1>4. B!BytesAccounted'
  BY <1>0, <1>2 DEF BlockInv, BlockTypes, B!BytesAccounted, B!Transfer
<1> QED
  BY <1>1, <1>3, <1>4 DEF BlockInv, B!Transfer

\* All is transferred: read_done or write_done is called.
LEMMA FinishStep ==
  ASSUME BlockInv, NEW s \in B!Sides, B!Finish(s)
  PROVE  BlockInv'
<1>1. BlockTypes'
  BY DEF BlockInv, BlockTypes, B!Finish
<1>2. handler[s] /\ open[s]
  BY DEF BlockInv, BlockTypes, B!RequestPolled, B!Finish, B!InHandler, B!Sides
<1>3. B!RequestPolled'
  BY DEF BlockInv, BlockTypes, B!RequestPolled, B!Finish
<1>4. B!BytesAccounted'
  BY <1>2 DEF BlockInv, BlockTypes, B!BytesAccounted, B!Finish
<1> QED
  BY <1>1, <1>3, <1>4 DEF BlockInv, B!Finish, B!InHandler, B!Sides

\* Every step keeps the invariant.
LEMMA BlockNext == BlockInv /\ [B!Next]_(B!blockVars) => BlockInv'
<1> SUFFICES ASSUME BlockInv, [B!Next]_(B!blockVars) PROVE BlockInv'
  OBVIOUS
<1> USE DEF B!requestVars
<1>0. /\ running \in B!Sides \cup {"none"}
      /\ calling \in {"none", "done", "error", "timeout"}
      /\ calling = "done" => running # "none"
      /\ running # "none" /\ calling = "none" => handler[running]
  BY DEF BlockInv, BlockTypes
<1>1. CASE B!Add \/ B!Del \/ B!Peer \/ UNCHANGED B!blockVars
  BY <1>0, <1>1, NoRequestStep DEF B!Add, B!Del, B!Peer, B!blockVars
<1>2. CASE B!Return
  BY <1>0, <1>2, NoRequestStep DEF B!Return
<1>3. CASE B!Expire
  BY <1>0, <1>3, NoRequestStep DEF B!Expire
<1>4. ASSUME NEW s \in B!Sides, B!CallHandler(s) PROVE BlockInv'
  BY <1>0, <1>4, NoRequestStep DEF B!CallHandler
<1>5. ASSUME NEW s \in B!Sides, B!Blocked(s) PROVE BlockInv'
  BY <1>0, <1>5, NoRequestStep DEF B!Blocked, B!InHandler
<1>6. ASSUME NEW s \in B!Sides, B!Fails(s) PROVE BlockInv'
  BY <1>0, <1>6, NoRequestStep DEF B!Fails, B!InHandler
<1>7. ASSUME NEW on \in BOOLEAN, B!SetTimeout(on) PROVE BlockInv'
  BY <1>0, <1>7, NoRequestStep DEF B!SetTimeout
<1> QED
  BY <1>1, <1>2, <1>3, <1>4, <1>5, <1>6, <1>7, RequestStep, TransferStep, FinishStep
     DEF B!Next

\* The requests of a block I/O survive each other: a request is polled for
\* from the moment it is made, in whatever callback, until it is finished or
\* cancelled, and every byte moved belongs to one request (main-block.c).
THEOREM BlockSoundTheorem == B!Spec => []BlockSound
<1>1. BlockInv => BlockSound
  BY DEF BlockInv, BlockSound, B!BlockSound
<1> QED
  BY <1>1, BlockInit, BlockNext, PTL DEF B!Spec

-----------------------------------------------------------------------------
(* Atomic fastbufs.  A buffer is a chain of bytes that begins with the     *)
(* first byte of a record; it is written when it ends with the last byte   *)
(* of one, which the file's mode ensures: a buffer of fixed-size records   *)
(* is a whole number of them long, a locked one grows.                     *)

Bytes == Threads \X Nat \X Nat \X Nat

AtomicTypes ==
  /\ recordLen \in Int \ {0}
  /\ atomicFile \in Seq(Bytes)
  /\ buf \in [Threads -> Seq(Bytes)] /\ sent \in [Threads -> Seq(Bytes)]
  /\ left \in [Threads -> {<<>>} \cup (Nat \X Nat)]
  /\ cap \in [Threads -> Nat] /\ slack \in [Threads -> Nat]
  /\ writerState \in [Threads -> {"open", "dead", "closing", "loaded", "closed"}]
  /\ useCount \in Int /\ reg \in [Threads -> Int]

\* Every byte follows the previous one of its record and is followed by the
\* next one, or it is the last byte of the sequence.
Chained(s) ==
  \A j \in DOMAIN s :
    /\ s[j][3] \in 1..s[j][4]
    /\ s[j][3] > 1 => j > 1 /\ s[j - 1] = <<s[j][1], s[j][2], s[j][3] - 1, s[j][4]>>
    /\ \/ s[j][3] = s[j][4]
       \/ j = Len(s)
       \/ s[j + 1] = <<s[j][1], s[j][2], s[j][3] + 1, s[j][4]>>

\* No record is left unfinished at the end of the sequence.
Finished(s) == s = <<>> \/ s[Len(s)][3] = s[Len(s)][4]

\* The buffer of a thread, and where it stands with the record being written.
BufferOK(t) ==
  /\ Chained(buf[t]) /\ \A j \in DOMAIN buf[t] : buf[t][j][1] = t
  /\ left[t] = <<>> => Finished(buf[t])
  /\ left[t] # <<>> =>
       /\ left[t][1] \in 1..left[t][2]
       /\ left[t][1] = 1 => Finished(buf[t])
       /\ left[t][1] > 1 => /\ buf[t] # <<>>
                            /\ buf[t][Len(buf[t])] =
                                 <<t, A!Number(t), left[t][1] - 1, left[t][2]>>

\* With records of a fixed size, the end of the buffer is the end of a record.
FixedOK(t) ==
  /\ \E m \in Nat : cap[t] = m * recordLen
  /\ left[t] = <<>> => \E q \in Nat : Len(buf[t]) = q * recordLen
  /\ left[t] # <<>> => /\ left[t][2] = recordLen
                       /\ \E q \in Nat : Len(buf[t]) = q * recordLen + (left[t][1] - 1)

\* A locked buffer which has not grown yet has room for a record not longer
\* than announced, whenever one is started.
RoomOK(t) ==
  /\ cap[t] >= BufSize /\ slack[t] > 0
  /\ writerState[t] = "open" /\ cap[t] = BufSize =>
       /\ slack[t] = -recordLen
       /\ left[t] # <<>> => Len(buf[t]) - (left[t][1] - 1) < BufSize + recordLen

\* The clones which still use the file.
Users == {t \in Threads : writerState[t] # "closed"}

\* A lost decrement leaves the count too high, never too low.
CountOK ==
  /\ useCount >= Cardinality(Users)
  /\ \A t \in Threads : writerState[t] = "loaded" => reg[t] >= Cardinality(Users)
  /\ fd = "closed" => Users = {}

\* What the thread has put is in the file or in the buffer.
Kept(t) ==
  /\ writerState[t] = "open" /\ ~halted =>
       A!BytesOf(t, atomicFile) \o buf[t] = sent[t]
  /\ A!IsPrefix(A!BytesOf(t, atomicFile), sent[t])

\* The buffer has grown because of a record longer than announced.
Grown(t) ==
  recordLen < 0 /\ cap[t] > BufSize => \E k \in DOMAIN sent[t] : sent[t][k][4] > -recordLen

ThreadOK(t) ==
  /\ writerState[t] = "open" /\ ~halted => BufferOK(t) /\ (recordLen > 0 => FixedOK(t))
  /\ recordLen < 0 => RoomOK(t)
  /\ Kept(t) /\ Grown(t)

AtomicInv ==
  /\ AtomicTypes
  /\ \A t \in Threads : ThreadOK(t)
  /\ CountOK
  /\ A!RecordsWhole

\* A byte is a quadruple: its thread, its record, its place and the length of
\* the record.
LEMMA ByteIs ==
  ASSUME NEW b \in Bytes
  PROVE  /\ b = <<b[1], b[2], b[3], b[4]>> /\ b[1] \in Threads
         /\ b[2] \in Nat /\ b[3] \in Nat /\ b[4] \in Nat
  BY DEF Bytes

\* f gives the bytes of t in every prefix of s
IsFilter(f, t, s) ==
  /\ f \in [0..Len(s) -> Seq(Bytes)] /\ f[0] = <<>>
  /\ \A n \in 1..Len(s) : f[n] = A!Keep(t, f[n - 1], s[n])

\* Keep adds a byte to a sequence of bytes or leaves the sequence alone.
LEMMA KeepType ==
  ASSUME NEW t, NEW s \in Seq(Bytes), NEW b \in Bytes
  PROVE  A!Keep(t, s, b) \in Seq(Bytes)
  BY DEF A!Keep

\* There is such a function for every thread and file, by induction on the
\* length.
LEMMA FilterExists ==
  ASSUME NEW t, NEW s \in Seq(Bytes)
  PROVE  \E f : IsFilter(f, t, s)
<1> DEFINE P(f, m) == /\ f \in [0..m -> Seq(Bytes)] /\ f[0] = <<>>
                      /\ \A n \in 1..m : f[n] = A!Keep(t, f[n - 1], s[n])
           Upto == {m \in Nat : m <= Len(s) => \E f : P(f, m)}
<1>0. Len(s) \in Nat /\ \A n \in 1..Len(s) : s[n] \in Bytes
  OBVIOUS
<1>1. 0 \in Upto
  <2>1. P([k \in 0..0 |-> <<>>], 0)
    OBVIOUS
  <2> QED
    BY <2>1
<1> HIDE DEF P
<1>2. ASSUME NEW m \in Nat, m \in Upto PROVE m + 1 \in Upto
  <2> SUFFICES ASSUME m + 1 <= Len(s) PROVE \E f : P(f, m + 1)
    OBVIOUS
  <2>1. PICK f : P(f, m)
    BY <1>0, <1>2
  <2> USE DEF P
  <2> DEFINE last == A!Keep(t, f[m], s[m + 1])
             g == [k \in 0..(m + 1) |-> IF k = m + 1 THEN last ELSE f[k]]
  <2>2. f[m] \in Seq(Bytes) /\ s[m + 1] \in Bytes
    BY <1>0, <2>1
  <2>3. last \in Seq(Bytes)
    BY <2>2, KeepType
  <2> HIDE DEF last
  <2>4. g \in [0..(m + 1) -> Seq(Bytes)] /\ g[0] = <<>>
    BY <2>1, <2>3
  <2>5. \A n \in 1..(m + 1) : g[n] = A!Keep(t, g[n - 1], s[n])
    <3>1. \A n \in 1..m : g[n] = f[n] /\ g[n - 1] = f[n - 1]
      BY <2>1
    <3>2. g[m + 1] = A!Keep(t, g[m], s[m + 1])
      BY <2>1 DEF last
    <3> HIDE DEF g
    <3> QED
      BY <2>1, <3>1, <3>2, SMTT(30)
  <2> HIDE DEF g
  <2>6. P(g, m + 1)
    BY <2>4, <2>5
  <2> QED
    BY <2>6
<1> HIDE DEF Upto
<1>3. Nat \subseteq Upto
  BY <1>1, <1>2, SetInduction
<1>4. Len(s) \in Upto
  BY <1>0, <1>3
<1> QED
  BY <1>0, <1>4 DEF Upto, P, IsFilter

\* BytesOf is what a function with its recurrence says.
LEMMA BytesOfIs ==
  ASSUME NEW t, NEW s \in Seq(Bytes), NEW f, IsFilter(f, t, s)
  PROVE  A!BytesOf(t, s) = f[Len(s)]
<1> DEFINE Step(h) == [n \in 0..Len(s) |->
                        IF n = 0 THEN <<>> ELSE A!Keep(t, h[n - 1], s[n])]
           of == CHOOSE h : h = Step(h)
           Upto == {m \in Nat : m <= Len(s) => of[m] = f[m]}
<1>0. Len(s) \in Nat
  OBVIOUS
<1>1. f = Step(f)
  BY DEF IsFilter
<1>2. of = Step(of)
  BY <1>1
<1>3. A!BytesOf(t, s) = of[Len(s)]
  BY DEF A!BytesOf
<1> HIDE DEF of
<1>4. /\ of[0] = <<>>
      /\ \A n \in 1..Len(s) : of[n] = A!Keep(t, of[n - 1], s[n])
  BY <1>0, <1>2
<1>5. 0 \in Upto
  BY <1>4 DEF IsFilter
<1>6. ASSUME NEW m \in Nat, m \in Upto PROVE m + 1 \in Upto
  <2>1. CASE m + 1 <= Len(s)
    <3>1. m + 1 \in 1..Len(s) /\ (m + 1) - 1 = m /\ f[m] = of[m]
      BY <1>0, <1>6, <2>1
    <3> QED
      BY <1>4, <3>1 DEF IsFilter
  <2> QED
    BY <2>1
<1> HIDE DEF Upto
<1>7. Nat \subseteq Upto
  BY <1>5, <1>6, SetInduction
<1>8. of[Len(s)] = f[Len(s)]
  BY <1>0, <1>7 DEF Upto
<1> QED
  BY <1>3, <1>8

\* The bytes of a thread in a file are a sequence of bytes.
LEMMA BytesOfType ==
  ASSUME NEW t, NEW s \in Seq(Bytes)
  PROVE  A!BytesOf(t, s) \in Seq(Bytes)
<1>1. PICK f : IsFilter(f, t, s)
  BY FilterExists
<1> QED
  BY <1>1, BytesOfIs DEF IsFilter

\* No thread has a byte in the empty file.
LEMMA BytesOfEmpty ==
  ASSUME NEW t
  PROVE  A!BytesOf(t, <<>>) = <<>>
<1> DEFINE f == [k \in 0..0 |-> <<>>]
<1>1. <<>> \in Seq(Bytes) /\ Len(<<>>) = 0
  OBVIOUS
<1>2. IsFilter(f, t, <<>>)
  BY <1>1 DEF IsFilter
<1> QED
  BY <1>1, <1>2, BytesOfIs

\* A block of bytes of one thread is appended: it is added to the thread's
\* bytes ...
LEMMA BytesOfOwn ==
  ASSUME NEW t, NEW s \in Seq(Bytes), NEW block \in Seq(Bytes),
         \A j \in DOMAIN block : block[j][1] = t
  PROVE  A!BytesOf(t, s \o block) = A!BytesOf(t, s) \o block
<1>1. PICK f : IsFilter(f, t, s)
  BY FilterExists
<1> DEFINE new == s \o block
           l == Len(s)
           m == Len(block)
           end == f[l]
           Part(j) == end \o SubSeq(block, 1, j)
<1>2. /\ l \in Nat /\ m \in Nat
      /\ new \in Seq(Bytes) /\ Len(new) = l + m
      /\ \A n \in 1..l : new[n] = s[n]
      /\ \A j \in 1..m : new[l + j] = block[j] /\ block[j] \in Bytes /\ block[j][1] = t
  OBVIOUS
<1>3. end \in Seq(Bytes) /\ A!BytesOf(t, s) = end
  <2>1. end \in Seq(Bytes)
    BY <1>1, <1>2 DEF IsFilter
  <2> QED
    BY <1>1, <2>1, BytesOfIs
<1>4. Part(0) = end /\ Part(m) = end \o block
  <2>1. SubSeq(block, 1, 0) = <<>> /\ SubSeq(block, 1, m) = block
    OBVIOUS
  <2>2. end \o <<>> = end
    BY <1>3
  <2> QED
    BY <2>1, <2>2
<1>5. ASSUME NEW j \in 1..m
      PROVE  Part(j) \in Seq(Bytes) /\ Part(j) = A!Keep(t, Part(j - 1), block[j])
  <2>1. SubSeq(block, 1, j) \in Seq(Bytes) /\ SubSeq(block, 1, j - 1) \in Seq(Bytes)
    BY <1>2
  <2>2. SubSeq(block, 1, j) = Append(SubSeq(block, 1, j - 1), block[j])
    BY <1>2, <2>1
  <2>3. \A a, b \in Seq(Bytes), e \in Bytes :
          a \o Append(b, e) = Append(a \o b, e) /\ a \o b \in Seq(Bytes)
    OBVIOUS
  <2>4. /\ end \o SubSeq(block, 1, j - 1) \in Seq(Bytes)
        /\ end \o Append(SubSeq(block, 1, j - 1), block[j]) =
             Append(end \o SubSeq(block, 1, j - 1), block[j])
        /\ end \o SubSeq(block, 1, j) \in Seq(Bytes)
    <3> HIDE DEF end
    <3> QED
      BY <1>2, <1>3, <2>1, <2>3
  <2>5. Part(j) \in Seq(Bytes) /\ Part(j) = Append(Part(j - 1), block[j])
    BY <2>2, <2>4
  <2> QED
    BY <1>2, <2>5 DEF A!Keep
<1> DEFINE g == [n \in 0..Len(new) |-> IF n <= l THEN f[n] ELSE Part(n - l)]
<1> HIDE DEF Part, new, end, l, m
<1>6. \A n \in 0..l : g[n] = f[n]
  BY <1>2
<1>7. \A j \in 0..m : g[l + j] = Part(j)
  <2> SUFFICES ASSUME NEW j \in 0..m PROVE g[l + j] = Part(j)
    OBVIOUS
  <2>1. CASE j = 0
    BY <1>2, <1>4, <2>1 DEF end
  <2>2. CASE j # 0
    <3>1. l + j \in 0..Len(new) /\ ~(l + j <= l) /\ (l + j) - l = j
      BY <1>2, <2>2
    <3> QED
      BY <3>1
  <2> QED
    BY <2>1, <2>2
<1>8. IsFilter(g, t, new)
  <2>1. g[0] = <<>>
    BY <1>1, <1>2 DEF IsFilter
  <2>2. g \in [0..Len(new) -> Seq(Bytes)]
    <3> SUFFICES ASSUME NEW n \in 0..Len(new)
                 PROVE  (IF n <= l THEN f[n] ELSE Part(n - l)) \in Seq(Bytes)
      OBVIOUS
    <3>1. CASE n <= l
      <4>1. f \in [0..l -> Seq(Bytes)] /\ n \in 0..l
        BY <1>1, <1>2, <3>1 DEF IsFilter, l
      <4> QED
        BY <3>1, <4>1
    <3>2. CASE ~(n <= l)
      <4>1. n - l \in 1..m
        BY <1>2, <3>2
      <4> QED
        BY <3>2, <4>1, <1>5
    <3> QED
      BY <3>1, <3>2
  <2>3. ASSUME NEW n \in 1..Len(new) PROVE g[n] = A!Keep(t, g[n - 1], new[n])
    <3> HIDE DEF g
    <3>1. CASE n <= l
      <4>1. n \in 1..l /\ n \in 0..l /\ n - 1 \in 0..l /\ new[n] = s[n]
        BY <1>2, <3>1
      <4>2. f[n] = A!Keep(t, f[n - 1], s[n])
        BY <1>1, <4>1 DEF IsFilter, l
      <4> QED
        BY <1>6, <4>1, <4>2
    <3>2. CASE ~(n <= l)
      <4>1. PICK j \in 1..m : n = l + j
        <5>1. n - l \in 1..m /\ n = l + (n - l)
          BY <1>2, <3>2
        <5> QED
          BY <5>1
      <4>2. j - 1 \in 0..m /\ j \in 0..m /\ n - 1 = l + (j - 1)
        BY <1>2, <4>1
      <4>3. g[n] = Part(j) /\ g[n - 1] = Part(j - 1) /\ new[n] = block[j]
        BY <1>2, <1>7, <4>1, <4>2
      <4> QED
        BY <1>5, <4>1, <4>3
    <3> QED
      BY <3>1, <3>2
  <2> HIDE DEF g
  <2> QED
    BY <2>1, <2>2, <2>3 DEF IsFilter
<1> HIDE DEF g
<1>9. A!BytesOf(t, new) = g[Len(new)]
  <2>1. new \in Seq(Bytes)
    BY <1>2
  <2> QED
    BY <1>8, <2>1, BytesOfIs
<1>10. m \in 0..m
  BY <1>2
<1> QED
  BY <1>2, <1>3, <1>4, <1>7, <1>9, <1>10 DEF new

\* ... and changes nothing for another thread.
LEMMA BytesOfOther ==
  ASSUME NEW t, NEW s \in Seq(Bytes), NEW block \in Seq(Bytes),
         \A j \in DOMAIN block : block[j][1] # t
  PROVE  A!BytesOf(t, s \o block) = A!BytesOf(t, s)
<1>1. PICK f : IsFilter(f, t, s)
  BY FilterExists
<1> DEFINE new == s \o block
           l == Len(s)
           end == f[l]
<1>2. /\ l \in Nat /\ Len(new) \in Nat /\ l <= Len(new) /\ new \in Seq(Bytes)
      /\ \A n \in 1..l : new[n] = s[n]
      /\ \A n \in (l + 1)..Len(new) : new[n][1] # t
  <2>1. /\ l \in Nat /\ Len(block) \in Nat /\ DOMAIN block = 1..Len(block)
        /\ new \in Seq(Bytes) /\ Len(new) = l + Len(block) /\ \A n \in 1..l : new[n] = s[n]
        /\ \A j \in 1..Len(block) : new[l + j] = block[j]
    OBVIOUS
  <2>2. ASSUME NEW n \in (l + 1)..Len(new) PROVE new[n][1] # t
    <3> HIDE DEF new, l
    <3>1. n - l \in 1..Len(block) /\ l + (n - l) = n
      BY <2>1
    <3>2. new[n] = block[n - l]
      BY <2>1, <3>1
    <3> QED
      BY <2>1, <3>1, <3>2
  <2> HIDE DEF new, l
  <2> QED
    BY <2>1, <2>2
<1>3. end \in Seq(Bytes) /\ A!BytesOf(t, s) = end
  <2>1. end \in Seq(Bytes)
    BY <1>1, <1>2 DEF IsFilter
  <2> QED
    BY <1>1, <2>1, BytesOfIs
<1> DEFINE g == [n \in 0..Len(new) |-> IF n <= l THEN f[n] ELSE end]
<1> HIDE DEF new
<1>4. \A n \in 0..Len(new) : n >= l => g[n] = end
  BY <1>2
<1>5. \A n \in 0..l : g[n] = f[n]
  BY <1>2
<1> HIDE DEF end, l
<1>6. IsFilter(g, t, new)
  <2>1. g \in [0..Len(new) -> Seq(Bytes)] /\ g[0] = <<>>
    BY <1>1, <1>2, <1>3 DEF IsFilter, l
  <2>2. ASSUME NEW n \in 1..Len(new) PROVE g[n] = A!Keep(t, g[n - 1], new[n])
    <3> HIDE DEF g
    <3>1. CASE n <= l
      <4>1. n \in 1..l /\ n \in 0..l /\ n - 1 \in 0..l /\ new[n] = s[n]
        BY <1>2, <3>1
      <4>2. f[n] = A!Keep(t, f[n - 1], s[n])
        BY <1>1, <4>1 DEF IsFilter, l
      <4> QED
        BY <1>5, <4>1, <4>2
    <3>2. CASE ~(n <= l)
      <4>1. n \in (l + 1)..Len(new) /\ n - 1 \in 0..Len(new) /\ n \in 0..Len(new)
            /\ n - 1 >= l /\ n >= l
        BY <1>2, <3>2
      <4>2. g[n] = end /\ g[n - 1] = end /\ new[n][1] # t
        BY <1>2, <1>4, <4>1
      <4> QED
        BY <4>2 DEF A!Keep
    <3> QED
      BY <3>1, <3>2
  <2> HIDE DEF g
  <2> QED
    BY <2>1, <2>2 DEF IsFilter
<1> HIDE DEF g
<1>7. A!BytesOf(t, new) = g[Len(new)]
  BY <1>2, <1>6, BytesOfIs
<1>8. g[Len(new)] = end
  BY <1>2, <1>4
<1> QED
  BY <1>3, <1>7, <1>8 DEF new

\* The empty buffer is a chain that ends with a whole record.
LEMMA ChainedEmpty == Chained(<<>>) /\ Finished(<<>>)
  BY DEF Chained, Finished

\* A byte that continues the last one of a chain makes a longer chain.
LEMMA ChainedAppend ==
  ASSUME NEW s \in Seq(Bytes), Chained(s), NEW b \in Bytes, b[3] \in 1..b[4],
         \/ b[3] = 1 /\ Finished(s)
         \/ s # <<>> /\ s[Len(s)] = <<b[1], b[2], b[3] - 1, b[4]>>
  PROVE  Chained(Append(s, b))
<1> DEFINE new == Append(s, b)
           l == Len(s)
<1>1. /\ l \in Nat /\ Len(new) = l + 1 /\ DOMAIN new = 1..(l + 1) /\ DOMAIN s = 1..l
      /\ \A j \in 1..l : new[j] = s[j] /\ s[j] \in Bytes
      /\ new[l + 1] = b /\ (s # <<>> => l \in 1..l)
  OBVIOUS
<1>2. /\ b = <<b[1], b[2], b[3], b[4]>> /\ b[3] \in Nat /\ b[4] \in Nat
      /\ \A j \in 1..l : s[j][3] \in Nat /\ s[j][4] \in Nat
  BY <1>1, ByteIs
<1> HIDE DEF new, l
<1>3. ASSUME NEW j \in 1..l
      PROVE  /\ new[j][3] \in 1..new[j][4]
             /\ new[j][3] > 1 =>
                  j > 1 /\ new[j - 1] = <<new[j][1], new[j][2], new[j][3] - 1, new[j][4]>>
  <2>1. /\ new[j] = s[j] /\ s[j][3] \in 1..s[j][4]
        /\ s[j][3] > 1 => j > 1 /\ s[j - 1] = <<s[j][1], s[j][2], s[j][3] - 1, s[j][4]>>
    BY <1>1 DEF Chained
  <2>2. j > 1 => j - 1 \in 1..l
    BY <1>1
  <2>3. j > 1 => new[j - 1] = s[j - 1]
    BY <1>1, <2>2
  <2> QED
    BY <2>1, <2>3
<1>4. ASSUME NEW j \in 1..l
      PROVE  \/ new[j][3] = new[j][4]
             \/ new[j + 1] = <<new[j][1], new[j][2], new[j][3] + 1, new[j][4]>>
  <2>1. CASE j < l
    <3>1. j + 1 \in 1..l /\ new[j] = s[j] /\ new[j + 1] = s[j + 1] /\ j # l
      BY <1>1, <2>1
    <3> QED
      BY <1>1, <3>1 DEF Chained, l
  <2>2. CASE j = l
    <3>1. new[j] = s[l] /\ new[j + 1] = b /\ s # <<>>
      BY <1>1, <2>2
    <3>2. CASE Finished(s)
      BY <3>1, <3>2 DEF Finished, l
    <3>3. CASE s[l] = <<b[1], b[2], b[3] - 1, b[4]>>
      <4>1. s[l][1] = b[1] /\ s[l][2] = b[2] /\ s[l][3] = b[3] - 1 /\ s[l][4] = b[4]
        BY <3>3
      <4>2. (b[3] - 1) + 1 = b[3]
        BY <1>2
      <4> QED
        BY <1>2, <3>1, <4>1, <4>2
    <3> QED
      BY <3>2, <3>3 DEF l
  <2> QED
    BY <1>1, <2>1, <2>2
<1>5. /\ new[l + 1][3] \in 1..new[l + 1][4]
      /\ new[l + 1][3] > 1 => l + 1 > 1 /\ new[l + 1 - 1] =
           <<new[l + 1][1], new[l + 1][2], new[l + 1][3] - 1, new[l + 1][4]>>
  <2>1. CASE b[3] = 1
    BY <1>1, <2>1
  <2>2. CASE s # <<>> /\ s[l] = <<b[1], b[2], b[3] - 1, b[4]>>
    <3>1. l \in 1..l /\ l + 1 - 1 = l /\ l + 1 > 1
      BY <1>1, <2>2
    <3> QED
      BY <1>1, <2>2, <3>1
  <2> QED
    BY <2>1, <2>2 DEF l
<1>6. Chained(new)
  <2> SUFFICES ASSUME NEW j \in 1..(l + 1)
               PROVE  /\ new[j][3] \in 1..new[j][4]
                      /\ new[j][3] > 1 => /\ j > 1
                                          /\ new[j - 1] = <<new[j][1], new[j][2], new[j][3] - 1, new[j][4]>>
                      /\ \/ new[j][3] = new[j][4]
                         \/ j = Len(new)
                         \/ new[j + 1] = <<new[j][1], new[j][2], new[j][3] + 1, new[j][4]>>
    BY <1>1 DEF Chained
  <2>1. CASE j \in 1..l
    BY <1>3, <1>4, <2>1
  <2>2. CASE j = l + 1
    BY <1>1, <1>5, <2>2
  <2> QED
    BY <1>1, <2>1, <2>2
<1> QED
  BY <1>6 DEF new

\* Number(t) counts the first bytes of records.
LEMMA NumberCounts ==
  ASSUME NEW s \in Seq(Bytes), NEW b \in Bytes
  PROVE  LET firsts(q) == {k \in DOMAIN q : q[k][3] = 1}
         IN  /\ A!Cardinality(firsts(s)) \in Nat
             /\ b[3] = 1 => A!Cardinality(firsts(Append(s, b))) = A!Cardinality(firsts(s)) + 1
             /\ b[3] # 1 => A!Cardinality(firsts(Append(s, b))) = A!Cardinality(firsts(s))
<1> DEFINE firsts(q) == {k \in DOMAIN q : q[k][3] = 1}
           new == Append(s, b)
           l == Len(s)
           F == firsts(s)
           G == firsts(new)
<1>1. /\ l \in Nat /\ DOMAIN s = 1..l /\ DOMAIN new = 1..(l + 1)
      /\ \A k \in 1..l : new[k] = s[k] /\ new[l + 1] = b
      /\ new[l + 1] = b
  OBVIOUS
<1>2. \A T : A!Cardinality(T) = Cardinality(T)
  BY DEF A!Cardinality, Cardinality
<1>3. IsFiniteSet(F)
  <2>1. IsFiniteSet(1..l)
    BY <1>1, FS_Interval
  <2>2. F \subseteq 1..l
    BY <1>1
  <2> QED
    BY <2>1, <2>2, FS_Subset
<1>4. l + 1 \notin F
  BY <1>1
<1>5. b[3] = 1 => G = F \cup {l + 1}
  BY <1>1
<1>6. b[3] # 1 => G = F
  BY <1>1
<1> HIDE DEF F, G, l, new
<1>7. Cardinality(F) \in Nat /\ Cardinality(F \cup {l + 1}) = Cardinality(F) + 1
  BY <1>3, <1>4, FS_AddElement, FS_CardinalityType
<1>8. /\ A!Cardinality(F) \in Nat
      /\ b[3] = 1 => A!Cardinality(G) = A!Cardinality(F) + 1
      /\ b[3] # 1 => A!Cardinality(G) = A!Cardinality(F)
  BY <1>2, <1>5, <1>6, <1>7
<1> QED
  BY <1>8 DEF F, G, new

\* A sequence is a prefix of what is made by appending to it.
LEMMA PrefixIs ==
  ASSUME NEW a \in Seq(Bytes), NEW b \in Seq(Bytes)
  PROVE  A!IsPrefix(a, a \o b)
<1>1. Len(a) <= Len(a \o b)
  OBVIOUS
<1>2. SubSeq(a, 1, Len(a)) = SubSeq(a \o b, 1, Len(a))
  OBVIOUS
<1> QED
  BY <1>1, <1>2 DEF A!IsPrefix

\* A step of thread t leaves the others alone.
LEMMA ThreadStep ==
  ASSUME AtomicInv, NEW t \in Threads, recordLen' = recordLen, ~halted,
         \A u \in Threads : u # t =>
           /\ UNCHANGED <<buf[u], cap[u], slack[u], left[u], sent[u], writerState[u]>>
           /\ A!BytesOf(u, atomicFile)' = A!BytesOf(u, atomicFile),
         AtomicTypes', ThreadOK(t)', CountOK', A!RecordsWhole'
  PROVE  AtomicInv'
<1>1. ASSUME NEW u \in Threads, u # t
      PROVE  ThreadOK(u)'
  <2>1. /\ ThreadOK(u)
        /\ UNCHANGED <<buf[u], cap[u], slack[u], left[u], sent[u], writerState[u]>>
        /\ A!BytesOf(u, atomicFile)' = A!BytesOf(u, atomicFile)
    BY <1>1 DEF AtomicInv
  <2>2. A!Number(u)' = A!Number(u)
    BY <2>1 DEF A!Number
  <2>3. BufferOK(u) => BufferOK(u)'
    BY <2>1, <2>2 DEF BufferOK
  <2>4. FixedOK(u) => FixedOK(u)'
    BY <2>1 DEF FixedOK
  <2>5. RoomOK(u) => RoomOK(u)'
    BY <2>1 DEF RoomOK
  <2>6. Kept(u)'
    BY <2>1 DEF Kept, ThreadOK
  <2>7. Grown(u)'
    BY <2>1 DEF Grown, ThreadOK
  <2> QED
    BY <2>1, <2>3, <2>4, <2>5, <2>6, <2>7 DEF ThreadOK
<1> QED
  BY <1>1 DEF AtomicInv

\* The clones in use stay so.
LEMMA CountKept ==
  ASSUME AtomicInv, NEW t \in Threads, NEW x, x \notin {"loaded", "closed"},
         writerState[t] # "closed",
         writerState' = [writerState EXCEPT ![t] = x], UNCHANGED <<useCount, reg, fd>>
  PROVE  CountOK'
<1>1. Users' = Users
  BY DEF Users, AtomicInv, AtomicTypes
<1> QED
  BY <1>1 DEF AtomicInv, AtomicTypes, CountOK

\* What SMT needs to know of the concatenation of two sequences of bytes.
LEMMA BytesJoined ==
  ASSUME NEW s \in Seq(Bytes), NEW block \in Seq(Bytes)
  PROVE  /\ s \o block \in Seq(Bytes) /\ Len(s \o block) = Len(s) + Len(block)
         /\ Len(s) \in Nat /\ Len(block) \in Nat
         /\ \A k \in 1..Len(s) : (s \o block)[k] = s[k]
         /\ \A j \in 1..Len(block) : (s \o block)[Len(s) + j] = block[j]
  OBVIOUS

\* new is a file after the first n bytes of the buffer of thread t were
\* written to it.
IsWritten(new, file, all, n, t) ==
  /\ file \in Seq(Bytes) /\ all \in Seq(Bytes) /\ n \in 0..Len(all)
  /\ \A j \in DOMAIN all : all[j][1] = t
  /\ new = file \o SubSeq(all, 1, n)

\* A write keeps what was in the file, and what the other threads have there.
LEMMA BlockFacts ==
  ASSUME NEW new, NEW file, NEW all, NEW n, NEW t, IsWritten(new, file, all, n, t)
  PROVE  /\ new \in Seq(Bytes) /\ Len(file) \in Nat /\ Len(new) = Len(file) + n
         /\ \A k \in 1..Len(file) : new[k] = file[k]
         /\ \A j \in 1..n : new[Len(file) + j] = all[j]
         /\ \A u : u # t => A!BytesOf(u, new) = A!BytesOf(u, file)
<1> USE DEF IsWritten
<1> DEFINE block == SubSeq(all, 1, n)
<1>1. /\ Len(all) \in Nat /\ DOMAIN all = 1..Len(all) /\ n \in Nat /\ n <= Len(all)
      /\ block \in Seq(Bytes) /\ Len(block) = n /\ DOMAIN block = 1..n
      /\ \A j \in 1..n : block[j] = all[j]
  OBVIOUS
<1> HIDE DEF block
<1>2. new = file \o block
  BY DEF block
<1>3. /\ new \in Seq(Bytes) /\ Len(file) \in Nat /\ Len(new) = Len(file) + n
      /\ \A k \in 1..Len(file) : new[k] = file[k]
      /\ \A j \in 1..n : new[Len(file) + j] = block[j]
  BY <1>1, <1>2, BytesJoined
<1>4. ASSUME NEW u, u # t PROVE A!BytesOf(u, new) = A!BytesOf(u, file)
  <2>1. \A j \in DOMAIN block : block[j][1] # u
    BY <1>1, <1>4
  <2> QED
    BY <1>1, <1>2, <2>1, BytesOfOther, ZenonT(60)
<1> QED
  BY <1>1, <1>3, <1>4

\* What is in the file and in the buffer of the thread stays in this order.
LEMMA BlockOwn ==
  ASSUME NEW new, NEW file, NEW all, NEW n, NEW t, IsWritten(new, file, all, n, t),
         NEW whole, whole = A!BytesOf(t, file) \o all
  PROVE  /\ n = Len(all) => A!BytesOf(t, new) = whole
         /\ n < Len(all) => Len(A!BytesOf(t, new)) < Len(whole)
         /\ A!IsPrefix(A!BytesOf(t, new), whole)
<1> DEFINE block == SubSeq(all, 1, n)
           rest == SubSeq(all, n + 1, Len(all))
           w == A!BytesOf(t, file)
<1> USE DEF IsWritten
<1>1. /\ Len(all) \in Nat /\ n \in Nat /\ n <= Len(all) /\ DOMAIN all = 1..Len(all)
      /\ block \in Seq(Bytes) /\ Len(block) = n /\ DOMAIN block = 1..n
      /\ \A j \in 1..n : block[j] = all[j]
  OBVIOUS
<1>2. rest \in Seq(Bytes) /\ all = block \o rest
  <2>1. /\ rest \in Seq(Bytes) /\ Len(rest) = Len(all) - n
        /\ \A i \in 1..(Len(all) - n) : rest[i] = all[n + i]
    <3>1. all \in Seq(Bytes) /\ n \in 0..Len(all)
      BY <1>1
    <3>2. \A i \in 1..(Len(all) - n) : i + n = n + i
      BY <1>1
    <3> HIDE DEF IsWritten
    <3> QED
      BY <3>1, <3>2, SplitFacts
  <2> HIDE DEF block, rest
  <2> DEFINE both == block \o rest
  <2>2. /\ both \in Seq(Bytes) /\ Len(both) = n + (Len(all) - n)
        /\ \A j \in 1..n : both[j] = block[j]
        /\ \A i \in 1..(Len(all) - n) : both[n + i] = rest[i]
    <3>1. block \in Seq(Bytes)
      BY <1>1
    <3>2. /\ both \in Seq(Bytes) /\ Len(both) = Len(block) + Len(rest)
          /\ \A j \in 1..Len(block) : both[j] = block[j]
          /\ \A i \in 1..Len(rest) : both[Len(block) + i] = rest[i]
      <4>1. rest \in Seq(Bytes)
        BY <2>1
      <4> QED
        BY <3>1, <4>1
    <3> HIDE DEF both
    <3> QED
      BY <1>1, <2>1, <3>2
  <2> HIDE DEF both
  <2>3. Len(both) = Len(all)
    BY <1>1, <2>2
  <2>4. ASSUME NEW j \in 1..Len(all) PROVE both[j] = all[j]
    <3>1. CASE j <= n
      BY <1>1, <2>2, <3>1
    <3>2. CASE ~(j <= n)
      <4>1. j - n \in 1..(Len(all) - n) /\ n + (j - n) = j
        BY <1>1, <3>2
      <4> QED
        BY <2>1, <2>2, <4>1, ZenonT(60)
    <3> QED
      BY <3>1, <3>2
  <2>5. both = all
    <3>1. both \in Seq(Bytes) /\ all \in Seq(Bytes)
      BY <2>2
    <3>2. \A j \in 1..Len(both) : both[j] = all[j]
      BY <2>3, <2>4
    <3> QED
      BY <2>3, <3>1, <3>2, SeqEqual
  <2> QED
    BY <2>1, <2>5 DEF both
<1>3. n = Len(all) => block = all
  OBVIOUS
<1>4. w \in Seq(Bytes)
  BY BytesOfType
<1> HIDE DEF block, rest, w
<1>5. new = file \o block
  BY DEF block
<1>6. \A j \in DOMAIN block : block[j][1] = t
  BY <1>1
<1> HIDE DEF IsWritten
<1>7. A!BytesOf(t, new) = w \o block
  <2>1. file \in Seq(Bytes) /\ block \in Seq(Bytes)
    BY <1>1 DEF IsWritten
  <2> QED
    BY <1>5, <1>6, <2>1, BytesOfOwn DEF w
<1>8. (w \o block) \o rest = w \o (block \o rest) /\ w \o block \in Seq(Bytes)
  <2>1. \A a, b, c \in Seq(Bytes) : (a \o b) \o c = a \o (b \o c) /\ a \o b \in Seq(Bytes)
    OBVIOUS
  <2>2. block \in Seq(Bytes) /\ rest \in Seq(Bytes)
    BY <1>1, <1>2
  <2> QED
    BY <1>4, <2>1, <2>2
<1>9. whole = (w \o block) \o rest
  BY <1>2, <1>8 DEF w
<1>10. A!IsPrefix(w \o block, (w \o block) \o rest)
  <2>1. rest \in Seq(Bytes)
    BY <1>2
  <2> QED
    BY <1>8, <2>1, PrefixIs
<1>11. n = Len(all) => w \o block = whole
  BY <1>3 DEF w
<1>12. n < Len(all) => Len(w \o block) < Len(whole)
  <2>1. Len(w) \in Nat /\ Len(w \o block) = Len(w) + Len(block)
    <3>1. block \in Seq(Bytes)
      BY <1>1
    <3> QED
      BY <1>4, <3>1, BytesJoined
  <2>2. Len(whole) = Len(w) + Len(all)
    <3>1. all \in Seq(Bytes) /\ whole = w \o all
      BY DEF IsWritten, w
    <3> QED
      BY <1>4, <3>1, BytesJoined
  <2> QED
    BY <1>1, <2>1, <2>2
<1> QED
  BY <1>7, <1>9, <1>10, <1>11, <1>12

\* The bytes of a block are linked in the file as they were in the buffer.
LEMMA BlockLinked ==
  ASSUME NEW new, NEW file, NEW all, NEW n, NEW t, IsWritten(new, file, all, n, t),
         Chained(all), NEW k \in (Len(file) + 1)..Len(new)
  PROVE  /\ new[k][1] = t
         /\ new[k][3] > 1 =>
              k > 1 /\ new[k - 1] = <<new[k][1], new[k][2], new[k][3] - 1, new[k][4]>>
         /\ \/ new[k][3] = new[k][4]
            \/ /\ k < Len(new)
               /\ new[k + 1] = <<new[k][1], new[k][2], new[k][3] + 1, new[k][4]>>
            \/ n < Len(all) \/ ~Finished(all)
<1> DEFINE l == Len(file)
<1>1. /\ l \in Nat /\ Len(new) = l + n /\ n \in Nat
      /\ \A j \in 1..n : new[l + j] = all[j]
      /\ Len(all) \in Nat /\ DOMAIN all = 1..Len(all) /\ n <= Len(all)
  <2>1. l \in Nat /\ Len(new) = l + n /\ \A j \in 1..n : new[l + j] = all[j]
    BY BlockFacts
  <2> QED
    BY <2>1 DEF IsWritten
<1> HIDE DEF l
<1>2. PICK j \in 1..n : k = l + j
  <2>1. k - l \in 1..n /\ k = l + (k - l)
    BY <1>1 DEF l
  <2> QED
    BY <2>1
<1>3. new[k] = all[j] /\ j \in 1..Len(all) /\ j \in Nat
  BY <1>1, <1>2
<1>4. j > 1 => k > 1 /\ new[k - 1] = all[j - 1]
  <2>1. j > 1 => k > 1 /\ j - 1 \in 1..n /\ k - 1 = l + (j - 1)
    BY <1>1, <1>2
  <2> QED
    BY <1>1, <2>1
<1>5. j < n => k < Len(new) /\ new[k + 1] = all[j + 1]
  <2>1. j < n => k < Len(new) /\ j + 1 \in 1..n /\ k + 1 = l + (j + 1)
    BY <1>1, <1>2
  <2> QED
    BY <1>1, <2>1
<1>6. /\ all[j][1] = t
      /\ all[j][3] > 1 =>
           j > 1 /\ all[j - 1] = <<all[j][1], all[j][2], all[j][3] - 1, all[j][4]>>
      /\ \/ all[j][3] = all[j][4]
         \/ j = Len(all)
         \/ all[j + 1] = <<all[j][1], all[j][2], all[j][3] + 1, all[j][4]>>
  BY <1>1, <1>3 DEF Chained, IsWritten
<1>7. new[k][3] > 1 =>
        k > 1 /\ new[k - 1] = <<new[k][1], new[k][2], new[k][3] - 1, new[k][4]>>
  BY <1>3, <1>4, <1>6
<1>8. CASE j < n
  <2>1. j # Len(all)
    BY <1>1, <1>3, <1>8
  <2>2. \/ all[j][3] = all[j][4]
        \/ all[j + 1] = <<all[j][1], all[j][2], all[j][3] + 1, all[j][4]>>
    BY <1>6, <2>1
  <2> QED
    BY <1>3, <1>5, <1>6, <1>7, <1>8, <2>2
<1>9. CASE j = n
  <2>1. n = Len(all) /\ Finished(all) => all[j][3] = all[j][4]
    BY <1>3, <1>9 DEF Finished
  <2>2. n = Len(all) \/ n < Len(all)
    <3>1. n \in Nat /\ Len(all) \in Nat /\ n <= Len(all)
      BY <1>1
    <3> QED
      BY <3>1
  <2> QED
    BY <1>3, <1>6, <1>7, <2>1, <2>2
<1>10. j < n \/ j = n
  BY <1>1
<1> QED
  BY <1>8, <1>9, <1>10

\* The beginning of a buffer is written: its bytes are those of whole records,
\* unless they are the last ones of this thread.
LEMMA BlockWritten ==
  ASSUME AtomicInv, NEW t \in Threads, writerState[t] = "open", ~halted,
         NEW n \in 0..Len(buf[t]), atomicFile' = atomicFile \o SubSeq(buf[t], 1, n),
         \A u \in Threads : u # t => sent'[u] = sent[u] /\ writerState'[u] = writerState[u],
         \/ n = Len(buf[t]) /\ Finished(buf[t])
         \/ n < Len(buf[t]) /\ writerState'[t] # "open" /\ sent'[t] = sent[t]
         \/ halted'
  PROVE  /\ atomicFile' \in Seq(Bytes)
         /\ n = Len(buf[t]) => A!BytesOf(t, atomicFile)' = sent[t]
         /\ A!IsPrefix(A!BytesOf(t, atomicFile)', sent[t])
         /\ \A u \in Threads : u # t => A!BytesOf(u, atomicFile)' = A!BytesOf(u, atomicFile)
         /\ A!RecordsWhole'
<1>1. /\ atomicFile \in Seq(Bytes) /\ buf[t] \in Seq(Bytes) /\ n \in Nat
      /\ Chained(buf[t]) /\ \A j \in DOMAIN buf[t] : buf[t][j][1] = t
      /\ A!BytesOf(t, atomicFile) \o buf[t] = sent[t]
  BY DEF AtomicInv, AtomicTypes, ThreadOK, BufferOK, Kept
<1> DEFINE file == atomicFile
           new == atomicFile'
           l == Len(file)
<1>2. /\ new \in Seq(Bytes) /\ l \in Nat /\ Len(new) = l + n
      /\ \A k \in 1..l : new[k] = file[k]
      /\ \A u : u # t => A!BytesOf(u, new) = A!BytesOf(u, file)
      /\ n = Len(buf[t]) => A!BytesOf(t, new) = sent[t]
      /\ n < Len(buf[t]) => Len(A!BytesOf(t, new)) < Len(sent[t])
      /\ A!IsPrefix(A!BytesOf(t, new), sent[t])
  <2>1. IsWritten(new, file, buf[t], n, t)
    BY <1>1 DEF IsWritten
  <2> HIDE DEF file, new
  <2>2. sent[t] = A!BytesOf(t, file) \o buf[t]
    BY <1>1 DEF file
  <2>3. /\ new \in Seq(Bytes) /\ Len(file) \in Nat /\ Len(new) = Len(file) + n
        /\ \A k \in 1..Len(file) : new[k] = file[k]
    BY <2>1, BlockFacts
  <2>4. \A u : u # t => A!BytesOf(u, new) = A!BytesOf(u, file)
    BY <2>1, BlockFacts
  <2>5. /\ n = Len(buf[t]) => A!BytesOf(t, new) = sent[t]
        /\ n < Len(buf[t]) => Len(A!BytesOf(t, new)) < Len(sent[t])
        /\ A!IsPrefix(A!BytesOf(t, new), sent[t])
    BY <2>1, <2>2, BlockOwn
  <2> QED
    BY <2>3, <2>4, <2>5
<1> DEFINE Torn(k) == \/ /\ writerState'[new[k][1]] # "open"
                         /\ Len(A!BytesOf(new[k][1], new)) < Len(sent'[new[k][1]])
                      \/ halted'
           Back(k) == new[k][3] > 1 =>
             k > 1 /\ new[k - 1] = <<new[k][1], new[k][2], new[k][3] - 1, new[k][4]>>
           Forth(k) == \/ new[k][3] = new[k][4]
                       \/ /\ k < Len(new)
                          /\ new[k + 1] = <<new[k][1], new[k][2], new[k][3] + 1, new[k][4]>>
<1>3. ASSUME NEW k \in 1..l
      PROVE  Back(k) /\ (Forth(k) \/ Torn(k))
  <2>1. DOMAIN file = 1..l /\ file[k] \in Bytes
    BY <1>1
  <2>2. file[k][1] \in Threads
    BY <2>1, ByteIs
  <2>3. /\ file[k][3] > 1 => /\ k > 1
                             /\ file[k - 1] = <<file[k][1], file[k][2], file[k][3] - 1, file[k][4]>>
        /\ \/ file[k][3] = file[k][4]
           \/ k < l /\ file[k + 1] = <<file[k][1], file[k][2], file[k][3] + 1, file[k][4]>>
           \/ /\ writerState[file[k][1]] # "open"
              /\ Len(A!BytesOf(file[k][1], file)) < Len(sent[file[k][1]])
    BY <2>1 DEF AtomicInv, A!RecordsWhole
  <2> HIDE DEF file, new, l
  <2>4. /\ new[k] = file[k]
        /\ k > 1 => new[k - 1] = file[k - 1]
        /\ k < l => k < Len(new) /\ new[k + 1] = file[k + 1]
    <3>1. (k > 1 => k - 1 \in 1..l) /\ (k < l => k + 1 \in 1..l /\ k < l + n)
      BY <1>1, <1>2
    <3> QED
      BY <1>2, <3>1
  <2>5. ASSUME writerState[file[k][1]] # "open",
               Len(A!BytesOf(file[k][1], file)) < Len(sent[file[k][1]])
        PROVE  Torn(k)
    <3>1. file[k][1] # t
      BY <2>5
    <3> QED
      BY <1>2, <2>2, <2>4, <2>5, <3>1
  <2> HIDE DEF Torn
  <2> QED
    BY <2>3, <2>4, <2>5
<1>4. ASSUME NEW k \in (l + 1)..Len(new)
      PROVE  Back(k) /\ (Forth(k) \/ Torn(k))
  <2>1. /\ new[k][1] = t /\ Back(k)
        /\ Forth(k) \/ n < Len(buf[t]) \/ ~Finished(buf[t])
    <3>1. IsWritten(new, file, buf[t], n, t)
      BY <1>1 DEF IsWritten
    <3> HIDE DEF file, new
    <3> QED
      BY <1>1, <3>1, BlockLinked
  <2>2. n < Len(buf[t]) \/ ~Finished(buf[t]) => Torn(k)
    <3> HIDE DEF new
    <3>1. Len(buf[t]) \in Nat
      BY <1>1
    <3>2. CASE n = Len(buf[t]) /\ Finished(buf[t])
      BY <1>1, <3>1, <3>2
    <3>3. CASE n < Len(buf[t]) /\ writerState'[t] # "open" /\ sent'[t] = sent[t]
      BY <1>2, <2>1, <3>3
    <3> QED
      BY <3>2, <3>3
  <2> HIDE DEF Back, Forth, Torn
  <2> QED
    BY <2>1, <2>2
<1>5. \A k \in 1..Len(new) : Back(k) /\ (Forth(k) \/ Torn(k))
  <2> HIDE DEF Back, Forth, Torn, l, new
  <2>1. \A k \in 1..Len(new) : k \in 1..l \/ k \in (l + 1)..Len(new)
    BY <1>1, <1>2
  <2> QED
    BY <1>3, <1>4, <2>1
<1>6. A!RecordsWhole'
  <2>1. DOMAIN new = 1..Len(new)
    BY <1>2
  <2> QED
    BY <1>5, <2>1 DEF A!RecordsWhole
<1> QED
  BY <1>2, <1>6

\* The next byte of a record continues the buffer.
LEMMA NextByteOK ==
  ASSUME AtomicInv, NEW t \in Threads, writerState[t] = "open", ~halted, left[t] # <<>>
  PROVE  LET b == A!NextByte(t)
         IN  /\ b \in Bytes /\ b[1] = t /\ b[3] = left[t][1] /\ b[4] = left[t][2]
             /\ left[t] \in Nat \X Nat /\ b[3] \in 1..b[4]
             /\ \/ b[3] = 1 /\ Finished(buf[t])
                \/ buf[t] # <<>> /\ buf[t][Len(buf[t])] = <<b[1], b[2], b[3] - 1, b[4]>>
             /\ sent'[t] = Append(sent[t], b) => A!Number(t)' = b[2]
<1> DEFINE b == A!NextByte(t)
           i == left[t][1]
           len1 == left[t][2]
           N == A!Number(t)
<1>1. /\ left[t] \in Nat \X Nat /\ i \in Nat /\ len1 \in Nat /\ i \in 1..len1
      /\ sent[t] \in Seq(Bytes)
      /\ i = 1 => Finished(buf[t])
      /\ i > 1 => buf[t] # <<>> /\ buf[t][Len(buf[t])] = <<t, N, i - 1, len1>>
  BY DEF AtomicInv, AtomicTypes, ThreadOK, BufferOK
<1>2. N \in Nat
  <2>1. \E c \in Threads \X Nat \X Nat \X Nat : TRUE
    <3>1. <<t, 0, 0, 0>> \in Threads \X Nat \X Nat \X Nat
      OBVIOUS
    <3> QED
      BY <3>1
  <2> QED
    BY <1>1, <2>1, NumberCounts DEF A!Number, Bytes
<1>3. b = <<t, IF i = 1 THEN N + 1 ELSE N, i, len1>>
  BY DEF A!NextByte
<1> HIDE DEF N
<1>4. /\ b \in Bytes /\ b[1] = t /\ b[3] = i /\ b[4] = len1
      /\ i = 1 => b[2] = N + 1
      /\ i # 1 => b[2] = N
  BY <1>1, <1>2, <1>3 DEF Bytes
<1> HIDE DEF b
<1>5. ASSUME sent'[t] = Append(sent[t], b)
      PROVE  A!Number(t)' = b[2]
  <2>1. A!Number(t)' = A!Cardinality({k \in DOMAIN Append(sent[t], b) :
                                         Append(sent[t], b)[k][3] = 1})
    BY <1>5 DEF A!Number
  <2>2. N = A!Cardinality({k \in DOMAIN sent[t] : sent[t][k][3] = 1})
    BY DEF N, A!Number
  <2> QED
    BY <1>1, <1>4, <2>1, <2>2, NumberCounts
<1>6. \/ b[3] = 1 /\ Finished(buf[t])
      \/ buf[t] # <<>> /\ buf[t][Len(buf[t])] = <<b[1], b[2], b[3] - 1, b[4]>>
  BY <1>1, <1>4
<1> QED
  BY <1>1, <1>4, <1>5, <1>6 DEF b

\* The rest of a record, a pair, is not the mark of no record.
LEMMA PairNotEmpty == \A a, b : <<a, b>> # <<>>
<1>1. \A a, b : Len(<<a, b>>) = 2 /\ Len(<<>>) = 0
  OBVIOUS
<1> QED
  BY <1>1

\* Advance sends the next byte of a record and is done with the record after
\* the last one.
LEMMA AdvanceFacts ==
  ASSUME AtomicInv, NEW t \in Threads, writerState[t] = "open", ~halted, left[t] # <<>>,
         A!Advance(t)
  PROVE  /\ sent' \in [Threads -> Seq(Bytes)]
         /\ sent'[t] = Append(sent[t], A!NextByte(t)) /\ A!Number(t)' = A!NextByte(t)[2]
         /\ \A u \in Threads : u # t => sent'[u] = sent[u] /\ left'[u] = left[u]
         /\ left' \in [Threads -> {<<>>} \cup (Nat \X Nat)]
         /\ left[t][1] = left[t][2] => left'[t] = <<>>
         /\ left[t][1] # left[t][2] => /\ left'[t] = <<left[t][1] + 1, left[t][2]>>
                                       /\ left'[t] # <<>>
<1> DEFINE b == A!NextByte(t)
           next == IF left[t][1] = left[t][2] THEN <<>> ELSE <<left[t][1] + 1, left[t][2]>>
<1>1. b \in Bytes /\ left[t] \in Nat \X Nat
  BY NextByteOK
<1>2. sent \in [Threads -> Seq(Bytes)] /\ left \in [Threads -> {<<>>} \cup (Nat \X Nat)]
  BY DEF AtomicInv, AtomicTypes
<1>3. sent' = [sent EXCEPT ![t] = Append(sent[t], b)] /\ left' = [left EXCEPT ![t] = next]
  BY DEF A!Advance
<1>4. /\ left[t][1] = left[t][2] => next = <<>>
      /\ left[t][1] # left[t][2] => next = <<left[t][1] + 1, left[t][2]>>
  OBVIOUS
<1> HIDE DEF b, next
<1>5. Append(sent[t], b) \in Seq(Bytes)
  BY <1>1, <1>2
<1>6. sent' \in [Threads -> Seq(Bytes)] /\ sent'[t] = Append(sent[t], b)
  BY <1>2, <1>3, <1>5
<1>7. A!Number(t)' = b[2]
  BY <1>6, NextByteOK DEF b
<1>8. next \in {<<>>} \cup (Nat \X Nat)
  <2>1. CASE left[t][1] = left[t][2]
    BY <1>4, <2>1
  <2>2. CASE left[t][1] # left[t][2]
    BY <1>1, <1>4, <2>2
  <2> QED
    BY <2>1, <2>2
<1>9. left' \in [Threads -> {<<>>} \cup (Nat \X Nat)] /\ left'[t] = next
  BY <1>2, <1>3, <1>8
<1>10. \A u \in Threads : u # t => sent'[u] = sent[u] /\ left'[u] = left[u]
  BY <1>2, <1>3
<1> QED
  BY <1>4, <1>6, <1>7, <1>9, <1>10, PairNotEmpty, ZenonT(60) DEF b

\* A byte is added to the buffer, or to the one just written.
LEMMA BufferAdvanced ==
  ASSUME AtomicInv, NEW t \in Threads, writerState[t] = "open", ~halted, left[t] # <<>>,
         A!Advance(t), NEW s, s = buf[t] \/ (s = <<>> /\ left[t][1] = 1),
         buf'[t] = Append(s, A!NextByte(t))
  PROVE  BufferOK(t)' /\ buf'[t] \in Seq(Bytes) /\ Len(buf'[t]) = Len(s) + 1 /\ Len(s) \in Nat
<1> DEFINE b == A!NextByte(t)
           new == buf'[t]
<1>1. /\ b \in Bytes /\ b[1] = t /\ b[3] = left[t][1] /\ b[4] = left[t][2]
      /\ b[3] \in 1..b[4] /\ left[t] \in Nat \X Nat
      /\ \/ b[3] = 1 /\ Finished(buf[t])
         \/ buf[t] # <<>> /\ buf[t][Len(buf[t])] = <<b[1], b[2], b[3] - 1, b[4]>>
  BY NextByteOK
<1>2. /\ A!Number(t)' = b[2]
      /\ left[t][1] = left[t][2] => left'[t] = <<>>
      /\ left[t][1] # left[t][2] => /\ left'[t] = <<left[t][1] + 1, left[t][2]>>
                                    /\ left'[t] # <<>>
  BY AdvanceFacts
<1>3. new = Append(s, b)
  OBVIOUS
<1>4. buf[t] \in Seq(Bytes) /\ Chained(buf[t]) /\ \A j \in DOMAIN buf[t] : buf[t][j][1] = t
  BY DEF AtomicInv, AtomicTypes, ThreadOK, BufferOK
<1> HIDE DEF b, new
<1>5. /\ s \in Seq(Bytes) /\ Chained(s) /\ \A j \in DOMAIN s : s[j][1] = t
      /\ \/ b[3] = 1 /\ Finished(s)
         \/ s # <<>> /\ s[Len(s)] = <<b[1], b[2], b[3] - 1, b[4]>>
  <2>1. CASE s = buf[t]
    BY <1>1, <1>4, <2>1
  <2>2. CASE s = <<>> /\ left[t][1] = 1
    BY <1>1, <2>2, ChainedEmpty
  <2> QED
    BY <2>1, <2>2
<1>6. Chained(new)
  BY <1>1, <1>3, <1>5, ChainedAppend
<1>7. /\ new \in Seq(Bytes) /\ Len(new) = Len(s) + 1 /\ Len(s) \in Nat
      /\ DOMAIN new = 1..(Len(s) + 1) /\ DOMAIN s = 1..Len(s)
      /\ \A j \in 1..Len(s) : new[j] = s[j]
      /\ new[Len(s) + 1] = b
  <2>1. s \in Seq(Bytes) /\ b \in Bytes
    BY <1>1, <1>5
  <2> QED
    BY <1>3, <2>1
<1>8. \A j \in DOMAIN new : new[j][1] = t
  <2> SUFFICES ASSUME NEW j \in 1..(Len(s) + 1) PROVE new[j][1] = t
    BY <1>7
  <2>1. CASE j = Len(s) + 1
    BY <1>1, <1>7, <2>1
  <2>2. CASE j # Len(s) + 1
    <3>1. j \in 1..Len(s)
      BY <1>7, <2>2
    <3> QED
      BY <1>5, <1>7, <3>1
  <2> QED
    BY <2>1, <2>2
<1>9. new # <<>> /\ new[Len(new)] = b
  BY <1>7
<1>10. b = <<t, b[2], b[3], b[4]>>
  BY <1>1, ByteIs
<1>11. CASE left[t][1] = left[t][2]
  <2>1. left'[t] = <<>> /\ Finished(new)
    BY <1>1, <1>2, <1>9, <1>11 DEF Finished
  <2> QED
    BY <1>6, <1>7, <1>8, <2>1 DEF BufferOK, new
<1>12. CASE left[t][1] # left[t][2]
  <2> DEFINE l2 == left'[t]
  <2>1. l2 = <<left[t][1] + 1, left[t][2]>> /\ l2 # <<>> /\ left[t][1] \in Nat /\ left[t][2] \in Nat
    BY <1>1, <1>2, <1>12
  <2>2. l2[1] = left[t][1] + 1 /\ l2[2] = left[t][2]
    BY <2>1
  <2>3. l2[1] \in 1..l2[2] /\ l2[1] > 1 /\ l2[1] - 1 = b[3] /\ l2[1] # 1
    BY <1>1, <1>12, <2>1, <2>2
  <2>4. new[Len(new)] = <<t, A!Number(t)', l2[1] - 1, l2[2]>>
    BY <1>1, <1>2, <1>9, <1>10, <2>2, <2>3
  <2> QED
    BY <1>6, <1>7, <1>8, <1>9, <2>1, <2>3, <2>4 DEF BufferOK, new
<1> QED
  BY <1>11, <1>12

\* The byte is kept by the file and the buffer together.
LEMMA ByteKept ==
  ASSUME NEW w \in Seq(Bytes), NEW s \in Seq(Bytes), NEW b \in Bytes
  PROVE  w \o Append(s, b) = Append(w \o s, b) /\ w \o s \in Seq(Bytes)
  OBVIOUS

\* Two multiples of the length of a record are a whole number of records
\* apart.
LEMMA MultipleIs ==
  ASSUME NEW m \in Nat, NEW q \in Nat, NEW r \in Nat \ {0}, NEW j \in 0..(r - 1), m * r = q * r + j
  PROVE  j = 0
<1>1. (m - q) * r = j
  OBVIOUS
<1>2. m - q >= 1 => (m - q) * r >= r
  OBVIOUS
<1>3. m - q <= -1 => (m - q) * r <= -r
  OBVIOUS
<1> QED
  BY <1>1, <1>2, <1>3

\* The file has not changed, as far as thread u is concerned.
LEMMA SameFile ==
  ASSUME atomicFile' = atomicFile
  PROVE  /\ \A u : A!BytesOf(u, atomicFile)' = A!BytesOf(u, atomicFile)
         /\ \A u : A!BytesOf(u, atomicFile') = A!BytesOf(u, atomicFile)
  OBVIOUS

\* RecordsWhole depends on what a thread has put only when it is not open.
LEMMA SameWhole ==
  ASSUME AtomicInv, NEW t \in Threads, writerState[t] = "open" \/ sent'[t] = sent[t],
         ~halted, atomicFile' = atomicFile,
         \A u \in Threads : /\ u # t => sent'[u] = sent[u]
                            /\ writerState[u] # "open" => writerState'[u] # "open"
  PROVE  A!RecordsWhole'
<1> SUFFICES ASSUME NEW k \in DOMAIN atomicFile
             PROVE  LET b == atomicFile[k] IN
                    /\ b[3] > 1 => /\ k > 1
                                   /\ atomicFile[k - 1] = <<b[1], b[2], b[3] - 1, b[4]>>
                    /\ \/ b[3] = b[4]
                       \/ /\ k < Len(atomicFile)
                          /\ atomicFile[k + 1] = <<b[1], b[2], b[3] + 1, b[4]>>
                       \/ /\ writerState'[b[1]] # "open"
                          /\ Len(A!BytesOf(b[1], atomicFile)) < Len(sent'[b[1]])
                       \/ halted'
  BY DEF A!RecordsWhole
<1> DEFINE b == atomicFile[k]
<1>1. b[1] \in Threads
  <2>1. b \in Bytes
    BY DEF AtomicInv, AtomicTypes
  <2> QED
    BY <2>1, ByteIs
<1>2. /\ b[3] > 1 => k > 1 /\ atomicFile[k - 1] = <<b[1], b[2], b[3] - 1, b[4]>>
      /\ \/ b[3] = b[4]
         \/ k < Len(atomicFile) /\ atomicFile[k + 1] = <<b[1], b[2], b[3] + 1, b[4]>>
         \/ /\ writerState[b[1]] # "open"
            /\ Len(A!BytesOf(b[1], atomicFile)) < Len(sent[b[1]])
  BY DEF AtomicInv, A!RecordsWhole
<1>3. writerState[b[1]] # "open" => writerState'[b[1]] # "open" /\ sent'[b[1]] = sent[b[1]]
  BY <1>1
<1> HIDE DEF b
<1>4. \/ b[3] = b[4]
      \/ k < Len(atomicFile) /\ atomicFile[k + 1] = <<b[1], b[2], b[3] + 1, b[4]>>
      \/ /\ writerState'[b[1]] # "open"
         /\ Len(A!BytesOf(b[1], atomicFile)) < Len(sent'[b[1]])
  BY <1>2, <1>3
<1> QED
  BY <1>2, <1>4 DEF b

\* A thread starts a record: its buffer ends with the last byte of the
\* previous one.
LEMMA StartRecordStep ==
  ASSUME AtomicInv, NEW t \in Threads, NEW n, A!StartRecord(t, n),
         n \in IF A!Locked THEN AtomicLens ELSE {recordLen}
  PROVE  AtomicInv'
<1> USE DEF A!StartRecord
<1>0. /\ writerState[t] = "open" /\ ~halted /\ ~halted' /\ left[t] = <<>>
      /\ left' = [left EXCEPT ![t] = <<1, n>>]
      /\ UNCHANGED <<recordLen, useCount, fd, atomicFile, buf, cap, slack, sent, writerState, reg>>
  BY DEF A!Running
<1>1. n \in Nat /\ n >= 1 /\ (recordLen > 0 => n = recordLen)
  BY AtomicAssumption DEF AtomicInv, AtomicTypes, A!Locked
<1>2. AtomicTypes'
  BY <1>0, <1>1 DEF AtomicInv, AtomicTypes
<1>3. /\ left'[t] = <<1, n>> /\ left'[t] # <<>> /\ left'[t][1] = 1 /\ left'[t][2] = n
      /\ \A u \in Threads : u # t => left'[u] = left[u]
  BY <1>0, PairNotEmpty DEF AtomicInv, AtomicTypes
<1>4. BufferOK(t)'
  BY <1>0, <1>1, <1>3 DEF AtomicInv, ThreadOK, BufferOK
<1>5. ASSUME recordLen > 0 PROVE FixedOK(t)'
  <2>1. FixedOK(t)
    BY <1>0, <1>5 DEF AtomicInv, ThreadOK
  <2>2. PICK q \in Nat : Len(buf[t]) = q * recordLen
    BY <1>0, <2>1 DEF FixedOK
  <2>3. Len(buf[t]) = q * recordLen + (1 - 1)
    BY <2>2 DEF AtomicInv, AtomicTypes
  <2> QED
    BY <1>0, <1>1, <1>3, <1>5, <2>1, <2>3 DEF FixedOK
<1>6. ASSUME recordLen < 0 PROVE RoomOK(t)'
  <2>1. RoomOK(t)
    BY <1>6 DEF AtomicInv, ThreadOK
  <2>2. Len(buf[t]) < cap[t] - slack[t] /\ Len(buf[t]) \in Nat
    BY <1>6 DEF A!Locked, A!ExpectedMax, AtomicInv, AtomicTypes
  <2> QED
    BY <1>0, <1>3, <1>6, <2>1, <2>2, AtomicAssumption DEF RoomOK, AtomicInv, AtomicTypes
<1>7. Kept(t)' /\ Grown(t)'
  BY <1>0, SameFile DEF AtomicInv, ThreadOK, Kept, Grown
<1>8. ThreadOK(t)'
  BY <1>0, <1>4, <1>5, <1>6, <1>7 DEF ThreadOK
<1>9. CountOK'
  BY <1>0 DEF AtomicInv, CountOK, Users
<1>10. A!RecordsWhole'
  BY <1>0, SameWhole
<1> QED
  BY <1>0, <1>2, <1>3, <1>8, <1>9, <1>10, SameFile, ThreadStep

\* A byte of a record more in the buffer does not move the start of the
\* record.
LEMMA SameStart ==
  ASSUME NEW i \in Nat, NEW n \in Nat, NEW i2, i2 = i + 1, NEW n2, n2 = n + 1
  PROVE  n2 - (i2 - 1) = n - (i - 1)
  OBVIOUS

\* A byte is added to the buffer.
LEMMA GrowStep ==
  ASSUME AtomicInv, NEW t \in Threads, writerState[t] = "open", ~halted, left[t] # <<>>,
         A!Advance(t), buf' = [buf EXCEPT ![t] = Append(buf[t], A!NextByte(t))],
         cap' \in [Threads -> Nat], slack' \in [Threads -> Nat],
         \A u \in Threads : u # t => cap'[u] = cap[u] /\ slack'[u] = slack[u],
         recordLen > 0 => cap'[t] = cap[t],
         recordLen < 0 => \/ cap'[t] = cap[t] /\ slack'[t] = slack[t]
                          \/ /\ cap'[t] > BufSize /\ slack'[t] > 0
                             /\ cap[t] > BufSize \/ left[t][2] > -recordLen,
         UNCHANGED <<recordLen, useCount, fd, atomicFile, writerState, reg, halted>>
  PROVE  AtomicInv'
<1> DEFINE b == A!NextByte(t)
           new == buf'[t]
           l == left[t]
           l2 == left'[t]
<1>1. /\ b \in Bytes /\ b[4] = l[2] /\ l \in Nat \X Nat /\ l[1] \in 1..l[2]
  BY NextByteOK
<1>2. /\ sent' \in [Threads -> Seq(Bytes)] /\ sent'[t] = Append(sent[t], b)
      /\ \A u \in Threads : u # t => sent'[u] = sent[u] /\ left'[u] = left[u]
      /\ left' \in [Threads -> {<<>>} \cup (Nat \X Nat)]
      /\ l[1] = l[2] => l2 = <<>>
      /\ l[1] # l[2] => l2 = <<l[1] + 1, l[2]>> /\ l2 # <<>>
  BY AdvanceFacts
<1>3. /\ buf \in [Threads -> Seq(Bytes)] /\ sent[t] \in Seq(Bytes) /\ buf[t] \in Seq(Bytes)
      /\ new = Append(buf[t], b) /\ \A u \in Threads : u # t => buf'[u] = buf[u]
  BY DEF AtomicInv, AtomicTypes
<1>4. BufferOK(t)' /\ new \in Seq(Bytes) /\ Len(new) = Len(buf[t]) + 1 /\ Len(buf[t]) \in Nat
  BY <1>3, BufferAdvanced
<1> HIDE DEF b
<1>5. buf' \in [Threads -> Seq(Bytes)]
  BY <1>3, <1>4
<1>6. AtomicTypes'
  BY <1>2, <1>5 DEF AtomicInv, AtomicTypes
<1>7. ASSUME recordLen > 0 PROVE FixedOK(t)'
  <2>1. FixedOK(t) /\ recordLen \in Nat \ {0} /\ recordLen' = recordLen
    BY <1>7 DEF AtomicInv, AtomicTypes, ThreadOK
  <2>2. PICK m \in Nat : cap[t] = m * recordLen
    BY <2>1 DEF FixedOK
  <2>3. l[2] = recordLen /\ l[1] \in Nat
    BY <1>1, <2>1 DEF FixedOK
  <2>4. PICK q \in Nat : Len(buf[t]) = q * recordLen + (l[1] - 1)
    BY <2>1 DEF FixedOK
  <2>5. Len(new) = q * recordLen + l[1]
    BY <1>4, <2>1, <2>3, <2>4
  <2>6. \E m1 \in Nat : cap'[t] = m1 * recordLen'
    BY <1>7, <2>2
  <2>7. CASE l[1] = l[2]
    <3>1. q + 1 \in Nat /\ Len(new) = (q + 1) * recordLen
      BY <2>1, <2>3, <2>5, <2>7
    <3> QED
      BY <1>2, <2>1, <2>6, <2>7, <3>1 DEF FixedOK
  <2>8. CASE l[1] # l[2]
    <3>1. l2[1] = l[1] + 1 /\ l2[2] = l[2] /\ l2 # <<>>
      BY <1>2, <2>8
    <3>2. Len(new) = q * recordLen + (l2[1] - 1)
      BY <2>1, <2>3, <2>5, <3>1
    <3> QED
      BY <2>1, <2>3, <2>6, <3>1, <3>2 DEF FixedOK
  <2> QED
    BY <2>7, <2>8
<1>8. ASSUME recordLen < 0 PROVE RoomOK(t)'
  <2>1. RoomOK(t) /\ cap[t] \in Nat /\ BufSize \in Nat /\ cap'[t] \in Nat /\ recordLen \in Int
    BY <1>8, AtomicAssumption DEF AtomicInv, AtomicTypes, ThreadOK
  <2>2. CASE cap'[t] = cap[t] /\ slack'[t] = slack[t]
    <3>1. l2 # <<>> => l2[1] = l[1] + 1
      BY <1>2
    <3>2. ASSUME l2 # <<>> PROVE Len(new) - (l2[1] - 1) = Len(buf[t]) - (l[1] - 1)
      <4>1. l[1] \in Nat /\ Len(buf[t]) \in Nat /\ Len(new) = Len(buf[t]) + 1
        BY <1>1, <1>4
      <4>2. l2[1] = l[1] + 1
        BY <3>1, <3>2
      <4> DEFINE i == l[1]
                 i2 == l2[1]
                 n == Len(buf[t])
                 n2 == Len(new)
      <4>3. i \in Nat /\ n \in Nat /\ n2 = n + 1 /\ i2 = i + 1
        BY <4>1, <4>2
      <4> HIDE DEF i, i2, n, n2
      <4>4. n2 - (i2 - 1) = n - (i - 1)
        BY <4>3, SameStart
      <4> QED
        BY <4>4 DEF i, i2, n, n2
    <3> QED
      BY <2>1, <2>2, <3>2 DEF RoomOK
  <2>3. CASE cap'[t] > BufSize /\ slack'[t] > 0
    BY <2>1, <2>3 DEF RoomOK
  <2> QED
    BY <1>8, <2>2, <2>3
<1>9. Kept(t)'
  <2> DEFINE w == A!BytesOf(t, atomicFile)
  <2>1. w \in Seq(Bytes) /\ w \o buf[t] = sent[t]
    BY BytesOfType DEF AtomicInv, AtomicTypes, ThreadOK, Kept
  <2>2. A!BytesOf(t, atomicFile)' = w
    BY SameFile
  <2> HIDE DEF w
  <2>3. w \o Append(buf[t], b) = Append(w \o buf[t], b)
    BY <1>1, <1>3, <2>1, ByteKept
  <2>4. w \o new = sent'[t]
    BY <1>2, <1>3, <2>1, <2>3
  <2>5. A!IsPrefix(w, w \o new)
    BY <1>4, <2>1, PrefixIs
  <2> QED
    BY <2>2, <2>4, <2>5 DEF Kept
<1>10. Grown(t)'
  <2> SUFFICES ASSUME recordLen < 0, cap'[t] > BufSize
               PROVE  \E k \in DOMAIN sent'[t] : sent'[t][k][4] > -recordLen
    BY DEF Grown
  <2> DEFINE s == sent[t]
             s2 == sent'[t]
  <2>1. /\ Len(s) \in Nat /\ DOMAIN s2 = 1..(Len(s) + 1) /\ DOMAIN s = 1..Len(s)
        /\ \A k \in 1..Len(s) : s2[k] = s[k]
        /\ s2[Len(s) + 1] = b
    BY <1>1, <1>2, <1>3
  <2> HIDE DEF s, s2
  <2>2. CASE cap[t] > BufSize
    <3>1. PICK k \in DOMAIN s : s[k][4] > -recordLen
      BY <2>2 DEF AtomicInv, ThreadOK, Grown, s
    <3>2. k \in DOMAIN s2 /\ s2[k] = s[k]
      BY <2>1, <3>1
    <3> QED
      BY <3>1, <3>2 DEF s2
  <2>3. CASE left[t][2] > -recordLen
    <3>1. Len(s) + 1 \in DOMAIN s2 /\ s2[Len(s) + 1][4] > -recordLen
      BY <1>1, <2>1, <2>3
    <3> QED
      BY <3>1 DEF s2
  <2> QED
    BY <2>2, <2>3
<1>11. ThreadOK(t)'
  BY <1>4, <1>7, <1>8, <1>9, <1>10 DEF ThreadOK
<1>12. CountOK'
  BY DEF AtomicInv, CountOK, Users
<1>13. A!RecordsWhole'
  BY <1>2, SameWhole
<1> QED
  BY <1>2, <1>3, <1>6, <1>11, <1>12, <1>13, SameFile, ThreadStep

\* bput() finds room in the buffer.
LEMMA PutStep ==
  ASSUME AtomicInv, NEW t \in Threads, A!Put(t)
  PROVE  AtomicInv'
<1>1. /\ writerState[t] = "open" /\ ~halted /\ left[t] # <<>> /\ A!Advance(t)
      /\ buf' = [buf EXCEPT ![t] = Append(buf[t], A!NextByte(t))]
      /\ UNCHANGED <<recordLen, useCount, fd, atomicFile, cap, slack, writerState, reg, halted>>
  BY DEF A!Put, A!Running
<1>2. cap \in [Threads -> Nat] /\ slack \in [Threads -> Nat]
  BY DEF AtomicInv, AtomicTypes
<1> QED
  BY <1>1, <1>2, GrowStep

\* fbatomic_spout() enlarges a full buffer inside of a record.
LEMMA SpoutLockedStep ==
  ASSUME AtomicInv, NEW t \in Threads, A!Spout(t), A!Locked
  PROVE  AtomicInv'
<1>1. /\ writerState[t] = "open" /\ ~halted /\ left[t] # <<>> /\ A!Advance(t)
      /\ Len(buf[t]) = cap[t] /\ recordLen < 0
      /\ buf' = [buf EXCEPT ![t] = Append(buf[t], A!NextByte(t))]
      /\ cap' = [cap EXCEPT ![t] = cap[t] + slack[t]]
      /\ slack' = [slack EXCEPT ![t] = 2 * slack[t]]
      /\ UNCHANGED <<recordLen, useCount, fd, atomicFile, writerState, reg, halted>>
  BY DEF A!Spout, A!Running, A!Locked
<1>2. /\ cap \in [Threads -> Nat] /\ slack \in [Threads -> Nat] /\ RoomOK(t)
      /\ recordLen \in Int /\ BufSize \in Nat
  BY <1>1, AtomicAssumption DEF AtomicInv, AtomicTypes, ThreadOK
<1>3. cap' \in [Threads -> Nat] /\ slack' \in [Threads -> Nat]
  BY <1>1, <1>2
<1>4. cap'[t] > BufSize /\ slack'[t] > 0
  BY <1>1, <1>2 DEF RoomOK
<1>5. cap[t] > BufSize \/ left[t][2] > -recordLen
  <2>1. left[t] \in Nat \X Nat /\ left[t][1] \in 1..left[t][2]
    BY <1>1, NextByteOK
  <2> QED
    BY <1>1, <1>2, <2>1 DEF RoomOK
<1>6. \A u \in Threads : u # t => cap'[u] = cap[u] /\ slack'[u] = slack[u]
  BY <1>1, <1>2
<1>7. ~(recordLen > 0)
  BY <1>1, <1>2
<1> QED
  BY <1>1, <1>3, <1>4, <1>5, <1>6, <1>7, GrowStep

\* The whole buffer is written, and a byte put in the empty one.
LEMMA SpoutFixedStep ==
  ASSUME AtomicInv, NEW t \in Threads, A!Spout(t), ~A!Locked
  PROVE  AtomicInv'
<1> DEFINE b == A!NextByte(t)
           l == left[t]
           l2 == left'[t]
<1>1. /\ writerState[t] = "open" /\ ~halted /\ left[t] # <<>> /\ A!Advance(t)
      /\ Len(buf[t]) = cap[t] /\ ~(recordLen < 0)
      /\ atomicFile' = atomicFile \o buf[t]
      /\ buf' = [buf EXCEPT ![t] = <<b>>]
      /\ UNCHANGED <<recordLen, useCount, fd, cap, slack, writerState, reg, halted>>
  BY DEF A!Spout, A!Running, A!Locked, A!InternalWrite
<1>2. /\ recordLen \in Nat \ {0} /\ recordLen > 0 /\ FixedOK(t)
      /\ buf \in [Threads -> Seq(Bytes)] /\ buf[t] \in Seq(Bytes)
  BY <1>1 DEF AtomicInv, AtomicTypes, ThreadOK
<1>3. /\ b \in Bytes /\ l \in Nat \X Nat /\ l[1] \in 1..l[2] /\ b[3] = l[1]
      /\ \/ b[3] = 1 /\ Finished(buf[t])
         \/ buf[t] # <<>> /\ buf[t][Len(buf[t])] = <<b[1], b[2], b[3] - 1, b[4]>>
  BY <1>1, NextByteOK
<1>4. l[1] = 1 /\ l[2] = recordLen
  <2>1. PICK m \in Nat : cap[t] = m * recordLen
    BY <1>2 DEF FixedOK
  <2>2. l[2] = recordLen
    BY <1>1, <1>2 DEF FixedOK
  <2>3. PICK q \in Nat : Len(buf[t]) = q * recordLen + (l[1] - 1)
    BY <1>1, <1>2 DEF FixedOK
  <2>4. l[1] - 1 \in 0..(recordLen - 1) /\ m * recordLen = q * recordLen + (l[1] - 1)
    BY <1>1, <1>2, <1>3, <2>1, <2>2, <2>3, SMTT(30)
  <2>5. l[1] - 1 = 0
    BY <1>2, <2>4, MultipleIs
  <2> QED
    BY <1>3, <2>2, <2>5
<1>5. Finished(buf[t])
  BY <1>1, <1>4 DEF AtomicInv, ThreadOK, BufferOK
<1>6. /\ sent' \in [Threads -> Seq(Bytes)] /\ sent'[t] = Append(sent[t], b)
      /\ \A u \in Threads : u # t => sent'[u] = sent[u] /\ left'[u] = left[u]
      /\ left' \in [Threads -> {<<>>} \cup (Nat \X Nat)]
      /\ l[1] = l[2] => l2 = <<>>
      /\ l[1] # l[2] => l2 = <<l[1] + 1, l[2]>> /\ l2 # <<>>
  BY <1>1, AdvanceFacts
<1>7. /\ atomicFile' \in Seq(Bytes)
      /\ A!BytesOf(t, atomicFile)' = sent[t]
      /\ \A u \in Threads : u # t => A!BytesOf(u, atomicFile)' = A!BytesOf(u, atomicFile)
      /\ A!RecordsWhole'
  <2>1. SubSeq(buf[t], 1, Len(buf[t])) = buf[t] /\ Len(buf[t]) \in 0..Len(buf[t])
    BY <1>2
  <2> QED
    BY <1>1, <1>5, <1>6, <2>1, BlockWritten
<1>8. buf'[t] = <<b>> /\ \A u \in Threads : u # t => buf'[u] = buf[u]
  BY <1>1, <1>2
<1>9. BufferOK(t)' /\ buf'[t] \in Seq(Bytes) /\ Len(buf'[t]) = 1
  <2>1. buf'[t] = Append(<<>>, b)
    BY <1>8
  <2>2. BufferOK(t)' /\ buf'[t] \in Seq(Bytes) /\ Len(buf'[t]) = Len(<<>>) + 1
    BY <1>1, <1>4, <2>1, BufferAdvanced
  <2> QED
    BY <2>2
<1> HIDE DEF b
<1>10. buf' \in [Threads -> Seq(Bytes)]
  BY <1>1, <1>2, <1>8, <1>9
<1>11. AtomicTypes'
  BY <1>1, <1>6, <1>7, <1>10 DEF AtomicInv, AtomicTypes
<1>12. FixedOK(t)'
  <2>1. \E m \in Nat : cap'[t] = m * recordLen'
    BY <1>1, <1>2 DEF FixedOK
  <2>2. CASE l[1] = l[2]
    <3>1. l2 = <<>> /\ Len(buf'[t]) = 1 * recordLen
      BY <1>4, <1>6, <1>9, <2>2
    <3> QED
      BY <1>1, <2>1, <3>1 DEF FixedOK
  <2>3. CASE l[1] # l[2]
    <3>1. l2[1] = 2 /\ l2[2] = recordLen /\ l2 # <<>>
      BY <1>4, <1>6, <2>3
    <3>2. Len(buf'[t]) = 0 * recordLen + (l2[1] - 1)
      BY <1>2, <1>9, <3>1
    <3> QED
      BY <1>1, <2>1, <3>1, <3>2 DEF FixedOK
  <2> QED
    BY <2>2, <2>3
<1>13. Kept(t)'
  <2>1. sent[t] \in Seq(Bytes)
    BY DEF AtomicInv, AtomicTypes
  <2>2. sent[t] \o <<b>> = Append(sent[t], b) /\ <<b>> \in Seq(Bytes)
    BY <1>3, <2>1
  <2>3. A!IsPrefix(sent[t], sent[t] \o <<b>>)
    BY <2>1, <2>2, PrefixIs
  <2> QED
    BY <1>6, <1>7, <1>8, <2>2, <2>3 DEF Kept
<1>14. ThreadOK(t)'
  BY <1>1, <1>9, <1>12, <1>13 DEF ThreadOK, Grown
<1>15. CountOK'
  BY <1>1 DEF AtomicInv, CountOK, Users
<1> QED
  BY <1>1, <1>6, <1>7, <1>8, <1>11, <1>14, <1>15, ThreadStep

\* A write fails: the thread is not open any more, or the program has died.
LEMMA FailedWriteStep ==
  ASSUME AtomicInv, NEW t \in Threads, writerState[t] = "open", ~halted,
         NEW n \in 0..(Len(buf[t]) - 1), atomicFile' = atomicFile \o SubSeq(buf[t], 1, n),
         NEW s, buf' = [buf EXCEPT ![t] = s],
         \/ s = <<>> /\ writerState' = [writerState EXCEPT ![t] = "dead"] /\ UNCHANGED halted
         \/ s = buf[t] /\ UNCHANGED writerState /\ halted',
         UNCHANGED <<recordLen, useCount, fd, cap, slack, left, sent, reg>>
  PROVE  AtomicInv'
<1>1. /\ writerState \in [Threads -> {"open", "dead", "closing", "loaded", "closed"}]
      /\ buf \in [Threads -> Seq(Bytes)] /\ buf[t] \in Seq(Bytes)
  BY DEF AtomicInv, AtomicTypes
<1>2. n \in 0..Len(buf[t]) /\ n < Len(buf[t])
  BY <1>1
<1>3. /\ \A u \in Threads : u # t => /\ buf'[u] = buf[u]
                                     /\ writerState'[u] = writerState[u]
      /\ writerState'[t] # "open" \/ halted'
      /\ recordLen' = recordLen
  BY <1>1
<1>4. /\ atomicFile' \in Seq(Bytes)
      /\ A!IsPrefix(A!BytesOf(t, atomicFile)', sent[t])
      /\ \A u \in Threads : u # t => A!BytesOf(u, atomicFile)' = A!BytesOf(u, atomicFile)
      /\ A!RecordsWhole'
  BY <1>2, <1>3, BlockWritten
<1>5. AtomicTypes'
  <2>1. s \in Seq(Bytes)
    <3>1. <<>> \in Seq(Bytes)
      OBVIOUS
    <3> QED
      BY <1>1, <3>1
  <2>2. buf' \in [Threads -> Seq(Bytes)]
    BY <1>1, <2>1
  <2>3. writerState' \in [Threads -> {"open", "dead", "closing", "loaded", "closed"}]
    BY <1>1
  <2> QED
    BY <1>4, <2>2, <2>3 DEF AtomicInv, AtomicTypes
<1>6. recordLen < 0 => RoomOK(t)'
  <2> SUFFICES ASSUME recordLen < 0 PROVE RoomOK(t)'
    OBVIOUS
  <2>1. RoomOK(t)
    BY DEF AtomicInv, ThreadOK
  <2>2. CASE writerState' = [writerState EXCEPT ![t] = "dead"]
    BY <1>1, <2>1, <2>2 DEF RoomOK
  <2>3. CASE UNCHANGED writerState /\ s = buf[t]
    <3>1. buf'[t] = buf[t]
      BY <1>1, <2>3
    <3> QED
      BY <2>1, <2>3, <3>1 DEF RoomOK
  <2> QED
    BY <2>2, <2>3
<1>7. Kept(t)' /\ Grown(t)'
  BY <1>3, <1>4 DEF AtomicInv, ThreadOK, Kept, Grown
<1>8. ThreadOK(t)'
  BY <1>3, <1>6, <1>7 DEF ThreadOK
<1>9. CountOK'
  <2>1. CASE writerState' = [writerState EXCEPT ![t] = "dead"]
    BY <2>1, CountKept
  <2>2. CASE UNCHANGED writerState
    BY <2>2 DEF AtomicInv, CountOK, Users
  <2> QED
    BY <2>1, <2>2
<1> QED
  BY <1>3, <1>4, <1>5, <1>8, <1>9, ThreadStep

\* write() fails in fbatomic_write().
LEMMA WriteFailsStep ==
  ASSUME AtomicInv, NEW t \in Threads, A!Running(t), A!WriteFails(t)
  PROVE  AtomicInv'
<1>1. PICK n \in 0..(Len(buf[t]) - 1) : atomicFile' = atomicFile \o SubSeq(buf[t], 1, n)
  BY DEF A!WriteFails
<1>2. /\ writerState[t] = "open" /\ ~halted
      /\ buf' = [buf EXCEPT ![t] = <<>>]
      /\ writerState' = [writerState EXCEPT ![t] = "dead"]
      /\ UNCHANGED <<recordLen, useCount, fd, cap, slack, left, sent, reg, halted>>
  BY DEF A!WriteFails, A!Running
<1> QED
  BY <1>1, <1>2, FailedWriteStep

\* The last write() of a clone fails.
LEMMA CloseFailsStep ==
  ASSUME AtomicInv, NEW t \in Threads, A!CloseFails(t)
  PROVE  AtomicInv'
<1>1. PICK n \in 0..(Len(buf[t]) - 1) : atomicFile' = atomicFile \o SubSeq(buf[t], 1, n)
  BY DEF A!CloseFails
<1>2. /\ writerState[t] = "open" /\ ~halted /\ halted' /\ UNCHANGED buf
      /\ UNCHANGED <<recordLen, useCount, fd, cap, slack, left, sent, writerState, reg>>
  BY DEF A!CloseFails, A!Running
<1>3. buf' = [buf EXCEPT ![t] = buf[t]]
  BY <1>2 DEF AtomicInv, AtomicTypes
<1> QED
  BY <1>1, <1>2, <1>3, FailedWriteStep

\* The buffer is written between two records.
LEMMA WholeWriteStep ==
  ASSUME AtomicInv, NEW t \in Threads, writerState[t] = "open", ~halted, left[t] = <<>>,
         A!InternalWrite(t, <<>>),
         UNCHANGED writerState \/ writerState' = [writerState EXCEPT ![t] = "closing"],
         UNCHANGED <<recordLen, useCount, fd, cap, slack, left, sent, reg, halted>>
  PROVE  AtomicInv'
<1>1. /\ writerState \in [Threads -> {"open", "dead", "closing", "loaded", "closed"}]
      /\ buf \in [Threads -> Seq(Bytes)] /\ buf[t] \in Seq(Bytes)
      /\ sent[t] \in Seq(Bytes) /\ recordLen \in Int \ {0} /\ BufSize \in Nat
      /\ cap[t] \in Nat /\ slack[t] \in Nat
  BY AtomicAssumption DEF AtomicInv, AtomicTypes
<1>2. atomicFile' = atomicFile \o buf[t] /\ buf' = [buf EXCEPT ![t] = <<>>]
  BY DEF A!InternalWrite
<1>3. /\ buf'[t] = <<>> /\ Len(<<>>) = 0 /\ <<>> \in Seq(Bytes)
      /\ \A u \in Threads : u # t => buf'[u] = buf[u] /\ writerState'[u] = writerState[u]
  BY <1>1, <1>2
<1>4. BufferOK(t) /\ Finished(buf[t])
  BY DEF AtomicInv, ThreadOK, BufferOK
<1>5. /\ atomicFile' \in Seq(Bytes)
      /\ A!BytesOf(t, atomicFile)' = sent[t]
      /\ \A u \in Threads : u # t => A!BytesOf(u, atomicFile)' = A!BytesOf(u, atomicFile)
      /\ A!RecordsWhole'
  <2>1. SubSeq(buf[t], 1, Len(buf[t])) = buf[t] /\ Len(buf[t]) \in 0..Len(buf[t])
    BY <1>1
  <2> QED
    BY <1>2, <1>3, <1>4, <2>1, BlockWritten
<1>6. AtomicTypes'
  <2>1. buf' \in [Threads -> Seq(Bytes)]
    BY <1>1, <1>2, <1>3
  <2>2. writerState' \in [Threads -> {"open", "dead", "closing", "loaded", "closed"}]
    BY <1>1
  <2> QED
    BY <1>5, <2>1, <2>2 DEF AtomicInv, AtomicTypes
<1>7. BufferOK(t)'
  <2>1. DOMAIN <<>> = {}
    OBVIOUS
  <2> QED
    BY <1>3, <2>1, ChainedEmpty DEF BufferOK
<1>8. recordLen > 0 => FixedOK(t)'
  <2> SUFFICES ASSUME recordLen > 0 PROVE FixedOK(t)'
    OBVIOUS
  <2>1. FixedOK(t)
    BY DEF AtomicInv, ThreadOK
  <2>2. Len(buf'[t]) = 0 * recordLen
    BY <1>1, <1>3
  <2> QED
    BY <2>1, <2>2 DEF FixedOK
<1>9. recordLen < 0 => RoomOK(t)'
  <2> SUFFICES ASSUME recordLen < 0 PROVE RoomOK(t)'
    OBVIOUS
  <2>1. RoomOK(t)
    BY DEF AtomicInv, ThreadOK
  <2> QED
    BY <2>1 DEF RoomOK
<1>10. Kept(t)'
  <2>1. sent[t] \o <<>> = sent[t]
    BY <1>1
  <2>2. A!IsPrefix(sent[t], sent[t] \o <<>>)
    BY <1>1, <1>3, PrefixIs
  <2> QED
    BY <1>3, <1>5, <2>1, <2>2 DEF Kept
<1>11. ThreadOK(t)'
  BY <1>7, <1>8, <1>9, <1>10 DEF AtomicInv, ThreadOK, Grown
<1>12. CountOK'
  <2>1. CASE writerState' = [writerState EXCEPT ![t] = "closing"]
    BY <2>1, CountKept
  <2>2. CASE UNCHANGED writerState
    BY <2>2 DEF AtomicInv, CountOK, Users
  <2> QED
    BY <2>1, <2>2
<1> QED
  BY <1>3, <1>5, <1>6, <1>11, <1>12, ThreadStep

\* The thread has finished with its buffer and goes on closing it.
LEMMA ClosingStep ==
  ASSUME AtomicInv, NEW t \in Threads, ~halted,
         writerState[t] # "open", NEW x \in {"closing", "loaded", "closed"},
         writerState' = [writerState EXCEPT ![t] = x],
         UNCHANGED <<recordLen, atomicFile, buf, cap, slack, left, sent, halted>>,
         useCount' \in Int, reg' \in [Threads -> Int], CountOK'
  PROVE  AtomicInv'
<1>1. AtomicTypes'
  BY DEF AtomicInv, AtomicTypes
<1>2. /\ writerState'[t] # "open"
      /\ \A u \in Threads : u # t => writerState'[u] = writerState[u]
  BY DEF AtomicInv, AtomicTypes
<1>3. recordLen < 0 => RoomOK(t)'
  BY <1>2 DEF AtomicInv, ThreadOK, RoomOK
<1>4. Kept(t)' /\ Grown(t)'
  BY <1>2, SameFile DEF AtomicInv, ThreadOK, Kept, Grown
<1>5. ThreadOK(t)'
  BY <1>2, <1>3, <1>4 DEF ThreadOK
<1>6. A!RecordsWhole'
  BY <1>2, SameWhole
<1> QED
  BY <1>1, <1>2, <1>5, <1>6, SameFile, ThreadStep

\* A clone whose write has failed is closed.
LEMMA CloseDeadStep ==
  ASSUME AtomicInv, NEW t \in Threads, A!CloseDead(t)
  PROVE  AtomicInv'
<1>1. CountOK'
  BY CountKept DEF A!CloseDead
<1>2. useCount' \in Int /\ reg' \in [Threads -> Int]
  BY DEF AtomicInv, AtomicTypes, A!CloseDead
<1> QED
  BY <1>1, <1>2, ClosingStep DEF A!CloseDead

\* fbatomic_close() loads the use count.
LEMMA CloseLoadStep ==
  ASSUME AtomicInv, NEW t \in Threads, A!CloseLoad(t)
  PROVE  AtomicInv'
<1> USE DEF A!CloseLoad
<1>1. Users' = Users
  BY DEF AtomicInv, AtomicTypes, Users
<1>2. CountOK'
  BY <1>1 DEF AtomicInv, AtomicTypes, CountOK
<1>3. useCount' \in Int /\ reg' \in [Threads -> Int]
  BY DEF AtomicInv, AtomicTypes
<1> QED
  BY <1>2, <1>3, ClosingStep

\* fbatomic_close() stores the use count, and closes the file when it is
\* zero.
LEMMA CloseStoreStep ==
  ASSUME AtomicInv, NEW t \in Threads, A!CloseStore(t)
  PROVE  AtomicInv'
<1> USE DEF A!CloseStore
<1>1. /\ t \in Users /\ Users' = Users \ {t} /\ reg[t] \in Int
      /\ reg[t] >= Cardinality(Users)
  BY DEF AtomicInv, AtomicTypes, Users, CountOK
<1>2. IsFiniteSet(Users)
  <2>1. Users \subseteq Threads
    BY DEF Users
  <2> QED
    BY <2>1, AtomicAssumption, FS_Subset
<1>3. /\ Cardinality(Users) \in Nat /\ Cardinality(Users \ {t}) = Cardinality(Users) - 1
      /\ IsFiniteSet(Users \ {t})
  BY <1>1, <1>2, FS_RemoveElement, FS_CardinalityType
<1>4. Cardinality(Users \ {t}) = 0 => Users \ {t} = {}
  BY <1>3, FS_EmptySet
<1>5. reg[t] = 1 => Users' = {}
  <2>1. Cardinality(Users) >= 1
    BY <1>1, <1>2, <1>3, FS_EmptySet
  <2> QED
    BY <1>1, <1>3, <1>4, <2>1
<1>6. fd = "closed" => Users' = {}
  BY <1>1 DEF AtomicInv, CountOK
<1>7. useCount' >= Cardinality(Users')
  BY <1>1, <1>3
<1>8. ASSUME NEW u \in Threads, writerState'[u] = "loaded"
      PROVE  reg'[u] >= Cardinality(Users')
  <2>1. writerState[u] = "loaded" /\ reg'[u] = reg[u] /\ reg[u] \in Int
    BY <1>8 DEF AtomicInv, AtomicTypes
  <2> QED
    BY <1>1, <1>3, <2>1 DEF AtomicInv, CountOK
<1>9. CountOK'
  BY <1>5, <1>6, <1>7, <1>8 DEF CountOK
<1>10. useCount' \in Int /\ reg' \in [Threads -> Int]
  BY <1>1 DEF AtomicInv, AtomicTypes
<1> QED
  BY <1>9, <1>10, ClosingStep

\* The rounding of the buffer size gives a whole number of records.
LEMMA RoundedUp ==
  ASSUME NEW n \in Nat, NEW r \in Nat \ {0}
  PROVE  \E m \in Nat : n + ((-n) % r) = m * r
<1> DEFINE d == (-n) \div r
           e == (-n) % r
<1>1. d \in Int /\ e \in 0..(r - 1) /\ -n = r * d + e
  OBVIOUS
<1> HIDE DEF d, e
<1>2. n + e = (-d) * r
  BY <1>1
<1>3. -d \in Nat
  <2> SUFFICES ASSUME d >= 1 PROVE FALSE
    BY <1>1
  <2>1. r * d >= r
    BY <1>1
  <2> QED
    BY <1>1, <2>1
<1> QED
  BY <1>2, <1>3 DEF e

\* The invariant holds initially.
LEMMA AtomicInit == A!Init => AtomicInv
<1> SUFFICES ASSUME A!Init PROVE AtomicInv
  OBVIOUS
<1> USE AtomicAssumption
<1>0. /\ recordLen \in Int \ {0} /\ BufSize \in Nat \ {0} /\ useCount = A!Cardinality(Threads)
      /\ atomicFile = <<>> /\ fd = "open"
      /\ \A t \in Threads : /\ buf[t] = <<>> /\ left[t] = <<>> /\ sent[t] = <<>>
                            /\ writerState[t] = "open"
                            /\ recordLen > 0 => cap[t] = BufSize + ((-BufSize) % recordLen)
                            /\ recordLen < 0 => cap[t] = BufSize /\ slack[t] = -recordLen
  BY DEF A!Init, A!Locked
<1>1. <<>> \in Seq(Bytes) /\ Len(<<>>) = 0 /\ DOMAIN <<>> = {}
  OBVIOUS
<1>2. Cardinality(Threads) \in Nat /\ useCount = Cardinality(Threads)
  <2>1. \A T : A!Cardinality(T) = Cardinality(T)
    BY DEF A!Cardinality, Cardinality
  <2> QED
    BY <1>0, <2>1, FS_CardinalityType
<1>3. cap \in [Threads -> Nat]
  <2>1. CASE recordLen > 0
    <3>1. BufSize + ((-BufSize) % recordLen) \in Nat
      BY <1>0, <2>1
    <3> QED
      BY <2>1, <3>1 DEF A!Init
  <2>2. CASE ~(recordLen > 0)
    BY <2>2 DEF A!Init
  <2> QED
    BY <2>1, <2>2
<1>4. slack \in [Threads -> Nat]
  <2>1. CASE recordLen < 0
    <3>1. -recordLen \in Nat
      BY <1>0, <2>1
    <3> QED
      BY <2>1, <3>1 DEF A!Init, A!Locked
  <2>2. CASE ~(recordLen < 0)
    BY <2>2 DEF A!Init, A!Locked
  <2> QED
    BY <2>1, <2>2
<1>5. AtomicTypes
  BY <1>0, <1>1, <1>2, <1>3, <1>4 DEF A!Init, AtomicTypes
<1>6. ASSUME NEW t \in Threads PROVE ThreadOK(t)
  <2>1. BufferOK(t)
    BY <1>0, <1>1, ChainedEmpty DEF BufferOK
  <2>2. ASSUME recordLen > 0 PROVE FixedOK(t)
    <3>1. \E m \in Nat : cap[t] = m * recordLen
      <4>1. recordLen \in Nat \ {0} /\ BufSize \in Nat
        BY <1>0, <2>2
      <4>2. PICK m \in Nat : BufSize + ((-BufSize) % recordLen) = m * recordLen
        BY <4>1, RoundedUp
      <4> QED
        BY <1>0, <2>2, <4>2
    <3>2. Len(buf[t]) = 0 * recordLen
      BY <1>0, <1>1
    <3> QED
      BY <1>0, <3>1, <3>2 DEF FixedOK
  <2>3. recordLen < 0 => RoomOK(t)
    BY <1>0 DEF RoomOK
  <2>4. Kept(t)
    <3>1. A!BytesOf(t, <<>>) = <<>>
      BY BytesOfEmpty
    <3>2. <<>> \o <<>> = <<>>
      OBVIOUS
    <3>3. A!IsPrefix(<<>>, <<>> \o <<>>)
      BY <1>1, PrefixIs
    <3> QED
      BY <1>0, <3>1, <3>2, <3>3 DEF Kept
  <2>5. Grown(t)
    BY <1>0 DEF Grown
  <2> QED
    BY <2>1, <2>2, <2>3, <2>4, <2>5 DEF ThreadOK
<1>7. Users = Threads
  BY <1>0 DEF Users
<1>8. CountOK
  BY <1>0, <1>2, <1>7 DEF CountOK
<1>9. A!RecordsWhole
  BY <1>0, <1>1 DEF A!RecordsWhole
<1> QED
  BY <1>5, <1>6, <1>8, <1>9 DEF AtomicInv

\* Every step preserves the invariant.
LEMMA AtomicNext == AtomicInv /\ [A!Next]_(A!atomicVars) => AtomicInv'
<1> SUFFICES ASSUME AtomicInv, [A!Next]_(A!atomicVars) PROVE AtomicInv'
  OBVIOUS
<1>1. CASE UNCHANGED A!atomicVars
  <2>1. UNCHANGED <<recordLen, useCount, fd, atomicFile, buf, cap, slack, left, sent,
                    writerState, reg, halted>>
    BY <1>1 DEF A!atomicVars
  <2>2. AtomicTypes' /\ CountOK'
    BY <2>1 DEF AtomicInv, AtomicTypes, CountOK, Users
  <2>3. A!RecordsWhole'
    BY <2>1 DEF AtomicInv, A!RecordsWhole
  <2>4. ASSUME NEW t \in Threads PROVE ThreadOK(t)'
    BY <2>1 DEF AtomicInv, ThreadOK, BufferOK, FixedOK, RoomOK, Kept, Grown, A!Number
  <2> QED
    BY <2>2, <2>3, <2>4 DEF AtomicInv
<1>2. ASSUME NEW t \in Threads, A!Spout(t) PROVE AtomicInv'
  BY <1>2, SpoutLockedStep, SpoutFixedStep
<1>3. ASSUME NEW t \in Threads, A!SpoutFails(t) \/ A!CommitFails(t) PROVE AtomicInv'
  BY <1>3, WriteFailsStep DEF A!SpoutFails, A!CommitFails
<1>4. ASSUME NEW t \in Threads, A!Commit(t) PROVE AtomicInv'
  BY <1>4, WholeWriteStep DEF A!Commit, A!Running
<1>5. ASSUME NEW t \in Threads, A!CloseWrite(t) PROVE AtomicInv'
  BY <1>5, WholeWriteStep DEF A!CloseWrite, A!Running
<1>6. CASE A!Next
  <2>1. PICK t \in Threads :
          \/ \E n \in IF A!Locked THEN AtomicLens ELSE {recordLen} : A!StartRecord(t, n)
          \/ A!Put(t) \/ A!Spout(t) \/ A!SpoutFails(t) \/ A!Commit(t) \/ A!CommitFails(t)
          \/ A!CloseWrite(t) \/ A!CloseFails(t) \/ A!CloseDead(t) \/ A!CloseLoad(t)
          \/ A!CloseStore(t)
    BY <1>6 DEF A!Next
  <2> QED
    BY <1>2, <1>3, <1>4, <1>5, <2>1, StartRecordStep, PutStep, CloseFailsStep, CloseDeadStep,
       CloseLoadStep, CloseStoreStep, Zenon
<1> QED
  BY <1>1, <1>6

\* The invariant of atomic fastbufs: every buffer begins with the first byte
\* of a record, a write that does not fail ends with the last byte of one,
\* and the use count is never below the number of the clones in use.
THEOREM AtomicInvariance == A!Spec => []AtomicInv
<1> QED
  BY AtomicInit, AtomicNext, PTL DEF A!Spec

\* Whatever the threads, the lengths of records and the failures of writes
\* are: no record is torn but by the last write of a failed clone, what a
\* thread has put is in the file or in its buffer, nobody uses the file after
\* it was closed although the use count is decremented without a lock, and a
\* buffer grows only because of a record longer than announced (fb-atomic.c).
THEOREM AtomicSoundTheorem == A!Spec => []AtomicSound
<1>1. AtomicInv => AtomicSound
  <2> SUFFICES ASSUME AtomicInv PROVE AtomicSound
    OBVIOUS
  <2>1. A!NothingLost
    BY DEF AtomicInv, ThreadOK, Kept, A!NothingLost
  <2>2. A!NoUseAfterClose
    BY DEF AtomicInv, CountOK, Users, A!NoUseAfterClose
  <2>3. A!GrowthJustified
    BY DEF AtomicInv, ThreadOK, Grown, A!GrowthJustified, A!Locked
  <2> QED
    BY <2>1, <2>2, <2>3 DEF AtomicInv, AtomicSound, A!AtomicSound
<1> QED
  BY <1>1, AtomicInvariance, PTL

-----------------------------------------------------------------------------
(* The configuration.  Memory and journal items are typed by the pools     *)
(* their values may lie in: undoing stays within the pools of what is      *)
(* undone, so the same lemmas say that the journal leads back and that it  *)
(* never leads to a deleted pool.                                          *)

\* Values, memory and items of a journal with values in the pools of P
Vals(P) == [v : Int, pool : P]
Memory(P) == [Cells -> Vals(P)]
Items(P) == UNION {[at : {a}, copy : [a -> Vals(P)], pool : P] : a \in SUBSET Cells}

\* Correct lines lie within the cells.
Texts == {t \in Seq(Lines) :
            \A i \in DOMAIN t : /\ t[i].vals # <<>>
                                /\ t[i].first .. (t[i].first + Len(t[i].vals) - 1) \subseteq Cells}
Entries(P) == [type : {"file", "string"}, text : Texts, pool : P]

\* The pools of finished operations, the newest of them, and no pool
Known == Elements(pools) \cup {0}
Newest == IF pools = <<>> THEN 0 ELSE Head(pools)

\* Operations with their local variables
Ops == [name : {"idle", "load", "set", "reload", "reload_file", "deleted"},
        text : Texts, oldj : Seq(Items(Nat)), oldEntries : Seq(Entries(Nat)),
        todo : Seq(Entries(Nat)), ec : BOOLEAN, before : Memory(Nat), now : Texts,
        err : BOOLEAN]

ConfTypes ==
  /\ lastPool \in Nat /\ livePools \subseteq 1..lastPool
  /\ pools \in Seq(Nat) /\ Known \subseteq livePools \cup {0} /\ pool \in Nat
  /\ postpone \in Nat /\ unremembered \in Seq(Texts) /\ committed \in BOOLEAN
  /\ confOp \in Ops

\* Between two operations
IdlePools ==
  /\ confOp = C!Idle /\ pool = Newest
  /\ cells \in Memory(Known) /\ journal \in Seq(Items(Known))
  /\ entries \in Seq(Entries(Known))

\* In cf_load, which has its own pool, and in cf_set, which has the newest one
LoadPools ==
  /\ pool # 0
  /\ confOp.name = "load" => pool \in livePools /\ pool \notin Known
  /\ confOp.name = "set" => pool = Newest /\ pools # <<>>
  /\ cells \in Memory(Known \cup {pool}) /\ journal \in Seq(Items(Known \cup {pool}))
  /\ confOp.before \in Memory(Known) /\ confOp.oldj \in Seq(Items(Known))
  /\ entries \in Seq(Entries(Known)) /\ confOp.oldEntries = <<>>

\* In cf_reload: what is new lies in the new pool, what is old in the others
ReloadPools ==
  /\ pool # 0 /\ pool \in livePools /\ pool \notin Known
  /\ cells \in Memory({0, pool}) /\ journal \in Seq(Items({0, pool}))
  /\ entries \in Seq(Entries({0, pool}))
  /\ confOp.before \in Memory(Known) /\ confOp.oldj \in Seq(Items(Known))
  /\ confOp.oldEntries \in Seq(Entries(Known))
  /\ postpone > 0
  /\ confOp.name = "reload_file" =>
       /\ entries = <<>> /\ Len(confOp.todo) <= 1
       /\ confOp.todo # <<>> => Head(confOp.todo).text = confOp.now

ConfPools ==
  /\ confOp.name = "idle" => IdlePools
  /\ confOp.name \in {"load", "set"} => LoadPools
  /\ confOp.name \in {"reload", "reload_file"} => ReloadPools
  /\ confOp.name = "deleted" => confOp = [C!Idle EXCEPT !.name = "deleted"]

\* The texts cf_reload has read so far
ReadTexts ==
  IF confOp.name = "reload" THEN C!TextsOf(entries)
  ELSE IF confOp.todo = <<>> THEN <<confOp.now>> ELSE <<>>

\* The value of a cell is what the texts read so far say, or what the rest of
\* the one being read makes of it
Explained(c) ==
  /\ confOp.name = "idle" =>
       cells[c].v = C!Replayed(c, unremembered \o C!TextsOf(entries))
  /\ confOp.name \in {"load", "set"} =>
       /\ confOp.before[c].v = C!Replayed(c, unremembered \o C!TextsOf(entries))
       /\ ~confOp.err => C!Replay(c, cells[c].v, confOp.text)
                           = C!Replay(c, confOp.before[c].v, confOp.now)
  /\ confOp.name \in {"reload", "reload_file"} =>
       /\ confOp.before[c].v = C!Replayed(c, unremembered \o C!TextsOf(confOp.oldEntries))
       /\ ~confOp.err =>
            IF confOp.todo = <<>>
            THEN confOp.text = <<>> /\ cells[c].v = C!Replayed(c, ReadTexts)
            ELSE C!Replay(c, cells[c].v, confOp.text)
                   = C!Replay(c, C!Replayed(c, ReadTexts), Head(confOp.todo).text)

ConfInv ==
  /\ ConfTypes /\ ConfPools /\ C!JournalUndoes
  /\ \A c \in Cells \ {C!Derived} : Explained(c)

-----------------------------------------------------------------------------

\* The memories cf_journal_swap goes through
SwapRun(f, m, j, P) ==
  /\ f \in [0..Len(j) -> Memory(P)] /\ f[0] = m
  /\ \A n \in 1..Len(j) : f[n] = C!SwapItem(f[n - 1], j[n])

\* An item is a block of cells with values in P.
LEMMA ItemIs ==
  ASSUME NEW P, NEW it
  PROVE  it \in Items(P) <=> /\ it = [at |-> it.at, copy |-> it.copy, pool |-> it.pool]
                             /\ it.at \subseteq Cells /\ it.copy \in [it.at -> Vals(P)]
                             /\ it.pool \in P
<1>1. ASSUME it \in Items(P)
      PROVE  /\ it = [at |-> it.at, copy |-> it.copy, pool |-> it.pool]
             /\ it.at \subseteq Cells /\ it.copy \in [it.at -> Vals(P)]
             /\ it.pool \in P
  <2>1. PICK a \in SUBSET Cells : it \in [at : {a}, copy : [a -> Vals(P)], pool : P]
    BY <1>1 DEF Items
  <2> QED
    BY <2>1
<1>2. ASSUME it = [at |-> it.at, copy |-> it.copy, pool |-> it.pool],
             it.at \subseteq Cells, it.copy \in [it.at -> Vals(P)], it.pool \in P
      PROVE  it \in Items(P)
  <2>1. it \in [at : {it.at}, copy : [it.at -> Vals(P)], pool : P]
    BY <1>2
  <2> QED
    BY <1>2, <2>1 DEF Items
<1> QED
  BY <1>1, <1>2

\* Swapping with an item stays within the pools.
LEMMA SwapItemType ==
  ASSUME NEW P, NEW m \in Memory(P), NEW it \in Items(P)
  PROVE  C!SwapItem(m, it) \in Memory(P)
<1>1. it.at \subseteq Cells /\ it.copy \in [it.at -> Vals(P)]
  BY ItemIs
<1> QED
  BY <1>1 DEF C!SwapItem, Memory

\* There is such a run from every memory.
LEMMA SwapRunExists ==
  ASSUME NEW P, NEW m \in Memory(P), NEW j \in Seq(Items(P))
  PROVE  \E f : SwapRun(f, m, j, P)
<1> DEFINE S == Memory(P)
           n == Len(j)
           g == [x \in (1..n) \X S |-> C!SwapItem(x[2], j[x[1]])]
<1>1. n \in Nat /\ \A k \in 1..n : j[k] \in Items(P)
  OBVIOUS
<1>2. \A x \in (1..n) \X S : C!SwapItem(x[2], j[x[1]]) \in S
  BY <1>1, SwapItemType
<1>3. g \in [(1..n) \X S -> S]
  BY <1>2
<1>4. PICK f : IsRecursion(f, S, m, n, g)
  <2> HIDE DEF g, S, n
  <2>1. m \in S
    BY DEF S
  <2> QED
    BY <1>1, <1>3, <2>1, RecursionExists
<1>5. ASSUME NEW k \in 1..n PROVE f[k] = C!SwapItem(f[k - 1], j[k])
  <2>1. f[k - 1] \in S /\ <<k, f[k - 1]>> \in (1..n) \X S
    BY <1>1, <1>4 DEF IsRecursion
  <2> QED
    BY <1>4, <2>1 DEF IsRecursion
<1> QED
  BY <1>4, <1>5 DEF SwapRun, IsRecursion

\* Swapped is where the run ends.
LEMMA SwappedIs ==
  ASSUME NEW P, NEW m, NEW j \in Seq(Items(P)), NEW f, SwapRun(f, m, j, P)
  PROVE  C!Swapped(m, j) = f[Len(j)] /\ f[Len(j)] \in Memory(P)
<1> DEFINE Step(h) == [n \in 0..Len(j) |->
                        IF n = 0 THEN m ELSE C!SwapItem(h[n - 1], j[n])]
           after == CHOOSE h : h = Step(h)
<1>0. Len(j) \in Nat
  OBVIOUS
<1>1. f = Step(f)
  BY DEF SwapRun
<1>2. after = Step(after)
  BY <1>1
<1>3. C!Swapped(m, j) = after[Len(j)]
  BY DEF C!Swapped
<1> HIDE DEF after
<1>4. /\ after[0] = m
      /\ \A n \in 1..Len(j) : after[n] = C!SwapItem(after[n - 1], j[n])
  BY <1>0, <1>2
<1>5. after[Len(j)] = f[Len(j)]
  <2>1. f[0] = after[0]
    BY <1>4 DEF SwapRun
  <2>2. \A k \in 1..Len(j) : f[k - 1] = after[k - 1] => f[k] = after[k]
    BY <1>4 DEF SwapRun
  <2> QED
    BY <1>0, <2>1, <2>2, RecursionUnique
<1> QED
  BY <1>0, <1>3, <1>5 DEF SwapRun

\* Undoing stays within the pools of the memory and of the items.
LEMMA SwappedType ==
  ASSUME NEW P, NEW m \in Memory(P), NEW j \in Seq(Items(P))
  PROVE  C!Swapped(m, j) \in Memory(P)
<1>1. PICK f : SwapRun(f, m, j, P)
  BY SwapRunExists
<1> QED
  BY <1>1, SwappedIs

\* Nothing to undo.
LEMMA SwappedEmpty ==
  ASSUME NEW P, NEW m \in Memory(P)
  PROVE  C!Swapped(m, <<>>) = m
<1>1. <<>> \in Seq(Items(P)) /\ Len(<<>>) = 0
  OBVIOUS
<1>2. PICK f : SwapRun(f, m, <<>>, P)
  BY <1>1, SwapRunExists
<1> QED
  BY <1>1, <1>2, SwappedIs DEF SwapRun

\* What is in front of a journal is undone first.
LEMMA SwappedConcat ==
  ASSUME NEW P, NEW m \in Memory(P), NEW j \in Seq(Items(P)), NEW k \in Seq(Items(P))
  PROVE  C!Swapped(m, j \o k) = C!Swapped(C!Swapped(m, j), k)
<1> DEFINE all == j \o k
           mid == C!Swapped(m, j)
<1>1. PICK f : SwapRun(f, m, j, P)
  BY SwapRunExists
<1>2. mid = f[Len(j)] /\ mid \in Memory(P)
  BY <1>1, SwappedIs
<1> HIDE DEF mid
<1>3. PICK g : SwapRun(g, mid, k, P)
  BY <1>2, SwapRunExists
<1> DEFINE h == [n \in 0..(Len(j) + Len(k)) |-> IF n <= Len(j) THEN f[n] ELSE g[n - Len(j)]]
<1>4. /\ Len(j) \in Nat /\ Len(k) \in Nat /\ all \in Seq(Items(P)) /\ Len(all) = Len(j) + Len(k)
      /\ \A n \in 1..Len(j) : all[n] = j[n]
      /\ \A n \in 1..Len(k) : all[Len(j) + n] = k[n]
  OBVIOUS
<1> HIDE DEF all
<1>5. /\ \A n \in 0..Len(j) : f[n] \in Memory(P) /\ h[n] = f[n]
      /\ \A n \in 0..Len(k) : g[n] \in Memory(P) /\ h[Len(j) + n] = g[n]
  <2>1. \A n \in 0..Len(j) : f[n] \in Memory(P) /\ n \in 0..(Len(j) + Len(k)) /\ n <= Len(j)
    BY <1>1, <1>4 DEF SwapRun
  <2>2. \A n \in 0..Len(k) : /\ g[n] \in Memory(P) /\ Len(j) + n \in 0..(Len(j) + Len(k))
                             /\ (Len(j) + n) - Len(j) = n
                             /\ Len(j) + n <= Len(j) => n = 0 /\ Len(j) + n = Len(j)
    BY <1>3, <1>4 DEF SwapRun
  <2>3. g[0] = f[Len(j)]
    BY <1>2, <1>3 DEF SwapRun
  <2>4. \A n \in 0..Len(j) : h[n] = f[n]
    BY <2>1
  <2>5. ASSUME NEW n \in 0..Len(k) PROVE h[Len(j) + n] = g[n]
    <3>1. CASE n = 0
      BY <1>4, <2>3, <2>4, <3>1
    <3>2. CASE n # 0
      BY <2>2, <3>2
    <3> QED
      BY <3>1, <3>2
  <2> HIDE DEF h
  <2> QED
    BY <2>1, <2>2, <2>4, <2>5
<1>6. h \in [0..Len(all) -> Memory(P)]
  <2> SUFFICES ASSUME NEW n \in 0..(Len(j) + Len(k))
               PROVE  (IF n <= Len(j) THEN f[n] ELSE g[n - Len(j)]) \in Memory(P)
    BY <1>4
  <2>1. CASE n <= Len(j)
    <3>1. n \in 0..Len(j)
      BY <1>4, <2>1
    <3> HIDE DEF h
    <3> QED
      BY <1>5, <2>1, <3>1
  <2>2. CASE ~(n <= Len(j))
    <3>1. n - Len(j) \in 0..Len(k)
      BY <1>4, <2>2
    <3> QED
      BY <1>5, <2>2, <3>1
  <2> QED
    BY <2>1, <2>2
<1>7. h[0] = m
  BY <1>1, <1>4, <1>5 DEF SwapRun
<1> HIDE DEF h
<1>8. ASSUME NEW n \in 1..Len(all) PROVE h[n] = C!SwapItem(h[n - 1], all[n])
  <2>1. CASE n <= Len(j)
    <3>1. n \in 1..Len(j) /\ n \in 0..Len(j) /\ n - 1 \in 0..Len(j)
      BY <1>4, <2>1
    <3>2. f[n] = C!SwapItem(f[n - 1], j[n])
      BY <1>1, <3>1 DEF SwapRun
    <3> QED
      BY <1>4, <1>5, <3>1, <3>2
  <2>2. CASE ~(n <= Len(j))
    <3>1. PICK i \in 1..Len(k) : n = Len(j) + i
      <4>1. n - Len(j) \in 1..Len(k) /\ n = Len(j) + (n - Len(j))
        BY <1>4, <2>2
      <4> QED
        BY <4>1
    <3>2. i \in 0..Len(k) /\ i - 1 \in 0..Len(k) /\ n - 1 = Len(j) + (i - 1)
      BY <1>4, <3>1
    <3>3. g[i] = C!SwapItem(g[i - 1], k[i])
      BY <1>3 DEF SwapRun
    <3>4. h[n] = g[i] /\ h[n - 1] = g[i - 1] /\ all[n] = k[i]
      BY <1>4, <1>5, <3>1, <3>2
    <3> QED
      BY <3>3, <3>4
  <2> QED
    BY <2>1, <2>2
<1>9. SwapRun(h, m, all, P)
  BY <1>6, <1>7, <1>8 DEF SwapRun
<1>10. C!Swapped(m, all) = h[Len(all)]
  BY <1>4, <1>9, SwappedIs
<1>11. C!Swapped(mid, k) = g[Len(k)]
  BY <1>3, SwappedIs
<1> QED
  BY <1>4, <1>5, <1>10, <1>11 DEF all, mid

\* The newest item is undone first.
LEMMA SwappedNewest ==
  ASSUME NEW P, NEW m \in Memory(P), NEW it \in Items(P), NEW j \in Seq(Items(P))
  PROVE  C!Swapped(m, <<it>> \o j) = C!Swapped(C!SwapItem(m, it), j)
<1> DEFINE one == <<it>>
<1>1. one \in Seq(Items(P)) /\ Len(one) = 1 /\ one[1] = it
  OBVIOUS
<1> HIDE DEF one
<1>2. PICK f : SwapRun(f, m, one, P)
  BY <1>1, SwapRunExists
<1>3. C!Swapped(m, one) = f[1]
  BY <1>1, <1>2, SwappedIs
<1>4. f[1] = C!SwapItem(m, it)
  <2>1. 1 \in 1..1 /\ 1 - 1 = 0
    OBVIOUS
  <2> QED
    BY <1>1, <1>2, <2>1 DEF SwapRun
<1>5. C!Swapped(m, one \o j) = C!Swapped(C!Swapped(m, one), j)
  BY <1>1, SwappedConcat
<1> QED
  BY <1>3, <1>4, <1>5 DEF one

\* The memories on the way are what the beginnings of the journal give.
LEMMA SwapRunPrefix ==
  ASSUME NEW P, NEW m, NEW j \in Seq(Items(P)), NEW f, SwapRun(f, m, j, P), NEW n \in 0..Len(j)
  PROVE  C!Swapped(m, SubSeq(j, 1, n)) = f[n] /\ f[n] \in Memory(P)
<1> DEFINE part == SubSeq(j, 1, n)
           g == [k \in 0..n |-> f[k]]
<1>1. /\ part \in Seq(Items(P)) /\ Len(part) = n /\ \A k \in 1..n : part[k] = j[k]
      /\ Len(j) \in Nat /\ n \in Nat /\ n <= Len(j)
  OBVIOUS
<1> HIDE DEF part
<1>2. SwapRun(g, m, part, P)
  <2>1. \A k \in 0..n : k \in 0..Len(j) /\ f[k] \in Memory(P)
    BY <1>1 DEF SwapRun
  <2>2. \A k \in 1..n : /\ k \in 1..Len(j) /\ k \in 0..n /\ k - 1 \in 0..n
                        /\ f[k] = C!SwapItem(f[k - 1], j[k])
    BY <1>1 DEF SwapRun
  <2>3. g \in [0..n -> Memory(P)] /\ 0 \in 0..n /\ \A k \in 0..n : g[k] = f[k]
    BY <1>1, <2>1
  <2> HIDE DEF g
  <2> QED
    BY <1>1, <2>2, <2>3 DEF SwapRun
<1>3. C!Swapped(m, part) = g[n]
  BY <1>1, <1>2, SwappedIs
<1> QED
  BY <1>1, <1>3 DEF part, SwapRun

\* The items after cf_journal_swap: they hold what the memory held when each
\* of them was swapped, the last one first.
LEMMA SwappedItemsFacts ==
  ASSUME NEW P, NEW m, NEW j \in Seq(Items(P)), NEW f, SwapRun(f, m, j, P)
  PROVE  /\ C!SwappedItems(m, j) \in Seq(Items(P)) /\ Len(C!SwappedItems(m, j)) = Len(j)
         /\ \A k \in 1..Len(j) :
              LET it == C!SwappedItems(m, j)[k]
              IN  /\ it.at = j[Len(j) + 1 - k].at
                  /\ it.copy = [c \in it.at |-> f[Len(j) - k][c]]
<1> DEFINE new(i) == [j[i] EXCEPT !.copy = [c \in j[i].at |-> C!Swapped(m, SubSeq(j, 1, i - 1))[c]]]
           q == [i \in 1..Len(j) |-> new(i)]
           r == C!SwappedItems(m, j)
<1>1. Len(j) \in Nat /\ \A i \in 1..Len(j) : j[i] \in Items(P)
  OBVIOUS
<1>2. ASSUME NEW i \in 1..Len(j)
      PROVE  /\ new(i) \in Items(P) /\ new(i).at = j[i].at
             /\ new(i).copy = [c \in j[i].at |-> f[i - 1][c]]
  <2>1. i - 1 \in 0..Len(j)
    BY <1>1
  <2>2. C!Swapped(m, SubSeq(j, 1, i - 1)) = f[i - 1] /\ f[i - 1] \in Memory(P)
    BY <2>1, SwapRunPrefix
  <2>3. /\ j[i] = [at |-> j[i].at, copy |-> j[i].copy, pool |-> j[i].pool]
        /\ j[i].at \subseteq Cells /\ j[i].pool \in P
    BY <1>1, ItemIs
  <2> DEFINE copy == [c \in j[i].at |-> f[i - 1][c]]
  <2>4. copy \in [j[i].at -> Vals(P)]
    BY <2>2, <2>3 DEF Memory
  <2>5. new(i) = [j[i] EXCEPT !.copy = copy]
    BY <2>2
  <2> HIDE DEF new, copy
  <2>6. new(i) = [at |-> j[i].at, copy |-> copy, pool |-> j[i].pool]
    BY <2>3, <2>5
  <2>7. /\ new(i).at = j[i].at /\ new(i).copy = copy /\ new(i).pool = j[i].pool
    BY <2>6
  <2>8. new(i) \in Items(P)
    BY <2>3, <2>4, <2>6, <2>7, ItemIs
  <2> QED
    BY <2>7, <2>8 DEF copy
<1>3. r = C!Reverse(q)
  BY DEF C!SwappedItems
<1> HIDE DEF new, r
<1>4. q \in Seq(Items(P)) /\ Len(q) = Len(j) /\ \A i \in 1..Len(j) : q[i] = new(i)
  <2>1. \A i \in 1..Len(j) : new(i) \in Items(P)
    BY <1>2
  <2> QED
    BY <1>1, <2>1
<1> HIDE DEF q
<1>5. /\ r = [k \in 1..Len(j) |-> q[(Len(j) - k) + 1]]
      /\ \A k \in 1..Len(j) : (Len(j) - k) + 1 \in 1..Len(j) /\ q[(Len(j) - k) + 1] \in Items(P)
  BY <1>1, <1>2, <1>3, <1>4 DEF C!Reverse
<1>6. r \in Seq(Items(P)) /\ Len(r) = Len(j)
  BY <1>1, <1>5
<1>7. ASSUME NEW k \in 1..Len(j)
      PROVE  /\ r[k].at = j[Len(j) + 1 - k].at
             /\ r[k].copy = [c \in r[k].at |-> f[Len(j) - k][c]]
  <2> DEFINE i == (Len(j) - k) + 1
  <2>1. i \in 1..Len(j) /\ i = Len(j) + 1 - k /\ i - 1 = Len(j) - k
    BY <1>1
  <2>2. r[k] = q[i]
    BY <1>5
  <2> HIDE DEF i
  <2>3. r[k] = new(i)
    BY <1>4, <2>1, <2>2
  <2>4. r[k].at = j[i].at /\ r[k].copy = [c \in j[i].at |-> f[i - 1][c]]
    BY <1>2, <2>1, <2>3
  <2>5. f[i - 1] = f[Len(j) - k] /\ j[i] = j[Len(j) + 1 - k]
    BY <2>1
  <2> QED
    BY <2>4, <2>5, Zenon
<1> QED
  BY <1>6, <1>7 DEF r

\* The swapped items lead back.
LEMMA SwappedBack ==
  ASSUME NEW P, NEW m \in Memory(P), NEW j \in Seq(Items(P))
  PROVE  /\ C!SwappedItems(m, j) \in Seq(Items(P))
         /\ C!Swapped(C!Swapped(m, j), C!SwappedItems(m, j)) = m
<1> DEFINE r == C!SwappedItems(m, j)
           n == Len(j)
<1>1. PICK f : SwapRun(f, m, j, P)
  BY SwapRunExists
<1>2. /\ r \in Seq(Items(P)) /\ Len(r) = n /\ n \in Nat
      /\ \A k \in 1..n : /\ r[k].at = j[n + 1 - k].at
                         /\ r[k].copy = [c \in r[k].at |-> f[n - k][c]]
  BY <1>1, SwappedItemsFacts
<1>3. C!Swapped(m, j) = f[n]
  BY <1>1, SwappedIs
<1> HIDE DEF r, n
<1>4. /\ \A k \in 0..n : f[k] \in Memory(P)
      /\ f[0] = m
      /\ \A k \in 1..n : f[k] = C!SwapItem(f[k - 1], j[k])
  BY <1>1 DEF SwapRun, n
<1> DEFINE h == [k \in 0..n |-> f[n - k]]
<1>5. ASSUME NEW k \in 1..n PROVE h[k] = C!SwapItem(h[k - 1], r[k])
  <2> DEFINE i == n - k
  <2>1. i \in 0..n /\ i + 1 \in 1..n /\ (i + 1) - 1 = i /\ n + 1 - k = i + 1
        /\ k \in 0..n /\ k - 1 \in 0..n /\ n - (k - 1) = i + 1
    BY <1>2
  <2>2. h[k] = f[i] /\ h[k - 1] = f[i + 1]
    BY <2>1
  <2> HIDE DEF i, h
  <2>3. r[k].at = j[i + 1].at /\ r[k].copy = [c \in r[k].at |-> f[i][c]]
    BY <1>2, <2>1 DEF i
  <2>4. f[i + 1] = C!SwapItem(f[i], j[i + 1]) /\ f[i] \in Memory(P)
    BY <1>4, <2>1
  <2>5. C!SwapItem(f[i + 1], r[k]) = f[i]
    <3>1. \A c \in Cells : f[i + 1][c] = IF c \in r[k].at THEN j[i + 1].copy[c] ELSE f[i][c]
      BY <2>3, <2>4 DEF C!SwapItem
    <3>2. \A c \in Cells : (IF c \in r[k].at THEN r[k].copy[c] ELSE f[i + 1][c]) = f[i][c]
      BY <2>3, <3>1
    <3>3. f[i] = [c \in Cells |-> f[i][c]]
      BY <2>4 DEF Memory
    <3> QED
      BY <3>2, <3>3 DEF C!SwapItem
  <2> QED
    BY <2>2, <2>5
<1>6. h \in [0..n -> Memory(P)] /\ h[0] = f[n] /\ h[n] = m
  BY <1>2, <1>4
<1> HIDE DEF h
<1>7. SwapRun(h, f[n], r, P)
  BY <1>2, <1>5, <1>6 DEF SwapRun
<1>8. C!Swapped(f[n], r) = h[n]
  BY <1>2, <1>7, SwappedIs
<1> QED
  BY <1>2, <1>3, <1>6, <1>8 DEF r

-----------------------------------------------------------------------------

\* The values a cell goes through while a text is read, and while several are
ReplayRun(f, c, v, t) ==
  /\ f \in [0..Len(t) -> Int] /\ f[0] = v
  /\ \A n \in 1..Len(t) : f[n] = C!Assigned(c, f[n - 1], t[n])
ReplayedRun(f, c, ts) ==
  /\ f \in [0..Len(ts) -> Int] /\ f[0] = 0
  /\ \A n \in 1..Len(ts) : f[n] = C!Replay(c, f[n - 1], ts[n])

\* A text is a sequence of lines; so is what is left of it.
LEMMA TextFacts ==
  /\ <<>> \in Texts
  /\ \A t \in Texts : /\ t \in Seq(Lines) /\ Len(t) \in Nat
                      /\ t # <<>> => Head(t) \in Lines /\ Tail(t) \in Texts
<1>1. <<>> \in Texts
  BY DEF Texts
<1>2. ASSUME NEW t \in Texts, t # <<>> PROVE Head(t) \in Lines /\ Tail(t) \in Texts
  <2>1. t \in Seq(Lines) /\ Len(t) \in Nat \ {0}
    BY <1>2 DEF Texts
  <2>2. Head(t) \in Lines /\ Tail(t) \in Seq(Lines) /\ DOMAIN Tail(t) = 1..(Len(t) - 1)
        /\ \A i \in 1..(Len(t) - 1) : Tail(t)[i] = t[i + 1] /\ i + 1 \in DOMAIN t
    BY <2>1, <1>2
  <2> QED
    BY <2>2 DEF Texts
<1> QED
  BY <1>1, <1>2 DEF Texts

\* A line leaves a number in a cell.
LEMMA AssignedType ==
  ASSUME NEW c \in Int, NEW v \in Int, NEW line \in Lines
  PROVE  C!Assigned(c, v, line) \in Int
<1>1. line.vals \in Seq(Int)
  BY DEF Lines
<1> QED
  BY <1>1 DEF C!Assigned

\* There is such a run for every text.
LEMMA ReplayRunExists ==
  ASSUME NEW c \in Int, NEW v \in Int, NEW t \in Texts
  PROVE  \E f : ReplayRun(f, c, v, t)
<1> DEFINE n == Len(t)
           g == [x \in (1..n) \X Int |-> C!Assigned(c, x[2], t[x[1]])]
<1>1. n \in Nat /\ \A k \in 1..n : t[k] \in Lines
  BY TextFacts
<1>2. \A x \in (1..n) \X Int : C!Assigned(c, x[2], t[x[1]]) \in Int
  BY <1>1, AssignedType
<1>3. g \in [(1..n) \X Int -> Int]
  BY <1>2
<1>4. PICK f : IsRecursion(f, Int, v, n, g)
  <2> HIDE DEF g, n
  <2> QED
    BY <1>1, <1>3, RecursionExists
<1>5. ASSUME NEW k \in 1..n PROVE f[k] = C!Assigned(c, f[k - 1], t[k])
  <2>1. f[k - 1] \in Int /\ <<k, f[k - 1]>> \in (1..n) \X Int
    BY <1>1, <1>4, SMTT(30) DEF IsRecursion
  <2> QED
    BY <1>4, <2>1 DEF IsRecursion
<1> QED
  BY <1>4, <1>5 DEF ReplayRun, IsRecursion

\* Replay is where the run ends.
LEMMA ReplayIs ==
  ASSUME NEW c \in Int, NEW v \in Int, NEW t \in Texts, NEW f, ReplayRun(f, c, v, t)
  PROVE  C!Replay(c, v, t) = f[Len(t)] /\ f[Len(t)] \in Int
<1> DEFINE Step(h) == [n \in 0..Len(t) |->
                        IF n = 0 THEN v ELSE C!Assigned(c, h[n - 1], t[n])]
           after == CHOOSE h : h = Step(h)
<1>0. Len(t) \in Nat
  BY TextFacts
<1>1. f = Step(f)
  BY DEF ReplayRun
<1>2. after = Step(after)
  BY <1>1
<1>3. C!Replay(c, v, t) = after[Len(t)]
  BY DEF C!Replay
<1> HIDE DEF after
<1>4. /\ after[0] = v
      /\ \A n \in 1..Len(t) : after[n] = C!Assigned(c, after[n - 1], t[n])
  BY <1>0, <1>2
<1>5. after[Len(t)] = f[Len(t)]
  <2>1. f[0] = after[0]
    BY <1>4 DEF ReplayRun
  <2>2. \A k \in 1..Len(t) : f[k - 1] = after[k - 1] => f[k] = after[k]
    BY <1>4 DEF ReplayRun
  <2> QED
    BY <1>0, <2>1, <2>2, RecursionUnique
<1> QED
  BY <1>0, <1>3, <1>5 DEF ReplayRun

\* Replay yields numbers, and nothing changes without a line.
LEMMA ReplayFacts ==
  ASSUME NEW c \in Int, NEW v \in Int
  PROVE  /\ \A t \in Texts : C!Replay(c, v, t) \in Int
         /\ C!Replay(c, v, <<>>) = v
<1>1. ASSUME NEW t \in Texts PROVE C!Replay(c, v, t) \in Int
  <2>1. PICK f : ReplayRun(f, c, v, t)
    BY ReplayRunExists
  <2> QED
    BY <2>1, ReplayIs
<1>2. C!Replay(c, v, <<>>) = v
  <2>1. <<>> \in Texts /\ Len(<<>>) = 0
    BY TextFacts
  <2>2. PICK f : ReplayRun(f, c, v, <<>>)
    BY <2>1, ReplayRunExists
  <2> QED
    BY <2>1, <2>2, ReplayIs DEF ReplayRun
<1> QED
  BY <1>1, <1>2

\* The first line is replayed first.
LEMMA ReplayHead ==
  ASSUME NEW c \in Int, NEW v \in Int, NEW t \in Texts, t # <<>>
  PROVE  C!Replay(c, v, t) = C!Replay(c, C!Assigned(c, v, Head(t)), Tail(t))
<1> DEFINE rest == Tail(t)
           w == C!Assigned(c, v, Head(t))
<1>1. t \in Seq(Lines) /\ Len(t) \in Nat /\ Head(t) \in Lines /\ rest \in Texts
  BY TextFacts
<1>2. /\ Len(t) >= 1 /\ Len(rest) = Len(t) - 1 /\ Head(t) = t[1]
      /\ \A i \in 1..(Len(t) - 1) : rest[i] = t[i + 1]
  BY <1>1
<1>3. PICK f : ReplayRun(f, c, v, t)
  BY ReplayRunExists
<1>4. w \in Int /\ f[1] = w
  <2>1. 1 \in 1..Len(t) /\ 1 - 1 = 0
    BY <1>1, <1>2
  <2> QED
    BY <1>1, <1>2, <1>3, <2>1, AssignedType DEF ReplayRun
<1> HIDE DEF rest, w
<1> DEFINE g == [n \in 0..(Len(t) - 1) |-> f[n + 1]]
<1>5. ReplayRun(g, c, w, rest)
  <2>1. \A n \in 0..(Len(t) - 1) : n + 1 \in 0..Len(t) /\ f[n + 1] \in Int
    BY <1>1, <1>3 DEF ReplayRun
  <2>2. \A n \in 1..(Len(t) - 1) :
          /\ n + 1 \in 1..Len(t) /\ (n + 1) - 1 = n /\ (n - 1) + 1 = n
          /\ n \in 0..(Len(t) - 1) /\ n - 1 \in 0..(Len(t) - 1)
    BY <1>1
  <2>3. \A n \in 1..(Len(t) - 1) : f[n + 1] = C!Assigned(c, f[n], t[n + 1])
    BY <1>3, <2>2 DEF ReplayRun
  <2>4. g \in [0..Len(rest) -> Int] /\ g[0] = w
    BY <1>1, <1>2, <1>4, <2>1
  <2>5. \A n \in 1..(Len(t) - 1) : g[n] = f[n + 1] /\ g[n - 1] = f[n]
    BY <2>2
  <2> HIDE DEF g
  <2>6. \A n \in 1..Len(rest) : g[n] = C!Assigned(c, g[n - 1], rest[n])
    BY <1>2, <2>3, <2>5
  <2> QED
    BY <2>4, <2>6 DEF ReplayRun
<1>6. C!Replay(c, w, rest) = g[Len(rest)]
  BY <1>1, <1>4, <1>5, ReplayIs
<1>7. g[Len(rest)] = f[Len(t)]
  BY <1>1, <1>2
<1>8. C!Replay(c, v, t) = f[Len(t)]
  BY <1>3, ReplayIs
<1> QED
  BY <1>6, <1>7, <1>8 DEF rest, w

\* There is such a run for any texts.
LEMMA ReplayedRunExists ==
  ASSUME NEW c \in Int, NEW ts \in Seq(Texts)
  PROVE  \E f : ReplayedRun(f, c, ts)
<1> DEFINE n == Len(ts)
           g == [x \in (1..n) \X Int |-> C!Replay(c, x[2], ts[x[1]])]
<1>1. n \in Nat /\ \A k \in 1..n : ts[k] \in Texts
  OBVIOUS
<1>2. \A x \in (1..n) \X Int : C!Replay(c, x[2], ts[x[1]]) \in Int
  BY <1>1, ReplayFacts
<1>3. g \in [(1..n) \X Int -> Int]
  BY <1>2
<1>4. PICK f : IsRecursion(f, Int, 0, n, g)
  <2> HIDE DEF g, n
  <2>1. 0 \in Int
    OBVIOUS
  <2> QED
    BY <1>1, <1>3, <2>1, RecursionExists
<1>5. ASSUME NEW k \in 1..n PROVE f[k] = C!Replay(c, f[k - 1], ts[k])
  <2>1. f[k - 1] \in Int /\ <<k, f[k - 1]>> \in (1..n) \X Int
    BY <1>1, <1>4 DEF IsRecursion
  <2> QED
    BY <1>4, <2>1 DEF IsRecursion
<1> QED
  BY <1>4, <1>5 DEF ReplayedRun, IsRecursion

\* Replayed is where the run ends.
LEMMA ReplayedIs ==
  ASSUME NEW c \in Int, NEW ts \in Seq(Texts), NEW f, ReplayedRun(f, c, ts)
  PROVE  C!Replayed(c, ts) = f[Len(ts)] /\ f[Len(ts)] \in Int
<1> DEFINE Step(h) == [n \in 0..Len(ts) |->
                        IF n = 0 THEN 0 ELSE C!Replay(c, h[n - 1], ts[n])]
           after == CHOOSE h : h = Step(h)
<1>0. Len(ts) \in Nat
  OBVIOUS
<1>1. f = Step(f)
  BY DEF ReplayedRun
<1>2. after = Step(after)
  BY <1>1
<1>3. C!Replayed(c, ts) = after[Len(ts)]
  BY DEF C!Replayed
<1> HIDE DEF after
<1>4. /\ after[0] = 0
      /\ \A n \in 1..Len(ts) : after[n] = C!Replay(c, after[n - 1], ts[n])
  BY <1>0, <1>2
<1>5. after[Len(ts)] = f[Len(ts)]
  <2>1. f[0] = after[0]
    BY <1>4 DEF ReplayedRun
  <2>2. \A k \in 1..Len(ts) : f[k - 1] = after[k - 1] => f[k] = after[k]
    BY <1>4 DEF ReplayedRun
  <2> QED
    BY <1>0, <2>1, <2>2, RecursionUnique
<1> QED
  BY <1>0, <1>3, <1>5 DEF ReplayedRun

\* No text leaves the default, and each text goes on from what the previous
\* ones have left.
LEMMA ReplayedFacts ==
  ASSUME NEW c \in Int
  PROVE  /\ C!Replayed(c, <<>>) = 0
         /\ \A ts \in Seq(Texts) : C!Replayed(c, ts) \in Int
         /\ \A ts \in Seq(Texts), t \in Texts :
              C!Replayed(c, Append(ts, t)) = C!Replay(c, C!Replayed(c, ts), t)
<1>1. C!Replayed(c, <<>>) = 0
  <2>1. <<>> \in Seq(Texts) /\ Len(<<>>) = 0
    OBVIOUS
  <2>2. PICK f : ReplayedRun(f, c, <<>>)
    BY <2>1, ReplayedRunExists
  <2> QED
    BY <2>1, <2>2, ReplayedIs DEF ReplayedRun
<1>2. ASSUME NEW ts \in Seq(Texts) PROVE C!Replayed(c, ts) \in Int
  <2>1. PICK f : ReplayedRun(f, c, ts)
    BY ReplayedRunExists
  <2> QED
    BY <2>1, ReplayedIs
<1>3. ASSUME NEW ts \in Seq(Texts), NEW t \in Texts
      PROVE  C!Replayed(c, Append(ts, t)) = C!Replay(c, C!Replayed(c, ts), t)
  <2> DEFINE all == Append(ts, t)
  <2>1. /\ all \in Seq(Texts) /\ Len(ts) \in Nat /\ Len(all) = Len(ts) + 1
        /\ all[Len(ts) + 1] = t /\ \A n \in 1..Len(ts) : all[n] = ts[n]
    OBVIOUS
  <2> HIDE DEF all
  <2>2. PICK f : ReplayedRun(f, c, all)
    BY <2>1, ReplayedRunExists
  <2> DEFINE g == [n \in 0..Len(ts) |-> f[n]]
  <2>3. ReplayedRun(g, c, ts)
    <3>1. \A n \in 0..Len(ts) : n \in 0..Len(all) /\ f[n] \in Int /\ g[n] = f[n]
      BY <2>1, <2>2 DEF ReplayedRun
    <3>2. \A n \in 1..Len(ts) : /\ n \in 1..Len(all) /\ n \in 0..Len(ts) /\ n - 1 \in 0..Len(ts)
      BY <2>1
    <3>3. \A n \in 1..Len(ts) : f[n] = C!Replay(c, f[n - 1], ts[n])
      BY <2>1, <2>2, <3>2 DEF ReplayedRun
    <3>4. g \in [0..Len(ts) -> Int] /\ g[0] = 0
      BY <2>1, <2>2, <3>1 DEF ReplayedRun
    <3> HIDE DEF g
    <3> QED
      BY <3>1, <3>2, <3>3, <3>4 DEF ReplayedRun
  <2>4. C!Replayed(c, ts) = g[Len(ts)] /\ g[Len(ts)] = f[Len(ts)]
    BY <2>1, <2>3, ReplayedIs
  <2>5. C!Replayed(c, all) = f[Len(ts) + 1]
    BY <2>1, <2>2, ReplayedIs
  <2>6. f[Len(ts) + 1] = C!Replay(c, f[Len(ts)], t)
    <3>1. Len(ts) + 1 \in 1..Len(all) /\ (Len(ts) + 1) - 1 = Len(ts)
      BY <2>1
    <3> QED
      BY <2>1, <2>2, <3>1 DEF ReplayedRun
  <2> QED
    BY <2>4, <2>5, <2>6 DEF all
<1> QED
  BY <1>1, <1>2, <1>3

-----------------------------------------------------------------------------

\* A sequence over a set is one over a larger set.
LEMMA SeqGrows ==
  ASSUME NEW S, NEW T, S \subseteq T
  PROVE  Seq(S) \subseteq Seq(T)
  OBVIOUS

\* More pools allow more.
LEMMA PoolsGrow ==
  ASSUME NEW P, NEW Q, P \subseteq Q
  PROVE  /\ Memory(P) \subseteq Memory(Q) /\ Items(P) \subseteq Items(Q)
         /\ Seq(Items(P)) \subseteq Seq(Items(Q)) /\ Seq(Entries(P)) \subseteq Seq(Entries(Q))
<1>1. Vals(P) \subseteq Vals(Q)
  BY DEF Vals
<1>2. Memory(P) \subseteq Memory(Q)
  BY <1>1 DEF Memory
<1>3. ASSUME NEW it \in Items(P) PROVE it \in Items(Q)
  <2>1. /\ it = [at |-> it.at, copy |-> it.copy, pool |-> it.pool]
        /\ it.at \subseteq Cells /\ it.copy \in [it.at -> Vals(P)] /\ it.pool \in P
    BY ItemIs
  <2>2. it.copy \in [it.at -> Vals(Q)] /\ it.pool \in Q
    BY <1>1, <2>1
  <2> QED
    BY <2>1, <2>2, ItemIs
<1>4. Entries(P) \subseteq Entries(Q)
  BY DEF Entries
<1>5. Items(P) \subseteq Items(Q)
  BY <1>3
<1> QED
  BY <1>2, <1>4, <1>5, SeqGrows

\* The constants of the model.
LEMMA ConfConstants ==
  /\ Cells \subseteq Int /\ 1 \in Cells /\ C!Derived \in Cells
  /\ ConfFiles \cup ConfStrings \subseteq Texts
  /\ \A P : 0 \in P => C!Defaults \in Memory(P)
  /\ \A c \in Cells : C!Defaults[c].v = 0
  /\ <<>> \in Texts
<1>1. C!Derived \in Cells
  BY ConfAssumption DEF C!Derived
<1>2. ConfFiles \cup ConfStrings \subseteq Texts
  BY ConfAssumption DEF Texts
<1>3. \A P : 0 \in P => C!Defaults \in Memory(P)
  BY DEF C!Defaults, Memory, Vals
<1> QED
  BY <1>1, <1>2, <1>3, ConfAssumption, TextFacts DEF C!Defaults

\* The fields of Idle.
LEMMA IdleIs ==
  /\ C!Idle = [name |-> "idle", text |-> <<>>, oldj |-> <<>>, oldEntries |-> <<>>,
               todo |-> <<>>, ec |-> FALSE, before |-> C!Defaults, now |-> <<>>,
               err |-> FALSE]
  BY DEF C!Idle

\* Cells are changed after they were journalled: undoing leads where it led.
LEMMA JournalledWrite ==
  ASSUME NEW P, cells \in Memory(P), journal \in Seq(Items(P)), pool \in P,
         NEW a, a \subseteq Cells, NEW m \in Memory(P), \A c \in Cells \ a : m[c] = cells[c]
  PROVE  /\ <<C!Block(a)>> \o journal \in Seq(Items(P))
         /\ C!Swapped(m, <<C!Block(a)>> \o journal) = C!Swapped(cells, journal)
<1> DEFINE it == C!Block(a)
<1>1. it = [at |-> a, copy |-> [c \in a |-> cells[c]], pool |-> pool]
  BY DEF C!Block
<1>2. [c \in a |-> cells[c]] \in [a -> Vals(P)]
  BY DEF Memory
<1>3. it.at = a /\ it.copy = [c \in a |-> cells[c]] /\ it.pool = pool
  BY <1>1
<1> HIDE DEF it
<1>4. it \in Items(P)
  BY <1>1, <1>2, <1>3, ItemIs
<1>5. C!SwapItem(m, it) = cells
  <2>1. \A c \in Cells : (IF c \in it.at THEN it.copy[c] ELSE m[c]) = cells[c]
    BY <1>3
  <2>2. cells = [c \in Cells |-> cells[c]]
    BY DEF Memory
  <2> QED
    BY <2>1, <2>2 DEF C!SwapItem
<1>6. <<it>> \o journal \in Seq(Items(P))
  BY <1>4
<1>7. C!Swapped(m, <<it>> \o journal) = C!Swapped(cells, journal)
  BY <1>4, <1>5, SwappedNewest
<1> QED
  BY <1>6, <1>7 DEF it

\* The commit hook journals the only cell it changes.
LEMMA HookFacts ==
  ASSUME NEW P, cells \in Memory(P), journal \in Seq(Items(P)), pool \in P
  PROVE  /\ C!HookMemory \in Memory(P)
         /\ <<C!HookItem>> \o journal \in Seq(Items(P))
         /\ C!Swapped(C!HookMemory, <<C!HookItem>> \o journal) = C!Swapped(cells, journal)
         /\ \A c \in Cells \ {C!Derived} : C!HookMemory[c] = cells[c]
<1> DEFINE m == C!HookMemory
           w == [v |-> cells[1].v, pool |-> pool]
<1>1. C!Derived \in Cells /\ 1 \in Cells
  BY ConfConstants
<1>2. w \in Vals(P)
  <2>1. cells[1] \in Vals(P)
    BY <1>1 DEF Memory
  <2> QED
    BY <2>1 DEF Vals
<1>3. m = [cells EXCEPT ![C!Derived] = w]
  BY DEF C!HookMemory
<1> HIDE DEF m, w
<1>4. m \in Memory(P) /\ \A c \in Cells \ {C!Derived} : m[c] = cells[c]
  BY <1>1, <1>2, <1>3 DEF Memory
<1>5. C!HookItem = C!Block({C!Derived}) /\ {C!Derived} \subseteq Cells
  BY <1>1 DEF C!HookItem
<1>6. /\ <<C!Block({C!Derived})>> \o journal \in Seq(Items(P))
      /\ C!Swapped(m, <<C!Block({C!Derived})>> \o journal) = C!Swapped(cells, journal)
  BY <1>4, <1>5, JournalledWrite
<1> QED
  BY <1>4, <1>5, <1>6 DEF m

\* What a state between two operations has to satisfy, ...
LEMMA ToIdle ==
  ASSUME ConfTypes', IdlePools', C!Swapped(cells', journal') = C!Defaults,
         \A c \in Cells \ {C!Derived} : cells'[c].v = C!Replayed(c, unremembered' \o C!TextsOf(entries'))
  PROVE  ConfInv'
<1>1. confOp'.name = "idle"
  BY IdleIs DEF IdlePools
<1> QED
  BY <1>1 DEF ConfInv, ConfPools, C!JournalUndoes, C!Reloading, Explained, C!TextsOf

\* ... one within cf_load or cf_set, ...
LEMMA ToLoad ==
  ASSUME ConfTypes', confOp'.name \in {"load", "set"}, LoadPools',
         C!Swapped(cells', journal') = confOp'.before,
         C!Swapped(confOp'.before, confOp'.oldj) = C!Defaults,
         \A c \in Cells \ {C!Derived} :
           /\ confOp'.before[c].v = C!Replayed(c, unremembered' \o C!TextsOf(entries'))
           /\ ~confOp'.err => C!Replay(c, cells'[c].v, confOp'.text)
                                = C!Replay(c, confOp'.before[c].v, confOp'.now)
  PROVE  ConfInv'
  BY DEF ConfInv, ConfPools, C!JournalUndoes, C!Reloading, Explained, C!TextsOf

\* ... and one within cf_reload.
LEMMA ToReload ==
  ASSUME ConfTypes', confOp'.name \in {"reload", "reload_file"}, ReloadPools',
         C!Swapped(cells', journal') = C!Defaults,
         C!Swapped(C!Defaults, confOp'.oldj) = confOp'.before,
         \A c \in Cells \ {C!Derived} :
           /\ confOp'.before[c].v = C!Replayed(c, unremembered' \o C!TextsOf(confOp'.oldEntries))
           /\ ~confOp'.err =>
                IF confOp'.todo = <<>>
                THEN confOp'.text = <<>> /\ cells'[c].v = C!Replayed(c, ReadTexts')
                ELSE C!Replay(c, cells'[c].v, confOp'.text)
                       = C!Replay(c, C!Replayed(c, ReadTexts'), Head(confOp'.todo).text)
  PROVE  ConfInv'
  BY DEF ConfInv, ConfPools, C!JournalUndoes, C!Reloading, Explained, C!TextsOf

\* Idle is an operation.
LEMMA IdleOps == C!Idle \in Ops
<1>1. /\ <<>> \in Seq(Entries(Nat)) /\ <<>> \in Seq(Items(Nat)) /\ <<>> \in Texts
      /\ C!Defaults \in Memory(Nat)
  BY ConfConstants
<1> QED
  BY <1>1, IdleIs DEF Ops

-----------------------------------------------------------------------------

\* The texts of entries, and of one entry more.
LEMMA TextsOfFacts ==
  ASSUME NEW P, NEW es \in Seq(Entries(P)), NEW bs \in Seq(Texts), NEW e \in Entries(P)
  PROVE  /\ C!TextsOf(es) \in Seq(Texts) /\ bs \o C!TextsOf(es) \in Seq(Texts)
         /\ e.text \in Texts /\ Append(es, e) \in Seq(Entries(P))
         /\ C!TextsOf(Append(es, e)) = Append(C!TextsOf(es), e.text)
         /\ bs \o C!TextsOf(Append(es, e)) = Append(bs \o C!TextsOf(es), e.text)
<1>1. Len(es) \in Nat /\ \A i \in 1..Len(es) : es[i].text \in Texts
  <2>1. Len(es) \in Nat /\ \A i \in 1..Len(es) : es[i] \in Entries(P)
    OBVIOUS
  <2> QED
    BY <2>1 DEF Entries
<1>2. C!TextsOf(es) \in Seq(Texts) /\ Len(C!TextsOf(es)) = Len(es)
  BY <1>1 DEF C!TextsOf
<1>3. e.text \in Texts
  BY DEF Entries
<1>4. C!TextsOf(Append(es, e)) = Append(C!TextsOf(es), e.text)
  <2>1. Len(Append(es, e)) = Len(es) + 1
    OBVIOUS
  <2>2. ASSUME NEW i \in 1..(Len(es) + 1)
        PROVE  Append(es, e)[i].text = IF i <= Len(es) THEN es[i].text ELSE e.text
    BY <1>1
  <2>3. Append(C!TextsOf(es), e.text)
          = [i \in 1..(Len(es) + 1) |-> IF i <= Len(es) THEN es[i].text ELSE e.text]
    BY <1>1, <1>2, <1>3 DEF C!TextsOf
  <2> QED
    BY <2>1, <2>2, <2>3 DEF C!TextsOf
<1>5. \A ts \in Seq(Texts), t \in Texts : bs \o Append(ts, t) = Append(bs \o ts, t)
  OBVIOUS
<1>6. bs \o C!TextsOf(es) \in Seq(Texts)
  BY <1>2
<1> QED
  BY <1>2, <1>3, <1>4, <1>5, <1>6

\* What is known between two operations, ...
LEMMA FromIdle ==
  ASSUME ConfInv, confOp = C!Idle
  PROVE  /\ ConfTypes /\ IdlePools /\ C!Swapped(cells, journal) = C!Defaults
         /\ \A c \in Cells \ {C!Derived} : cells[c].v = C!Replayed(c, unremembered \o C!TextsOf(entries))
<1>1. confOp.name = "idle"
  BY IdleIs
<1> QED
  BY <1>1 DEF ConfInv, ConfPools, C!JournalUndoes, Explained

\* ... within cf_load or cf_set, ...
LEMMA FromLoad ==
  ASSUME ConfInv, confOp.name \in {"load", "set"}
  PROVE  /\ ConfTypes /\ LoadPools /\ C!Swapped(cells, journal) = confOp.before
         /\ C!Swapped(confOp.before, confOp.oldj) = C!Defaults
         /\ \A c \in Cells \ {C!Derived} :
              /\ confOp.before[c].v = C!Replayed(c, unremembered \o C!TextsOf(entries))
              /\ ~confOp.err => C!Replay(c, cells[c].v, confOp.text)
                                  = C!Replay(c, confOp.before[c].v, confOp.now)
  BY DEF ConfInv, ConfPools, C!JournalUndoes, Explained

\* ... and within cf_reload.
LEMMA FromReload ==
  ASSUME ConfInv, C!Reloading
  PROVE  /\ confOp.name \in {"reload", "reload_file"}
         /\ ConfTypes /\ ReloadPools /\ C!Swapped(cells, journal) = C!Defaults
         /\ C!Swapped(C!Defaults, confOp.oldj) = confOp.before
         /\ \A c \in Cells \ {C!Derived} :
              /\ confOp.before[c].v = C!Replayed(c, unremembered \o C!TextsOf(confOp.oldEntries))
              /\ ~confOp.err =>
                   IF confOp.todo = <<>>
                   THEN confOp.text = <<>> /\ cells[c].v = C!Replayed(c, ReadTexts)
                   ELSE C!Replay(c, cells[c].v, confOp.text)
                          = C!Replay(c, C!Replayed(c, ReadTexts), Head(confOp.todo).text)
  BY DEF ConfInv, ConfPools, C!JournalUndoes, Explained, C!Reloading

\* The pools of finished operations have numbers up to the last one.
LEMMA KnownFacts ==
  ASSUME ConfTypes
  PROVE  /\ 0 \in Known /\ Known \subseteq Nat /\ \A p \in Known : p <= lastPool
         /\ Newest \in Known
         /\ Memory(Known) \subseteq Memory(Nat) /\ Seq(Items(Known)) \subseteq Seq(Items(Nat))
         /\ Seq(Entries(Known)) \subseteq Seq(Entries(Nat))
<1>1. 0 \in Known
  BY DEF Known
<1>2. Known \subseteq Nat /\ \A p \in Known : p <= lastPool
  BY DEF ConfTypes
<1>3. Newest \in Known
  <2>1. CASE pools = <<>>
    BY <1>1, <2>1 DEF Newest
  <2>2. CASE pools # <<>>
    <3>1. 1 \in DOMAIN pools /\ Head(pools) = pools[1]
      BY <2>2 DEF ConfTypes
    <3> QED
      BY <2>2, <3>1 DEF Newest, Known, Elements
  <2> QED
    BY <2>1, <2>2
<1> QED
  BY <1>1, <1>2, <1>3, PoolsGrow

\* A new pool is not one of them.
LEMMA FreshPool ==
  ASSUME ConfTypes, C!NewPool, pools' = pools
  PROVE  /\ pool' # 0 /\ pool' \in livePools' /\ pool' \notin Known /\ pool' \in Nat
         /\ Known' = Known /\ lastPool' \in Nat /\ livePools' \subseteq 1..lastPool'
         /\ pools' \in Seq(Nat) /\ Known' \subseteq livePools' \cup {0}
<1>1. /\ lastPool' = lastPool + 1 /\ pool' = lastPool + 1 /\ lastPool \in Nat
      /\ livePools' = livePools \cup {lastPool + 1} /\ livePools \subseteq 1..lastPool
  BY DEF C!NewPool, ConfTypes
<1>2. Known' = Known
  BY DEF Known
<1>3. pool' \notin Known
  BY <1>1, KnownFacts
<1>4. livePools' \subseteq 1..lastPool'
  BY <1>1
<1> QED
  BY <1>1, <1>2, <1>3, <1>4 DEF ConfTypes

\* cf_load begins.
LEMMA LoadStep ==
  ASSUME ConfInv, NEW t \in ConfFiles, C!Load(t)
  PROVE  ConfInv'
<1>1. /\ confOp = C!Idle /\ C!NewPool /\ pools' = pools /\ journal' = <<>> /\ cells' = cells
      /\ UNCHANGED <<entries, postpone, committed, unremembered>>
  BY DEF C!Load
<1>2. /\ ConfTypes /\ IdlePools /\ C!Swapped(cells, journal) = C!Defaults
      /\ \A c \in Cells \ {C!Derived} : cells[c].v = C!Replayed(c, unremembered \o C!TextsOf(entries))
  BY <1>1, FromIdle
<1>3. confOp' = [name |-> "load", text |-> t, oldj |-> journal, oldEntries |-> <<>>,
                 todo |-> <<>>, ec |-> FALSE, before |-> cells, now |-> t, err |-> FALSE]
  BY IdleIs DEF C!Load
<1>4. t \in Texts
  BY ConfConstants
<1>5. /\ cells \in Memory(Known) /\ cells \in Memory(Nat) /\ cells \in Memory(Known \cup {pool'})
      /\ journal \in Seq(Items(Known)) /\ journal \in Seq(Items(Nat))
      /\ entries \in Seq(Entries(Known))
  BY <1>2, KnownFacts, PoolsGrow DEF IdlePools
<1>6. /\ pool' # 0 /\ pool' \in livePools' /\ pool' \notin Known /\ pool' \in Nat
      /\ Known' = Known /\ lastPool' \in Nat /\ livePools' \subseteq 1..lastPool'
      /\ pools' \in Seq(Nat) /\ Known' \subseteq livePools' \cup {0}
  BY <1>1, <1>2, FreshPool
<1>7. confOp' \in Ops
  <2>1. <<>> \in Seq(Entries(Nat))
    OBVIOUS
  <2> QED
    BY <1>3, <1>4, <1>5, <2>1 DEF Ops
<1>8. ConfTypes'
  BY <1>1, <1>2, <1>6, <1>7 DEF ConfTypes
<1>9. LoadPools'
  <2>1. <<>> \in Seq(Items(Known \cup {pool'}))
    OBVIOUS
  <2> QED
    BY <1>1, <1>3, <1>5, <1>6, <2>1 DEF LoadPools
<1>10. C!Swapped(cells', journal') = confOp'.before
  BY <1>1, <1>3, <1>5, SwappedEmpty
<1> QED
  BY <1>1, <1>2, <1>3, <1>8, <1>9, <1>10, ToLoad

\* cf_set begins.
LEMMA SetStep ==
  ASSUME ConfInv, NEW t \in ConfStrings, C!Set(t)
  PROVE  ConfInv'
<1>1. /\ confOp = C!Idle /\ pool # 0 /\ journal' = <<>>
      /\ UNCHANGED <<cells, pool, pools, livePools, lastPool, entries, postpone, committed, unremembered>>
  BY DEF C!Set
<1>2. /\ ConfTypes /\ IdlePools /\ C!Swapped(cells, journal) = C!Defaults
      /\ \A c \in Cells \ {C!Derived} : cells[c].v = C!Replayed(c, unremembered \o C!TextsOf(entries))
  BY <1>1, FromIdle
<1>3. confOp' = [name |-> "set", text |-> t, oldj |-> journal, oldEntries |-> <<>>,
                 todo |-> <<>>, ec |-> FALSE, before |-> cells, now |-> t, err |-> FALSE]
  BY IdleIs DEF C!Set
<1>4. t \in Texts
  BY ConfConstants
<1>5. /\ cells \in Memory(Known) /\ cells \in Memory(Nat) /\ cells \in Memory(Known \cup {pool})
      /\ journal \in Seq(Items(Known)) /\ journal \in Seq(Items(Nat))
      /\ entries \in Seq(Entries(Known))
  BY <1>2, KnownFacts, PoolsGrow DEF IdlePools
<1>6. Known' = Known /\ Newest' = Newest /\ pool = Newest /\ pools # <<>>
  BY <1>1, <1>2 DEF Known, Newest, IdlePools
<1>7. confOp' \in Ops
  <2>1. <<>> \in Seq(Entries(Nat))
    OBVIOUS
  <2> QED
    BY <1>3, <1>4, <1>5, <2>1 DEF Ops
<1>8. ConfTypes'
  BY <1>1, <1>2, <1>6, <1>7 DEF ConfTypes
<1>9. LoadPools'
  <2>1. <<>> \in Seq(Items(Known \cup {pool}))
    OBVIOUS
  <2> QED
    BY <1>1, <1>3, <1>5, <1>6, <2>1 DEF LoadPools
<1>10. C!Swapped(cells', journal') = confOp'.before
  BY <1>1, <1>3, <1>5, SwappedEmpty
<1> QED
  BY <1>1, <1>2, <1>3, <1>8, <1>9, <1>10, ToLoad

\* A pool put in front of the others.
LEMMA Prepended ==
  ASSUME NEW s \in Seq(Nat), NEW p \in Nat, NEW q, q = <<p>> \o s
  PROVE  /\ q \in Seq(Nat) /\ q # <<>> /\ Head(q) = p
         /\ Elements(q) = {p} \cup Elements(s)
<1>1. /\ q \in Seq(Nat) /\ Len(q) = Len(s) + 1 /\ q[1] = p /\ Len(s) \in Nat
      /\ DOMAIN q = 1..(Len(s) + 1) /\ DOMAIN s = 1..Len(s)
      /\ \A i \in 1..Len(s) : q[i + 1] = s[i]
  OBVIOUS
<1>2. q # <<>> /\ Head(q) = p
  BY <1>1
<1>3. \A i \in DOMAIN q : q[i] \in {p} \cup {s[k] : k \in DOMAIN s}
  <2> SUFFICES ASSUME NEW i \in DOMAIN q, i # 1 PROVE \E k \in DOMAIN s : q[i] = s[k]
    BY <1>1
  <2>1. i - 1 \in 1..Len(s) /\ (i - 1) + 1 = i
    BY <1>1
  <2> QED
    BY <1>1, <2>1
<1>4. ASSUME NEW k \in DOMAIN s PROVE s[k] \in {q[i] : i \in DOMAIN q}
  <2>1. k + 1 \in DOMAIN q /\ q[k + 1] = s[k]
    BY <1>1
  <2> QED
    BY <2>1
<1>5. p \in {q[i] : i \in DOMAIN q}
  BY <1>1, SMTT(30)
<1>6. {q[i] : i \in DOMAIN q} = {p} \cup {s[k] : k \in DOMAIN s}
  BY <1>3, <1>4, <1>5
<1> QED
  BY <1>1, <1>2, <1>6 DEF Elements

\* A step between two operations which changes neither memory, nor journal,
\* nor entries.
LEMMA QuietStep ==
  ASSUME ConfInv, confOp = C!Idle, UNCHANGED <<cells, journal, entries, unremembered, confOp>>,
         Known \subseteq Known', pool' = Newest', pool' \in Nat, pools' \in Seq(Nat),
         lastPool' \in Nat, livePools' \subseteq 1..lastPool',
         Known' \subseteq livePools' \cup {0}, postpone' \in Nat, committed' \in BOOLEAN
  PROVE  ConfInv'
<1>1. /\ ConfTypes /\ IdlePools /\ C!Swapped(cells, journal) = C!Defaults
      /\ \A c \in Cells \ {C!Derived} : cells[c].v = C!Replayed(c, unremembered \o C!TextsOf(entries))
  BY FromIdle
<1>2. ConfTypes'
  BY <1>1 DEF ConfTypes
<1>3. IdlePools'
  BY <1>1, PoolsGrow DEF IdlePools
<1> QED
  BY <1>1, <1>2, <1>3, ToIdle

\* cf_load of a missing file.
LEMMA LoadMissingStep == ConfInv /\ C!LoadMissing => ConfInv'
<1> SUFFICES ASSUME ConfInv, C!LoadMissing PROVE ConfInv'
  OBVIOUS
<1>1. /\ confOp = C!Idle /\ lastPool' = lastPool + 1
      /\ pool' = (IF pools = <<>> THEN 0 ELSE Head(pools))
      /\ UNCHANGED <<cells, journal, pools, livePools, entries, postpone, committed, confOp,
                     unremembered>>
  BY DEF C!LoadMissing
<1>2. ConfTypes
  BY DEF ConfInv
<1>3. Known' = Known /\ pool' = Newest' /\ Newest' = Newest
  BY <1>1 DEF Known, Newest
<1>4. Newest \in Nat
  BY <1>2, KnownFacts
<1>5. lastPool' \in Nat /\ livePools' \subseteq 1..lastPool'
  BY <1>1, <1>2 DEF ConfTypes
<1> QED
  BY <1>1, <1>2, <1>3, <1>4, <1>5, QuietStep DEF ConfTypes

\* cf_load_default.
LEMMA LoadDefaultStep == ConfInv /\ C!LoadDefault => ConfInv'
<1> SUFFICES ASSUME ConfInv, C!LoadDefault PROVE ConfInv'
  OBVIOUS
<1>1. /\ confOp = C!Idle /\ lastPool' = lastPool + 1 /\ pool' = lastPool + 1
      /\ livePools' = livePools \cup {lastPool + 1}
      /\ pools' = <<lastPool + 1>> \o pools
      /\ UNCHANGED <<cells, journal, entries, postpone, committed, confOp, unremembered>>
  BY DEF C!LoadDefault, C!NewPool
<1>2. ConfTypes
  BY DEF ConfInv
<1>3. /\ lastPool \in Nat /\ lastPool' \in Nat /\ livePools' \subseteq 1..lastPool'
      /\ pools \in Seq(Nat)
  BY <1>1, <1>2 DEF ConfTypes
<1>4. /\ pools' \in Seq(Nat) /\ pools' # <<>> /\ Head(pools') = lastPool + 1
      /\ Elements(pools') = {lastPool + 1} \cup Elements(pools)
  <2>1. lastPool + 1 \in Nat
    BY <1>3
  <2> QED
    BY <1>1, <1>3, <2>1, Prepended
<1>5. Known' = Known \cup {lastPool + 1} /\ Newest' = lastPool + 1
  BY <1>4 DEF Known, Newest
<1>6. Known' \subseteq livePools' \cup {0}
  BY <1>1, <1>2, <1>5 DEF ConfTypes
<1> QED
  BY <1>1, <1>2, <1>3, <1>4, <1>5, <1>6, QuietStep DEF ConfTypes

\* cf_open_group.
LEMMA OpenGroupStep == ConfInv /\ C!OpenGroup => ConfInv'
<1> SUFFICES ASSUME ConfInv, C!OpenGroup PROVE ConfInv'
  OBVIOUS
<1>1. /\ confOp = C!Idle /\ postpone' = 1
      /\ UNCHANGED <<cells, journal, pool, pools, livePools, lastPool, entries, committed, confOp,
                     unremembered>>
  BY DEF C!OpenGroup
<1>2. ConfTypes /\ IdlePools
  BY <1>1, FromIdle
<1>3. Known' = Known /\ Newest' = Newest
  BY <1>1 DEF Known, Newest
<1> QED
  BY <1>1, <1>2, <1>3, QuietStep DEF ConfTypes, IdlePools

\* cf_close_group.
LEMMA CloseGroupStep == ConfInv /\ C!CloseGroup => ConfInv'
<1> SUFFICES ASSUME ConfInv, C!CloseGroup PROVE ConfInv'
  OBVIOUS
<1>1. /\ confOp = C!Idle /\ postpone' = 0 /\ pool # 0
      /\ UNCHANGED <<pool, pools, livePools, lastPool, entries, confOp, unremembered>>
      /\ committed' = committed \/ committed' = TRUE
      /\ \/ UNCHANGED <<cells, journal>>
         \/ cells' = C!HookMemory /\ journal' = <<C!HookItem>> \o journal
  BY DEF C!CloseGroup
<1>2. /\ ConfTypes /\ IdlePools /\ C!Swapped(cells, journal) = C!Defaults
      /\ \A c \in Cells \ {C!Derived} : cells[c].v = C!Replayed(c, unremembered \o C!TextsOf(entries))
  BY <1>1, FromIdle
<1>3. Known' = Known /\ Newest' = Newest
  BY <1>1 DEF Known, Newest
<1>4. CASE UNCHANGED <<cells, journal>>
  BY <1>1, <1>2, <1>3, <1>4, QuietStep DEF ConfTypes, IdlePools
<1>5. CASE cells' = C!HookMemory /\ journal' = <<C!HookItem>> \o journal
  <2>1. cells \in Memory(Known) /\ journal \in Seq(Items(Known)) /\ pool \in Known
    BY <1>2, KnownFacts DEF IdlePools
  <2>2. /\ cells' \in Memory(Known) /\ journal' \in Seq(Items(Known))
        /\ C!Swapped(cells', journal') = C!Swapped(cells, journal)
        /\ \A c \in Cells \ {C!Derived} : cells'[c] = cells[c]
    BY <1>5, <2>1, HookFacts
  <2>3. ConfTypes'
    BY <1>1, <1>2, <1>3 DEF ConfTypes
  <2>4. IdlePools'
    BY <1>1, <1>2, <1>3, <2>2 DEF IdlePools
  <2> QED
    BY <1>1, <1>2, <2>2, <2>3, <2>4, ToIdle
<1> QED
  BY <1>1, <1>4, <1>5

\* cf_revert: the context is deleted.
LEMMA RevertStep == ConfInv /\ C!Revert => ConfInv'
<1> SUFFICES ASSUME ConfInv, C!Revert PROVE ConfInv'
  OBVIOUS
<1>1. /\ confOp = C!Idle /\ cells' = C!Swapped(cells, journal) /\ pools' = <<>>
      /\ confOp' = [C!Idle EXCEPT !.name = "deleted"] /\ livePools' \subseteq livePools
      /\ UNCHANGED <<pool, lastPool, postpone, committed, unremembered>>
  BY DEF C!Revert
<1>2. ConfTypes /\ C!Swapped(cells, journal) = C!Defaults
  BY <1>1, FromIdle
<1>3. confOp'.name = "deleted" /\ confOp' \in Ops
  <2>1. confOp' = [name |-> "deleted", text |-> <<>>, oldj |-> <<>>, oldEntries |-> <<>>,
                   todo |-> <<>>, ec |-> FALSE, before |-> C!Defaults, now |-> <<>>,
                   err |-> FALSE]
    BY <1>1, IdleIs
  <2>2. /\ <<>> \in Seq(Entries(Nat)) /\ <<>> \in Seq(Items(Nat)) /\ <<>> \in Texts
        /\ C!Defaults \in Memory(Nat)
    BY ConfConstants
  <2> QED
    BY <2>1, <2>2 DEF Ops
<1>4. ConfTypes'
  <2>1. Known' = {0} /\ pools' \in Seq(Nat)
    BY <1>1 DEF Known, Elements
  <2> QED
    BY <1>1, <1>2, <1>3, <2>1 DEF ConfTypes
<1> QED
  BY <1>1, <1>2, <1>3, <1>4 DEF ConfInv, ConfPools, C!JournalUndoes, C!Reloading, Explained

\* cf_interpret_line, as far as memory and journal are concerned.
LEMMA InterpretFacts ==
  ASSUME NEW P, 0 \in P, pool \in P, cells \in Memory(P), journal \in Seq(Items(P)),
         confOp \in Ops, C!Interpret
  PROVE  /\ cells' \in Memory(P) /\ journal' \in Seq(Items(P))
         /\ C!Swapped(cells', journal') = C!Swapped(cells, journal)
         /\ confOp' \in Ops /\ ~confOp.err /\ confOp.text # <<>>
         /\ confOp'.name = confOp.name /\ confOp'.oldj = confOp.oldj
         /\ confOp'.oldEntries = confOp.oldEntries /\ confOp'.todo = confOp.todo
         /\ confOp'.before = confOp.before /\ confOp'.now = confOp.now
         /\ ~confOp'.err => \A c \in Cells : C!Replay(c, cells'[c].v, confOp'.text)
                                               = C!Replay(c, cells[c].v, confOp.text)
<1> DEFINE line == Head(confOp.text)
           last == line.first + Len(line.vals) - 1
           a == line.first..last
           set == IF line.ok THEN a ELSE {line.first}
           val(c) == line.vals[c - line.first + 1]
<1>1. /\ ~confOp.err /\ confOp.text # <<>>
      /\ journal' = <<C!Block(a)>> \o journal
      /\ cells' = [c \in Cells |-> IF c \in set
                                   THEN [v |-> val(c), pool |-> IF line.string THEN pool ELSE 0]
                                   ELSE cells[c]]
      /\ confOp' = [confOp EXCEPT !.text = Tail(confOp.text), !.err = ~line.ok]
  BY DEF C!Interpret
<1>2. confOp.text \in Texts
  BY DEF Ops
<1>3. line \in Lines /\ Tail(confOp.text) \in Texts
  BY <1>1, <1>2, TextFacts
<1>4. line.vals # <<>> /\ a \subseteq Cells
  <2>1. 1 \in DOMAIN confOp.text /\ line = confOp.text[1]
    BY <1>1, <1>2 DEF Texts
  <2> QED
    BY <1>2, <2>1 DEF Texts
<1>5. /\ line.first \in Int /\ line.vals \in Seq(Int) /\ line.ok \in BOOLEAN
      /\ line.string \in BOOLEAN /\ Len(line.vals) \in Nat \ {0}
  BY <1>3, <1>4 DEF Lines
<1>6. \A c \in a : /\ c \in Cells /\ c \in Int
                  /\ c - line.first + 1 \in DOMAIN line.vals /\ val(c) \in Int
  <2> SUFFICES ASSUME NEW c \in a
               PROVE  /\ c \in Cells /\ c \in Int
                      /\ c - line.first + 1 \in DOMAIN line.vals /\ val(c) \in Int
    OBVIOUS
  <2> DEFINE k == c - line.first + 1
  <2>1. c \in Cells /\ c \in Int /\ DOMAIN line.vals = 1..Len(line.vals)
    BY <1>4, <1>5, ConfConstants
  <2>2. k \in 1..Len(line.vals)
    <3> HIDE DEF line
    <3> QED
      BY <1>5, <2>1
  <2>3. val(c) = line.vals[k]
    OBVIOUS
  <2> HIDE DEF k, line, val
  <2>4. line.vals[k] \in Int
    BY <1>5, <2>2
  <2> QED
    BY <2>1, <2>2, <2>3, <2>4 DEF k
<1>7. set \subseteq a
  BY <1>5
<1>8. confOp' \in Ops /\ confOp'.text = Tail(confOp.text) /\ confOp'.err = ~line.ok
  <2> HIDE DEF line
  <2> QED
    BY <1>1, <1>3, <1>5 DEF Ops
<1>9. /\ confOp'.name = confOp.name /\ confOp'.oldj = confOp.oldj
      /\ confOp'.oldEntries = confOp.oldEntries /\ confOp'.todo = confOp.todo
      /\ confOp'.before = confOp.before /\ confOp'.now = confOp.now
  BY <1>1 DEF Ops
<1> HIDE DEF line, last, val, set
<1>10. cells' \in Memory(P)
  <2>1. \A c \in set : [v |-> val(c), pool |-> IF line.string THEN pool ELSE 0] \in Vals(P)
    BY <1>6, <1>7 DEF Vals
  <2> QED
    BY <1>1, <2>1 DEF Memory
<1>11. \A c \in Cells \ a : cells'[c] = cells[c]
  BY <1>1, <1>7
<1>12. /\ journal' \in Seq(Items(P))
       /\ C!Swapped(cells', journal') = C!Swapped(cells, journal)
  BY <1>1, <1>4, <1>10, <1>11, JournalledWrite
<1>13. ASSUME ~confOp'.err, NEW c \in Cells
       PROVE  C!Replay(c, cells'[c].v, confOp'.text) = C!Replay(c, cells[c].v, confOp.text)
  <2>1. set = a /\ c \in Int
    BY <1>5, <1>8, <1>13, ConfConstants DEF set
  <2>2. cells[c].v \in Int
    BY DEF Memory, Vals
  <2>3. cells'[c].v = C!Assigned(c, cells[c].v, line)
    <3>1. CASE c \in a
      <4>1. cells'[c].v = val(c)
        BY <1>1, <2>1, <3>1
      <4> QED
        BY <1>6, <3>1, <4>1 DEF C!Assigned, val
    <3>2. CASE c \notin a
      <4>1. cells'[c].v = cells[c].v
        BY <1>11, <3>2
      <4>2. c - line.first + 1 \notin DOMAIN line.vals
        BY <1>5, <2>1, <3>2 DEF last
      <4> QED
        BY <4>1, <4>2 DEF C!Assigned
    <3> QED
      BY <3>1, <3>2
  <2>4. C!Replay(c, cells[c].v, confOp.text)
          = C!Replay(c, C!Assigned(c, cells[c].v, Head(confOp.text)), Tail(confOp.text))
    BY <1>1, <1>2, <2>1, <2>2, ReplayHead
  <2> QED
    BY <1>8, <2>3, <2>4 DEF line
<1> QED
  BY <1>1, <1>8, <1>9, <1>10, <1>12, <1>13

\* A line is read by cf_load or cf_set, ...
LEMMA InterpretLoad ==
  ASSUME ConfInv, C!Interpret, confOp.name \in {"load", "set"}
  PROVE  ConfInv'
<1>1. /\ ConfTypes /\ LoadPools /\ C!Swapped(cells, journal) = confOp.before
      /\ C!Swapped(confOp.before, confOp.oldj) = C!Defaults
      /\ \A c \in Cells \ {C!Derived} :
           /\ confOp.before[c].v = C!Replayed(c, unremembered \o C!TextsOf(entries))
           /\ ~confOp.err => C!Replay(c, cells[c].v, confOp.text)
                               = C!Replay(c, confOp.before[c].v, confOp.now)
  BY FromLoad
<1>2. UNCHANGED <<pool, pools, livePools, lastPool, entries, postpone, committed, unremembered>>
  BY DEF C!Interpret
<1>3. Known' = Known /\ Newest' = Newest /\ 0 \in Known
  BY <1>2 DEF Known, Newest
<1> DEFINE P == Known \cup {pool}
<1>4. /\ 0 \in P /\ pool \in P /\ cells \in Memory(P) /\ journal \in Seq(Items(P))
      /\ confOp \in Ops
  BY <1>1, <1>3 DEF LoadPools, ConfTypes
<1> HIDE DEF P
<1>5. /\ cells' \in Memory(P) /\ journal' \in Seq(Items(P))
      /\ C!Swapped(cells', journal') = C!Swapped(cells, journal)
      /\ confOp' \in Ops /\ ~confOp.err
      /\ confOp'.name = confOp.name /\ confOp'.oldj = confOp.oldj
      /\ confOp'.oldEntries = confOp.oldEntries
      /\ confOp'.before = confOp.before /\ confOp'.now = confOp.now
      /\ ~confOp'.err => \A c \in Cells : C!Replay(c, cells'[c].v, confOp'.text)
                                            = C!Replay(c, cells[c].v, confOp.text)
  BY <1>4, InterpretFacts
<1>6. ConfTypes'
  BY <1>1, <1>2, <1>3, <1>5 DEF ConfTypes
<1>7. LoadPools'
  BY <1>1, <1>2, <1>3, <1>5 DEF LoadPools, P
<1>8. \A c \in Cells \ {C!Derived} :
           /\ confOp'.before[c].v = C!Replayed(c, unremembered' \o C!TextsOf(entries'))
           /\ ~confOp'.err => C!Replay(c, cells'[c].v, confOp'.text)
                                = C!Replay(c, confOp'.before[c].v, confOp'.now)
  BY <1>1, <1>2, <1>5
<1> QED
  BY <1>1, <1>5, <1>6, <1>7, <1>8, ToLoad

\* ... or by cf_reload.
LEMMA InterpretReload ==
  ASSUME ConfInv, C!Interpret, C!Reloading
  PROVE  ConfInv'
<1>1. /\ confOp.name \in {"reload", "reload_file"}
      /\ ConfTypes /\ ReloadPools /\ C!Swapped(cells, journal) = C!Defaults
      /\ C!Swapped(C!Defaults, confOp.oldj) = confOp.before
      /\ \A c \in Cells \ {C!Derived} :
           /\ confOp.before[c].v = C!Replayed(c, unremembered \o C!TextsOf(confOp.oldEntries))
           /\ ~confOp.err =>
                IF confOp.todo = <<>>
                THEN confOp.text = <<>> /\ cells[c].v = C!Replayed(c, ReadTexts)
                ELSE C!Replay(c, cells[c].v, confOp.text)
                       = C!Replay(c, C!Replayed(c, ReadTexts), Head(confOp.todo).text)
  BY FromReload
<1>2. UNCHANGED <<pool, pools, livePools, lastPool, entries, postpone, committed, unremembered>>
  BY DEF C!Interpret
<1>3. Known' = Known
  BY <1>2 DEF Known
<1> DEFINE P == {0, pool}
<1>4. /\ 0 \in P /\ pool \in P /\ cells \in Memory(P) /\ journal \in Seq(Items(P))
      /\ confOp \in Ops
  BY <1>1 DEF ReloadPools, ConfTypes
<1> HIDE DEF P
<1>5. /\ cells' \in Memory(P) /\ journal' \in Seq(Items(P))
      /\ C!Swapped(cells', journal') = C!Swapped(cells, journal)
      /\ confOp' \in Ops /\ ~confOp.err /\ confOp.text # <<>>
      /\ confOp'.name = confOp.name /\ confOp'.oldj = confOp.oldj
      /\ confOp'.oldEntries = confOp.oldEntries /\ confOp'.todo = confOp.todo
      /\ confOp'.before = confOp.before /\ confOp'.now = confOp.now
      /\ ~confOp'.err => \A c \in Cells : C!Replay(c, cells'[c].v, confOp'.text)
                                            = C!Replay(c, cells[c].v, confOp.text)
  BY <1>4, InterpretFacts
<1>6. ConfTypes'
  BY <1>1, <1>2, <1>3, <1>5 DEF ConfTypes
<1>7. ReloadPools'
  BY <1>1, <1>2, <1>3, <1>5 DEF ReloadPools, P
<1>8. ReadTexts' = ReadTexts
  BY <1>2, <1>5 DEF ReadTexts, C!TextsOf
<1>9. ASSUME NEW c \in Cells \ {C!Derived}
      PROVE  /\ confOp'.before[c].v = C!Replayed(c, unremembered' \o C!TextsOf(confOp'.oldEntries))
             /\ ~confOp'.err =>
                  IF confOp'.todo = <<>>
                  THEN confOp'.text = <<>> /\ cells'[c].v = C!Replayed(c, ReadTexts')
                  ELSE C!Replay(c, cells'[c].v, confOp'.text)
                         = C!Replay(c, C!Replayed(c, ReadTexts'), Head(confOp'.todo).text)
  BY <1>1, <1>2, <1>5, <1>8
<1> QED
  BY <1>1, <1>5, <1>6, <1>7, <1>9, ToReload

\* A line is read, whoever reads it.
LEMMA InterpretStep == ConfInv /\ C!Interpret => ConfInv'
<1> SUFFICES ASSUME ConfInv, C!Interpret PROVE ConfInv'
  OBVIOUS
<1>1. confOp # C!Idle /\ confOp.text # <<>> /\ confOp \in Ops
  BY DEF C!Interpret, ConfInv, ConfTypes
<1>2. confOp.name # "idle" /\ confOp.name # "deleted"
  BY <1>1, IdleIs DEF ConfInv, ConfPools, IdlePools
<1>3. confOp.name \in {"load", "set"} \/ C!Reloading
  BY <1>1, <1>2 DEF Ops, C!Reloading
<1> QED
  BY <1>3, InterpretLoad, InterpretReload

\* The end of cf_load or cf_set with success.
LEMMA LoadDoneStep == ConfInv /\ C!LoadDone => ConfInv'
<1> SUFFICES ASSUME ConfInv, C!LoadDone PROVE ConfInv'
  OBVIOUS
<1> DEFINE m == C!AfterHook
           jj == C!AfterHookJ
           P == Known \cup {pool}
           e == [type |-> IF confOp.name = "load" THEN "file" ELSE "string",
                 text |-> confOp.now, pool |-> pool]
<1>1. /\ confOp.name \in {"load", "set"} /\ ~confOp.err /\ confOp.text = <<>>
      /\ cells' = m /\ journal' = jj \o confOp.oldj
      /\ pools' = IF confOp.name = "load" THEN <<pool>> \o pools ELSE pools
      /\ entries' = Append(entries, e) /\ confOp' = C!Idle
      /\ committed' = (committed \/ postpone = 0)
      /\ UNCHANGED <<pool, livePools, lastPool, postpone, unremembered>>
  BY DEF C!LoadDone, C!CommitTransaction, C!AtEnd, C!Remembered, C!Committed
<1>2. /\ ConfTypes /\ LoadPools /\ C!Swapped(cells, journal) = confOp.before
      /\ C!Swapped(confOp.before, confOp.oldj) = C!Defaults
      /\ \A c \in Cells \ {C!Derived} :
           /\ confOp.before[c].v = C!Replayed(c, unremembered \o C!TextsOf(entries))
           /\ ~confOp.err => C!Replay(c, cells[c].v, confOp.text)
                               = C!Replay(c, confOp.before[c].v, confOp.now)
  BY <1>1, FromLoad
<1>3. /\ cells \in Memory(P) /\ journal \in Seq(Items(P)) /\ pool \in P /\ 0 \in P
      /\ confOp.oldj \in Seq(Items(P)) /\ entries \in Seq(Entries(P)) /\ pool \in Nat
      /\ confOp.now \in Texts /\ unremembered \in Seq(Texts)
  <2>1. confOp.now \in Texts /\ unremembered \in Seq(Texts) /\ pool \in Nat
    BY <1>2 DEF ConfTypes, Ops
  <2>2. Known \subseteq P /\ pool \in P
    OBVIOUS
  <2> HIDE DEF P
  <2>3. confOp.oldj \in Seq(Items(P)) /\ entries \in Seq(Entries(P)) /\ 0 \in P
    BY <1>2, <2>2, PoolsGrow, KnownFacts DEF LoadPools
  <2> QED
    BY <1>2, <2>1, <2>2, <2>3 DEF LoadPools, P
<1>4. Known' = P /\ pools' \in Seq(Nat) /\ Newest' = pool
  <2>1. CASE confOp.name = "load"
    <3>1. pools' = <<pool>> \o pools /\ pools \in Seq(Nat)
      BY <1>1, <1>2, <2>1 DEF ConfTypes
    <3>2. /\ pools' \in Seq(Nat) /\ pools' # <<>> /\ Head(pools') = pool
          /\ Elements(pools') = {pool} \cup Elements(pools)
      BY <1>3, <3>1, Prepended
    <3> QED
      BY <3>2 DEF Known, Newest
  <2>2. CASE confOp.name = "set"
    <3>1. pools' = pools /\ pool = Newest
      BY <1>1, <1>2, <2>2 DEF LoadPools
    <3>2. Known' = Known /\ Newest' = Newest /\ pool \in Known
      BY <1>2, <3>1, KnownFacts DEF Known, Newest
    <3> QED
      BY <1>2, <3>1, <3>2 DEF ConfTypes
  <2> QED
    BY <1>1, <2>1, <2>2
<1>5. P \subseteq livePools \cup {0}
  <2>1. CASE confOp.name = "load"
    BY <1>2, <2>1 DEF LoadPools, ConfTypes
  <2>2. CASE confOp.name = "set"
    BY <1>2, <2>2, KnownFacts DEF LoadPools, ConfTypes
  <2> QED
    BY <1>1, <2>1, <2>2
<1> HIDE DEF P
<1>6. /\ m \in Memory(P) /\ jj \in Seq(Items(P))
      /\ C!Swapped(m, jj) = confOp.before
      /\ \A c \in Cells \ {C!Derived} : m[c] = cells[c]
  BY <1>2, <1>3, HookFacts DEF C!AfterHook, C!AfterHookJ
<1> HIDE DEF m, jj
<1>7. /\ jj \o confOp.oldj \in Seq(Items(P))
      /\ C!Swapped(m, jj \o confOp.oldj) = C!Defaults
  BY <1>2, <1>3, <1>6, SwappedConcat
<1>8. e \in Entries(P) /\ e.text = confOp.now
  BY <1>3 DEF Entries
<1> HIDE DEF e
<1>9. /\ Append(entries, e) \in Seq(Entries(P)) /\ unremembered \o C!TextsOf(entries) \in Seq(Texts)
      /\ unremembered \o C!TextsOf(Append(entries, e)) = Append(unremembered \o C!TextsOf(entries), confOp.now)
  BY <1>3, <1>8, TextsOfFacts
<1>10. ASSUME NEW c \in Cells \ {C!Derived}
       PROVE  cells'[c].v = C!Replayed(c, unremembered' \o C!TextsOf(entries'))
  <2>1. c \in Int /\ cells[c].v \in Int
    BY <1>3, ConfConstants DEF Memory, Vals
  <2>2. C!Replay(c, cells[c].v, <<>>) = cells[c].v
    BY <2>1, ReplayFacts
  <2>3. cells[c].v = C!Replay(c, C!Replayed(c, unremembered \o C!TextsOf(entries)), confOp.now)
    BY <1>1, <1>2, <2>2
  <2>4. cells[c].v = C!Replayed(c, Append(unremembered \o C!TextsOf(entries), confOp.now))
    BY <1>3, <1>9, <2>1, <2>3, ReplayedFacts
  <2> QED
    BY <1>1, <1>6, <1>9, <2>4
<1>11. ConfTypes'
  <2>1. confOp' \in Ops
    BY <1>1, IdleOps
  <2> QED
    BY <1>1, <1>2, <1>4, <1>5, <2>1 DEF ConfTypes
<1>12. IdlePools'
  BY <1>1, <1>4, <1>6, <1>7, <1>9 DEF IdlePools
<1> QED
  BY <1>1, <1>7, <1>10, <1>11, <1>12, ToIdle

\* The new pool is deleted, as the operation has failed.
LEMMA PoolDropped ==
  ASSUME ConfTypes, pools' = pools, lastPool' = lastPool, postpone' \in Nat, unremembered' = unremembered,
         committed' \in BOOLEAN,
         confOp' = C!Idle, pool' = Newest,
         \/ livePools' = livePools
         \/ livePools' = livePools \ {pool} /\ pool \notin Known
  PROVE  ConfTypes' /\ Known' = Known /\ pool' = Newest'
<1>1. Known' = Known /\ Newest' = Newest
  BY DEF Known, Newest
<1>2. confOp' \in Ops /\ pool' \in Nat
  BY IdleOps, KnownFacts
<1> QED
  BY <1>1, <1>2 DEF ConfTypes

\* cf_load or cf_set fails.
LEMMA LoadFailedStep == ConfInv /\ C!LoadFailed => ConfInv'
<1> SUFFICES ASSUME ConfInv, C!LoadFailed PROVE ConfInv'
  OBVIOUS
<1>1. /\ confOp.name \in {"load", "set"}
      /\ cells' = C!Swapped(cells, journal) /\ journal' = confOp.oldj /\ confOp' = C!Idle
      /\ IF confOp.name = "load" THEN livePools' = livePools \ {pool} /\ pool' = Newest
                                 ELSE livePools' = livePools /\ pool' = pool
      /\ UNCHANGED <<pools, lastPool, entries, postpone, committed, unremembered>>
  BY DEF C!LoadFailed, C!RollbackTransaction, Newest
<1>2. /\ ConfTypes /\ LoadPools /\ C!Swapped(cells, journal) = confOp.before
      /\ C!Swapped(confOp.before, confOp.oldj) = C!Defaults
      /\ \A c \in Cells \ {C!Derived} :
           confOp.before[c].v = C!Replayed(c, unremembered \o C!TextsOf(entries))
  BY <1>1, FromLoad
<1>3. /\ pool' = Newest /\ postpone' \in Nat /\ committed' \in BOOLEAN
      /\ \/ livePools' = livePools
         \/ livePools' = livePools \ {pool} /\ pool \notin Known
  BY <1>1, <1>2 DEF LoadPools, ConfTypes
<1>4. ConfTypes' /\ Known' = Known /\ pool' = Newest'
  BY <1>1, <1>2, <1>3, PoolDropped
<1>5. IdlePools'
  BY <1>1, <1>2, <1>4 DEF IdlePools, LoadPools
<1> QED
  BY <1>1, <1>2, <1>4, <1>5, ToIdle

\* cf_reload begins: everything is undone.
LEMMA ReloadStart ==
  ASSUME ConfInv, NEW name \in {"reload", "reload_file"}, NEW texts \in Seq(Entries(Nat)),
         name = "reload_file" => Len(texts) = 1, C!Reload(name, texts)
  PROVE  ConfInv'
<1> DEFINE t == IF texts = <<>> THEN <<>> ELSE Head(texts).text
           back == C!SwappedItems(cells, journal)
<1>1. /\ confOp = C!Idle /\ C!NewPool /\ cells' = C!Swapped(cells, journal)
      /\ journal' = <<>> /\ entries' = <<>> /\ postpone' = postpone + 1
      /\ pools' = pools /\ unremembered' = unremembered /\ committed' = FALSE
  BY DEF C!Reload
<1>2. confOp' = [name |-> name, text |-> t, oldj |-> back, oldEntries |-> entries,
                 todo |-> texts, ec |-> committed, before |-> cells, now |-> t, err |-> FALSE]
  BY IdleIs DEF C!Reload
<1>3. /\ ConfTypes /\ IdlePools /\ C!Swapped(cells, journal) = C!Defaults
      /\ \A c \in Cells \ {C!Derived} : cells[c].v = C!Replayed(c, unremembered \o C!TextsOf(entries))
  BY <1>1, FromIdle
<1>4. /\ cells \in Memory(Known) /\ cells \in Memory(Nat)
      /\ journal \in Seq(Items(Known)) /\ entries \in Seq(Entries(Known))
      /\ entries \in Seq(Entries(Nat))
  BY <1>3, KnownFacts DEF IdlePools
<1>5. /\ back \in Seq(Items(Known)) /\ back \in Seq(Items(Nat))
      /\ C!Swapped(C!Defaults, back) = cells
  BY <1>3, <1>4, SwappedBack, KnownFacts
<1>6. t \in Texts
  <2>1. CASE texts = <<>>
    BY <2>1, ConfConstants
  <2>2. CASE texts # <<>>
    <3>1. Head(texts) \in Entries(Nat)
      BY <2>2
    <3> QED
      BY <2>2, <3>1 DEF Entries
  <2> QED
    BY <2>1, <2>2
<1>7. /\ pool' # 0 /\ pool' \in livePools' /\ pool' \notin Known /\ pool' \in Nat
      /\ Known' = Known /\ lastPool' \in Nat /\ livePools' \subseteq 1..lastPool'
      /\ pools' \in Seq(Nat) /\ Known' \subseteq livePools' \cup {0}
  BY <1>1, <1>3, FreshPool
<1> HIDE DEF back, t
<1>8. confOp' \in Ops
  BY <1>2, <1>3, <1>4, <1>5, <1>6 DEF Ops, ConfTypes
<1>9. ConfTypes'
  <2>1. postpone' \in Nat /\ committed' \in BOOLEAN /\ unremembered' \in Seq(Texts)
    <3>1. postpone \in Nat /\ unremembered \in Seq(Texts)
      BY <1>3 DEF ConfTypes
    <3>2. postpone' = postpone + 1 /\ unremembered' = unremembered /\ committed' = FALSE
      BY <1>1
    <3>3. FALSE \in BOOLEAN /\ postpone + 1 \in Nat
      BY <3>1
    <3> QED
      BY <3>1, <3>2, <3>3, Zenon
  <2> QED
    BY <1>7, <1>8, <2>1 DEF ConfTypes
<1>10. ReloadPools'
  <2>1. /\ <<>> \in Seq(Items({0, pool'})) /\ <<>> \in Seq(Entries({0, pool'}))
        /\ C!Defaults \in Memory({0, pool'})
    BY ConfConstants
  <2>2. postpone' > 0 /\ Len(texts) \in Nat
    BY <1>1, <1>3 DEF ConfTypes
  <2>3. confOp'.name = "reload_file" =>
          /\ entries' = <<>> /\ Len(confOp'.todo) <= 1
          /\ confOp'.todo # <<>> => Head(confOp'.todo).text = confOp'.now
    <3>1. /\ confOp'.name = name /\ confOp'.todo = texts /\ confOp'.now = t
          /\ entries' = <<>>
      BY <1>1, <1>2
    <3>2. texts # <<>> => Head(texts).text = t
      BY DEF t
    <3>3. name = "reload_file" => Len(texts) <= 1
      <4>1. 1 <= 1
        OBVIOUS
      <4>2. name = "reload_file" => Len(texts) = 1
        BY Zenon
      <4> QED
        BY <4>1, <4>2, Zenon
    <3> QED
      BY <3>1, <3>2, <3>3
  <2> QED
    BY <1>1, <1>2, <1>3, <1>4, <1>5, <1>7, <2>1, <2>2, <2>3 DEF ReloadPools
<1>11. C!Swapped(cells', journal') = C!Defaults
  <2>1. C!Defaults \in Memory({0})
    BY ConfConstants
  <2> QED
    BY <1>1, <1>3, <2>1, SwappedEmpty
<1>12. ReadTexts' = <<>>
  <2>1. name = "reload_file" => texts # <<>>
    OBVIOUS
  <2> QED
    BY <1>1, <1>2, <2>1 DEF ReadTexts, C!TextsOf
<1>13. ASSUME NEW c \in Cells \ {C!Derived}
       PROVE  /\ confOp'.before[c].v = C!Replayed(c, unremembered' \o C!TextsOf(confOp'.oldEntries))
              /\ IF confOp'.todo = <<>>
                 THEN confOp'.text = <<>> /\ cells'[c].v = C!Replayed(c, ReadTexts')
                 ELSE C!Replay(c, cells'[c].v, confOp'.text)
                        = C!Replay(c, C!Replayed(c, ReadTexts'), Head(confOp'.todo).text)
  <2>1. cells'[c].v = 0 /\ C!Replayed(c, ReadTexts') = 0
    BY <1>1, <1>3, <1>12, ConfConstants, ReplayedFacts
  <2>2. confOp'.before[c].v = C!Replayed(c, unremembered' \o C!TextsOf(confOp'.oldEntries))
    BY <1>1, <1>2, <1>3
  <2>3. confOp'.todo = texts /\ confOp'.text = t
    BY <1>2
  <2>4. CASE texts = <<>>
    BY <2>1, <2>2, <2>3, <2>4 DEF t
  <2>5. CASE texts # <<>>
    <3>1. t = Head(texts).text
      BY <2>5 DEF t
    <3> QED
      BY <2>1, <2>2, <2>3, <2>5, <3>1
  <2> QED
    BY <2>4, <2>5
<1>14. confOp'.name \in {"reload", "reload_file"} /\ confOp'.oldj = back /\ confOp'.before = cells
  BY <1>2
<1> QED
  BY <1>5, <1>9, <1>10, <1>11, <1>13, <1>14, ToReload

\* cf_reload of one file.
LEMMA ReloadFileStep ==
  ASSUME ConfInv, NEW t \in ConfFiles, C!ReloadFile(t)
  PROVE  ConfInv'
<1> DEFINE e == [type |-> "file", text |-> t, pool |-> 0]
<1>1. e \in Entries(Nat)
  BY ConfConstants DEF Entries
<1>2. C!Reload("reload_file", <<e>>)
  BY DEF C!ReloadFile
<1> HIDE DEF e
<1>3. <<e>> \in Seq(Entries(Nat)) /\ Len(<<e>>) = 1
  BY <1>1
<1> DEFINE texts == <<e>>
           name == "reload_file"
<1>4. name \in {"reload", "reload_file"} /\ texts \in Seq(Entries(Nat)) /\ Len(texts) = 1
  BY <1>3
<1>5. C!Reload(name, texts)
  BY <1>2
<1> HIDE DEF texts, name
<1> QED
  BY <1>4, <1>5, ReloadStart

\* cf_reload of all remembered entries.
LEMMA ReloadAllStep ==
  ASSUME ConfInv, NEW ts \in [1..Len(entries) -> ConfFiles], C!ReloadAll(ts)
  PROVE  ConfInv'
<1> DEFINE again(i) == IF entries[i].type = "file" THEN [entries[i] EXCEPT !.text = ts[i]]
                                                   ELSE entries[i]
           texts == [i \in 1..Len(entries) |-> again(i)]
           name == "reload"
<1>1. C!Reload(name, texts)
  BY DEF C!ReloadAll
<1>2. entries \in Seq(Entries(Nat))
  <2>1. confOp = C!Idle
    BY DEF C!ReloadAll, C!Reload
  <2> QED
    BY <2>1, FromIdle, KnownFacts DEF IdlePools
<1>3. Len(entries) \in Nat /\ \A i \in 1..Len(entries) : entries[i] \in Entries(Nat)
  BY <1>2
<1>4. ASSUME NEW i \in 1..Len(entries) PROVE again(i) \in Entries(Nat)
  <2>1. ts[i] \in Texts /\ entries[i] \in Entries(Nat)
    BY <1>3, ConfConstants
  <2> QED
    BY <2>1 DEF Entries
<1> HIDE DEF again
<1>5. texts \in Seq(Entries(Nat))
  BY <1>3, <1>4
<1>6. name \in {"reload", "reload_file"} /\ name # "reload_file"
  OBVIOUS
<1> HIDE DEF texts, name
<1> QED
  BY <1>1, <1>5, <1>6, ReloadStart

\* What is left of a sequence without its head.
LEMMA RestFacts ==
  ASSUME NEW S, NEW s \in Seq(S), s # <<>>
  PROVE  /\ Head(s) \in S /\ Tail(s) \in Seq(S) /\ Len(s) \in Nat \ {0}
         /\ Len(Tail(s)) = Len(s) - 1
         /\ Len(s) > 1 => Tail(s) # <<>> /\ Head(Tail(s)) = s[2]
         /\ ~(Len(s) > 1) => Tail(s) = <<>>
<1>1. /\ Head(s) \in S /\ Tail(s) \in Seq(S) /\ Len(s) \in Nat \ {0}
      /\ Len(Tail(s)) = Len(s) - 1
  <2>1. Len(s) \in Nat /\ Len(s) # 0
    OBVIOUS
  <2>2. Head(s) \in S /\ Tail(s) \in Seq(S)
    OBVIOUS
  <2>3. Len(Tail(s)) = Len(s) - 1
    BY <2>1
  <2> QED
    BY <2>1, <2>2, <2>3
<1>2. ASSUME Len(s) > 1 PROVE Tail(s) # <<>> /\ Head(Tail(s)) = s[2]
  <2> DEFINE r == Tail(s)
  <2>1. r \in Seq(S) /\ Len(r) # 0 /\ r[1] = s[2]
    BY <1>1, <1>2
  <2> HIDE DEF r
  <2>2. r # <<>> /\ Head(r) = r[1]
    BY <2>1
  <2> QED
    BY <2>1, <2>2 DEF r
<1>3. ASSUME ~(Len(s) > 1) PROVE Tail(s) = <<>>
  <2> DEFINE r == Tail(s)
  <2>1. r \in Seq(S) /\ Len(r) = 0
    BY <1>1, <1>3
  <2> HIDE DEF r
  <2>2. r = <<>>
    BY <2>1
  <2> QED
    BY <2>2 DEF r
<1> QED
  BY <1>1, <1>2, <1>3

\* An entry has been read and cf_reload goes on with the next one.
LEMMA ReloadEntryStep == ConfInv /\ C!ReloadEntry => ConfInv'
<1> SUFFICES ASSUME ConfInv, C!ReloadEntry PROVE ConfInv'
  OBVIOUS
<1> DEFINE h == Head(confOp.todo)
           e == [type |-> h.type, text |-> h.text, pool |-> pool]
           P == {0, pool}
           todo == Tail(confOp.todo)
           next == IF Len(confOp.todo) > 1 THEN confOp.todo[2].text ELSE <<>>
<1>1. /\ C!Reloading /\ ~confOp.err /\ confOp.text = <<>> /\ confOp.todo # <<>>
      /\ entries' = (IF confOp.name = "reload" THEN Append(entries, e) ELSE entries)
      /\ confOp' = [confOp EXCEPT !.todo = todo, !.text = next]
      /\ UNCHANGED <<cells, journal, pool, pools, livePools, lastPool, committed, postpone, unremembered>>
  BY DEF C!ReloadEntry, C!AtEnd, C!Remembered
<1>2. /\ confOp.name \in {"reload", "reload_file"}
      /\ ConfTypes /\ ReloadPools /\ C!Swapped(cells, journal) = C!Defaults
      /\ C!Swapped(C!Defaults, confOp.oldj) = confOp.before
  BY <1>1, FromReload
<1>3. ASSUME NEW c \in Cells \ {C!Derived}
      PROVE  /\ confOp.before[c].v = C!Replayed(c, unremembered \o C!TextsOf(confOp.oldEntries))
             /\ C!Replay(c, cells[c].v, confOp.text)
                  = C!Replay(c, C!Replayed(c, ReadTexts), h.text)
  BY <1>1, FromReload
<1>4. /\ confOp \in Ops /\ confOp.todo \in Seq(Entries(Nat)) /\ confOp.now \in Texts
  BY <1>2 DEF ConfTypes, Ops
<1>5. /\ h \in Entries(Nat) /\ todo \in Seq(Entries(Nat)) /\ Len(confOp.todo) \in Nat \ {0}
      /\ Len(confOp.todo) > 1 => todo # <<>> /\ Head(todo) = confOp.todo[2]
      /\ ~(Len(confOp.todo) > 1) => todo = <<>>
      /\ Len(todo) = Len(confOp.todo) - 1
  <2> DEFINE all == confOp.todo
             S == Entries(Nat)
  <2>1. all \in Seq(S) /\ all # <<>>
    BY <1>1, <1>4
  <2> HIDE DEF all, S
  <2>2. /\ Head(all) \in S /\ Tail(all) \in Seq(S) /\ Len(all) \in Nat \ {0}
        /\ Len(all) > 1 => Tail(all) # <<>> /\ Head(Tail(all)) = all[2]
        /\ ~(Len(all) > 1) => Tail(all) = <<>>
        /\ Len(Tail(all)) = Len(all) - 1
    BY <2>1, RestFacts
  <2> QED
    BY <2>2 DEF all, S
<1>6. /\ todo = <<>> => next = <<>>
      /\ todo # <<>> => next = Head(todo).text /\ Head(todo) \in Entries(Nat)
  BY <1>5
<1>7. next \in Texts
  BY <1>6, ConfConstants DEF Entries
<1>8. e \in Entries(P) /\ e.text = h.text /\ h.text \in Texts
  BY <1>5 DEF Entries
<1> HIDE DEF h, e, todo, next, P
<1>9. /\ confOp' \in Ops /\ confOp'.todo = todo /\ confOp'.text = next
      /\ confOp'.name = confOp.name /\ confOp'.oldj = confOp.oldj
      /\ confOp'.oldEntries = confOp.oldEntries /\ confOp'.before = confOp.before
      /\ confOp'.now = confOp.now /\ confOp'.err = confOp.err
  BY <1>1, <1>4, <1>5, <1>7 DEF Ops
<1>10. Known' = Known
  BY <1>1 DEF Known
<1>11. ConfTypes'
  BY <1>1, <1>2, <1>9, <1>10 DEF ConfTypes
<1>12. entries \in Seq(Entries(P)) /\ unremembered \in Seq(Texts)
  BY <1>2 DEF ReloadPools, ConfTypes, P
<1>13. /\ Append(entries, e) \in Seq(Entries(P)) /\ C!TextsOf(entries) \in Seq(Texts)
       /\ C!TextsOf(Append(entries, e)) = Append(C!TextsOf(entries), h.text)
  BY <1>8, <1>12, TextsOfFacts
<1>14. confOp.name = "reload_file" => /\ todo = <<>> /\ h.text = confOp.now
                                      /\ entries = <<>> /\ Len(todo) <= 1
  <2> SUFFICES ASSUME confOp.name = "reload_file"
               PROVE  /\ todo = <<>> /\ h.text = confOp.now
                      /\ entries = <<>> /\ Len(todo) <= 1
    OBVIOUS
  <2>1. Len(confOp.todo) <= 1 /\ h.text = confOp.now /\ entries = <<>>
    BY <1>1, <1>2 DEF ReloadPools, h
  <2>2. todo = <<>> /\ Len(todo) <= 1
    BY <1>5, <2>1
  <2> QED
    BY <2>1, <2>2
<1>15. ReloadPools'
  <2>1. entries' \in Seq(Entries(P))
    BY <1>1, <1>12, <1>13
  <2>2. confOp'.name = "reload_file" =>
          /\ entries' = <<>> /\ Len(confOp'.todo) <= 1
          /\ confOp'.todo # <<>> => Head(confOp'.todo).text = confOp'.now
    BY <1>1, <1>9, <1>14
  <2> QED
    BY <1>1, <1>2, <1>9, <1>10, <2>1, <2>2 DEF ReloadPools, P
<1>16. ReadTexts \in Seq(Texts) /\ ReadTexts' = Append(ReadTexts, h.text)
  <2>1. CASE confOp.name = "reload"
    <3>1. ReadTexts = C!TextsOf(entries) /\ ReadTexts' = C!TextsOf(entries')
      BY <1>9, <2>1 DEF ReadTexts
    <3> QED
      BY <1>1, <1>13, <2>1, <3>1
  <2>2. CASE confOp.name = "reload_file"
    <3>1. ReadTexts = <<>>
      BY <1>1, <2>2 DEF ReadTexts
    <3>2. ReadTexts' = <<confOp.now>>
      BY <1>9, <1>14, <2>2 DEF ReadTexts
    <3>3. Append(<<>>, confOp.now) = <<confOp.now>>
      OBVIOUS
    <3>4. <<>> \in Seq(Texts)
      OBVIOUS
    <3> QED
      BY <1>14, <2>2, <3>1, <3>2, <3>3, <3>4
  <2> QED
    BY <1>2, <2>1, <2>2
<1>17. ASSUME NEW c \in Cells \ {C!Derived}
       PROVE  /\ confOp'.before[c].v = C!Replayed(c, unremembered' \o C!TextsOf(confOp'.oldEntries))
              /\ IF confOp'.todo = <<>>
                 THEN confOp'.text = <<>> /\ cells'[c].v = C!Replayed(c, ReadTexts')
                 ELSE C!Replay(c, cells'[c].v, confOp'.text)
                        = C!Replay(c, C!Replayed(c, ReadTexts'), Head(confOp'.todo).text)
  <2>1. c \in Int /\ cells[c].v \in Int
    BY <1>2, ConfConstants DEF ReloadPools, Memory, Vals
  <2>2. C!Replay(c, cells[c].v, <<>>) = cells[c].v
    BY <2>1, ReplayFacts
  <2>3. cells[c].v = C!Replayed(c, Append(ReadTexts, h.text))
    BY <1>1, <1>3, <1>8, <1>16, <2>1, <2>2, ReplayedFacts
  <2>4. cells'[c].v = C!Replayed(c, ReadTexts')
    BY <1>1, <1>16, <2>3
  <2>5. confOp'.before[c].v = C!Replayed(c, unremembered' \o C!TextsOf(confOp'.oldEntries))
    BY <1>1, <1>3, <1>9
  <2>6. CASE todo = <<>>
    BY <1>6, <1>9, <2>4, <2>5, <2>6
  <2>7. CASE todo # <<>>
    BY <1>6, <1>9, <2>4, <2>5, <2>7
  <2> QED
    BY <2>6, <2>7
<1> QED
  BY <1>1, <1>2, <1>9, <1>11, <1>15, <1>17, ToReload

\* A file of cf_reload cannot be opened.
LEMMA ReloadMissingStep == ConfInv /\ C!ReloadMissing => ConfInv'
<1> SUFFICES ASSUME ConfInv, C!ReloadMissing PROVE ConfInv'
  OBVIOUS
<1>1. /\ C!Reloading /\ confOp' = [confOp EXCEPT !.err = TRUE]
      /\ UNCHANGED <<cells, journal, pool, pools, livePools, lastPool, entries, committed,
                     postpone, unremembered>>
  BY DEF C!ReloadMissing
<1>2. /\ confOp.name \in {"reload", "reload_file"}
      /\ ConfTypes /\ ReloadPools /\ C!Swapped(cells, journal) = C!Defaults
      /\ C!Swapped(C!Defaults, confOp.oldj) = confOp.before
      /\ \A c \in Cells \ {C!Derived} :
           confOp.before[c].v = C!Replayed(c, unremembered \o C!TextsOf(confOp.oldEntries))
  BY <1>1, FromReload
<1>3. confOp \in Ops
  BY <1>2 DEF ConfTypes
<1>4. /\ confOp' \in Ops /\ confOp'.todo = confOp.todo /\ confOp'.err = TRUE
      /\ confOp'.name = confOp.name /\ confOp'.oldj = confOp.oldj
      /\ confOp'.oldEntries = confOp.oldEntries /\ confOp'.before = confOp.before
      /\ confOp'.now = confOp.now
  BY <1>1, <1>3 DEF Ops
<1>5. Known' = Known
  BY <1>1 DEF Known
<1>6. ConfTypes'
  BY <1>1, <1>2, <1>4, <1>5 DEF ConfTypes
<1>7. ReloadPools'
  BY <1>1, <1>2, <1>4, <1>5 DEF ReloadPools
<1> QED
  BY <1>1, <1>2, <1>4, <1>6, <1>7, ToReload

\* cf_reload succeeds: the old pools are deleted.
LEMMA ReloadDoneStep == ConfInv /\ C!ReloadDone => ConfInv'
<1> SUFFICES ASSUME ConfInv, C!ReloadDone PROVE ConfInv'
  OBVIOUS
<1> DEFINE P == {0, pool}
<1>1. /\ C!Reloading /\ ~confOp.err /\ confOp.text = <<>> /\ confOp.todo = <<>>
      /\ postpone' = postpone - 1 /\ committed' \in BOOLEAN
      /\ \/ UNCHANGED <<cells, journal>>
         \/ cells' = C!HookMemory /\ journal' = <<C!HookItem>> \o journal
      /\ livePools' = livePools \ Elements(pools) /\ pools' = <<pool>>
      /\ unremembered' = (IF confOp.name = "reload_file" THEN <<confOp.now>> ELSE <<>>)
      /\ confOp' = C!Idle /\ UNCHANGED <<pool, lastPool, entries>>
  BY DEF C!ReloadDone, C!AtEnd, C!GroupClosed, C!ToSet, Elements
<1>2. /\ confOp.name \in {"reload", "reload_file"}
      /\ ConfTypes /\ ReloadPools /\ C!Swapped(cells, journal) = C!Defaults
  BY <1>1, FromReload
<1>3. \A c \in Cells \ {C!Derived} : cells[c].v = C!Replayed(c, ReadTexts)
  BY <1>1, FromReload
<1>4. /\ cells \in Memory(P) /\ journal \in Seq(Items(P)) /\ entries \in Seq(Entries(P))
      /\ pool \in Nat /\ pool \in livePools /\ pool \notin Known /\ confOp.now \in Texts
      /\ postpone \in Nat /\ postpone > 0
  BY <1>2 DEF ReloadPools, ConfTypes, Ops
<1>5. Known' = P /\ Newest' = pool /\ pools' \in Seq(Nat) /\ pool \in P
  <2>1. /\ pools' \in Seq(Nat) /\ pools' # <<>> /\ Head(pools') = pool
        /\ DOMAIN pools' = {1} /\ pools'[1] = pool
    BY <1>1, <1>4
  <2>2. Elements(pools') = {pool}
    BY <2>1 DEF Elements
  <2> QED
    BY <2>1, <2>2 DEF Known, Newest
<1>6. livePools' \subseteq 1..lastPool' /\ Known' \subseteq livePools' \cup {0}
  <2>1. pool \notin Elements(pools)
    BY <1>4 DEF Known
  <2>2. livePools \subseteq 1..lastPool
    BY <1>2 DEF ConfTypes
  <2> QED
    BY <1>1, <1>4, <1>5, <2>1, <2>2
<1> HIDE DEF P
<1>7. /\ cells' \in Memory(P) /\ journal' \in Seq(Items(P))
      /\ C!Swapped(cells', journal') = C!Defaults
      /\ \A c \in Cells \ {C!Derived} : cells'[c] = cells[c]
  <2>1. CASE UNCHANGED <<cells, journal>>
    BY <1>2, <1>4, <2>1
  <2>2. CASE cells' = C!HookMemory /\ journal' = <<C!HookItem>> \o journal
    BY <1>2, <1>4, <1>5, <2>2, HookFacts
  <2> QED
    BY <1>1, <2>1, <2>2
<1>8. unremembered' \in Seq(Texts) /\ unremembered' \o C!TextsOf(entries') = ReadTexts
  <2>1. CASE confOp.name = "reload"
    <3>1. Len(entries) \in Nat /\ \A i \in 1..Len(entries) : entries[i].text \in Texts
      <4>1. Len(entries) \in Nat /\ \A i \in 1..Len(entries) : entries[i] \in Entries(P)
        BY <1>4
      <4> QED
        BY <4>1 DEF Entries
    <3>2. C!TextsOf(entries) \in Seq(Texts)
      BY <3>1 DEF C!TextsOf
    <3>3. unremembered' = <<>> /\ ReadTexts = C!TextsOf(entries) /\ entries' = entries
      BY <1>1, <2>1 DEF ReadTexts
    <3>4. \A s \in Seq(Texts) : <<>> \o s = s
      OBVIOUS
    <3> QED
      BY <3>2, <3>3, <3>4
  <2>2. CASE confOp.name = "reload_file"
    <3>1. unremembered' = <<confOp.now>> /\ ReadTexts = <<confOp.now>> /\ entries' = <<>>
      BY <1>1, <1>2, <2>2 DEF ReadTexts, ReloadPools
    <3>2. C!TextsOf(<<>>) = <<>>
      BY DEF C!TextsOf
    <3>3. <<confOp.now>> \in Seq(Texts) /\ <<confOp.now>> \o <<>> = <<confOp.now>>
      BY <1>4
    <3> QED
      BY <3>1, <3>2, <3>3
  <2> QED
    BY <1>2, <2>1, <2>2
<1>9. ConfTypes'
  <2>1. confOp' \in Ops /\ postpone' \in Nat /\ lastPool' \in Nat /\ pool' \in Nat
    BY <1>1, <1>2, <1>4, IdleOps DEF ConfTypes
  <2> QED
    BY <1>1, <1>5, <1>6, <1>8, <2>1 DEF ConfTypes
<1>10. IdlePools'
  BY <1>1, <1>4, <1>5, <1>7 DEF IdlePools
<1> QED
  BY <1>3, <1>7, <1>8, <1>9, <1>10, ToIdle

\* cf_reload fails: what it has done is undone and what it has undone is done
\* again.
LEMMA ReloadFailedStep ==
  ConfInv /\ C!ReloadFailed => ConfInv' /\ cells' = confOp.before
<1> SUFFICES ASSUME ConfInv, C!ReloadFailed PROVE ConfInv' /\ cells' = confOp.before
  OBVIOUS
<1> DEFINE clean == C!Swapped(cells, journal)
<1>1. /\ C!Reloading /\ postpone' = postpone - 1
      /\ cells' = C!Swapped(clean, confOp.oldj)
      /\ journal' = C!SwappedItems(clean, confOp.oldj)
      /\ livePools' = livePools \ {pool} /\ pool' = Newest
      /\ committed' = confOp.ec /\ entries' = confOp.oldEntries
      /\ confOp' = C!Idle /\ UNCHANGED <<pools, lastPool, unremembered>>
  BY DEF C!ReloadFailed, C!RollbackTransaction, C!GroupClosed, Newest
<1>2. /\ ConfTypes /\ ReloadPools /\ clean = C!Defaults
      /\ C!Swapped(C!Defaults, confOp.oldj) = confOp.before
      /\ \A c \in Cells \ {C!Derived} :
           confOp.before[c].v = C!Replayed(c, unremembered \o C!TextsOf(confOp.oldEntries))
  BY <1>1, FromReload
<1> HIDE DEF clean
<1>3. /\ confOp.before \in Memory(Known) /\ confOp.oldj \in Seq(Items(Known))
      /\ confOp.oldEntries \in Seq(Entries(Known)) /\ confOp.ec \in BOOLEAN
      /\ postpone \in Nat /\ postpone > 0 /\ pool \notin Known
  BY <1>2 DEF ReloadPools, ConfTypes, Ops
<1>4. C!Defaults \in Memory(Known)
  BY <1>2, KnownFacts, ConfConstants
<1>5. /\ cells' = confOp.before /\ journal' \in Seq(Items(Known))
      /\ C!Swapped(cells', journal') = C!Defaults
  BY <1>1, <1>2, <1>3, <1>4, SwappedBack
<1>6. postpone' \in Nat
  BY <1>1, <1>3
<1>7. ConfTypes' /\ Known' = Known /\ pool' = Newest'
  BY <1>1, <1>2, <1>3, <1>6, PoolDropped
<1>8. IdlePools'
  BY <1>1, <1>3, <1>5, <1>7 DEF IdlePools
<1>9. \A c \in Cells \ {C!Derived} : cells'[c].v = C!Replayed(c, unremembered' \o C!TextsOf(entries'))
  BY <1>1, <1>2, <1>5
<1> QED
  BY <1>5, <1>7, <1>8, <1>9, ToIdle

-----------------------------------------------------------------------------

\* The program starts without any configuration.
LEMMA ConfInit == C!Init => ConfInv
<1> SUFFICES ASSUME C!Init PROVE ConfInv
  OBVIOUS
<1>1. /\ cells = C!Defaults /\ journal = <<>> /\ pool = 0 /\ pools = <<>> /\ livePools = {}
      /\ lastPool = 0 /\ entries = <<>> /\ committed = FALSE /\ postpone = 0
      /\ confOp = C!Idle /\ unremembered = <<>>
  BY DEF C!Init
<1>2. Known = {0} /\ Newest = 0
  BY <1>1 DEF Known, Newest, Elements
<1>3. /\ C!Defaults \in Memory({0}) /\ <<>> \in Seq(Items({0})) /\ <<>> \in Seq(Entries({0}))
      /\ <<>> \in Seq(Nat) /\ <<>> \in Seq(Texts) /\ confOp \in Ops
  BY <1>1, ConfConstants, IdleOps
<1>4. ConfTypes
  BY <1>1, <1>2, <1>3 DEF ConfTypes
<1>5. IdlePools
  BY <1>1, <1>2, <1>3 DEF IdlePools
<1>6. confOp.name = "idle"
  BY <1>1, IdleIs
<1>7. C!JournalUndoes
  <2>1. C!Swapped(cells, journal) = C!Defaults
    BY <1>1, <1>3, SwappedEmpty
  <2> QED
    BY <1>6, <2>1 DEF C!JournalUndoes, C!Reloading
<1>8. ASSUME NEW c \in Cells \ {C!Derived} PROVE Explained(c)
  <2>1. unremembered \o C!TextsOf(entries) = <<>>
    <3>1. C!TextsOf(<<>>) = <<>> /\ <<>> \o <<>> = <<>>
      BY DEF C!TextsOf
    <3> QED
      BY <1>1, <3>1
  <2>2. cells[c].v = 0 /\ C!Replayed(c, <<>>) = 0
    BY <1>1, ConfConstants, ReplayedFacts
  <2> QED
    BY <1>6, <2>1, <2>2 DEF Explained
<1> QED
  BY <1>4, <1>5, <1>6, <1>7, <1>8 DEF ConfInv, ConfPools

\* Every step keeps the invariant.
LEMMA ConfNext == ConfInv /\ [C!Next]_(C!confVars) => ConfInv'
<1> SUFFICES ASSUME ConfInv, [C!Next]_(C!confVars) PROVE ConfInv'
  OBVIOUS
<1>1. ASSUME NEW t \in ConfFiles, C!Load(t) PROVE ConfInv'
  BY <1>1, LoadStep
<1>2. ASSUME NEW t \in ConfFiles, C!ReloadFile(t) PROVE ConfInv'
  BY <1>2, ReloadFileStep
<1>3. ASSUME NEW t \in ConfStrings, C!Set(t) PROVE ConfInv'
  BY <1>3, SetStep
<1>4. ASSUME NEW ts \in [1..Len(entries) -> ConfFiles], C!ReloadAll(ts) PROVE ConfInv'
  BY <1>4, ReloadAllStep
<1>5. CASE C!LoadMissing
  BY <1>5, LoadMissingStep
<1>6. CASE C!LoadDefault
  BY <1>6, LoadDefaultStep
<1>7. CASE C!Interpret
  BY <1>7, InterpretStep
<1>8. CASE C!LoadDone
  BY <1>8, LoadDoneStep
<1>9. CASE C!LoadFailed
  BY <1>9, LoadFailedStep
<1>10. CASE C!ReloadEntry
  BY <1>10, ReloadEntryStep
<1>11. CASE C!ReloadDone
  BY <1>11, ReloadDoneStep
<1>12. CASE C!ReloadFailed
  BY <1>12, ReloadFailedStep
<1>13. CASE C!ReloadMissing
  BY <1>13, ReloadMissingStep
<1>14. CASE C!OpenGroup
  BY <1>14, OpenGroupStep
<1>15. CASE C!CloseGroup
  BY <1>15, CloseGroupStep
<1>16. CASE C!Revert
  BY <1>16, RevertStep
<1>17. CASE UNCHANGED C!confVars
  <2>1. UNCHANGED <<cells, journal, pool, pools, livePools, lastPool, entries, committed,
                    postpone, confOp, unremembered>>
    BY <1>17 DEF C!confVars
  <2>2. Known' = Known /\ Newest' = Newest /\ ReadTexts' = ReadTexts
    BY <2>1 DEF Known, Newest, Elements, ReadTexts, C!TextsOf
  <2>3. ConfTypes' = ConfTypes
    BY <2>1, <2>2 DEF ConfTypes
  <2>4. ConfPools' = ConfPools
    <3>1. IdlePools' = IdlePools /\ LoadPools' = LoadPools /\ ReloadPools' = ReloadPools
      BY <2>1, <2>2 DEF IdlePools, LoadPools, ReloadPools
    <3> QED
      BY <2>1, <3>1 DEF ConfPools
  <2>5. C!JournalUndoes' = C!JournalUndoes
    BY <2>1 DEF C!JournalUndoes, C!Reloading
  <2>6. ASSUME NEW c \in Cells \ {C!Derived} PROVE Explained(c)' = Explained(c)
    BY <2>1, <2>2 DEF Explained, C!TextsOf
  <2> QED
    BY <2>3, <2>4, <2>5, <2>6 DEF ConfInv
<1> QED
  BY <1>1, <1>2, <1>3, <1>4, <1>5, <1>6, <1>7, <1>8, <1>9, <1>10, <1>11, <1>12, <1>13,
     <1>14, <1>15, <1>16, <1>17 DEF C!Next

\* The configuration always satisfies ConfInv.
THEOREM ConfInvariance == C!Spec => []ConfInv
  BY ConfInit, ConfNext, PTL DEF C!Spec

\* At every moment the journal leads back to where it has to, and an operation
\* which fails leaves the memory and the entries it found (cf_journal_swap,
\* cf_journal_rollback_transaction, cf_reload).
THEOREM JournalUndoesTheorem == C!Spec => JournalUndoes
<1> DEFINE Restored == C!LoadFailed \/ C!ReloadFailed =>
                         /\ cells' = confOp.before
                         /\ entries' = IF C!Reloading THEN confOp.oldEntries ELSE entries
<1>1. ConfInv => C!JournalUndoes
  BY DEF ConfInv
<1>2. ConfInv /\ [C!Next]_(C!confVars) => [Restored]_(C!confVars)
  <2> SUFFICES ASSUME ConfInv PROVE Restored
    OBVIOUS
  <2>1. ASSUME C!LoadFailed
        PROVE  /\ cells' = confOp.before
               /\ entries' = IF C!Reloading THEN confOp.oldEntries ELSE entries
    <3>1. /\ confOp.name \in {"load", "set"} /\ cells' = C!Swapped(cells, journal)
          /\ entries' = entries
      BY <2>1 DEF C!LoadFailed
    <3>2. C!Swapped(cells, journal) = confOp.before /\ ~C!Reloading
      BY <3>1, FromLoad DEF C!Reloading
    <3> QED
      BY <3>1, <3>2
  <2>2. ASSUME C!ReloadFailed
        PROVE  /\ cells' = confOp.before
               /\ entries' = IF C!Reloading THEN confOp.oldEntries ELSE entries
    <3>1. C!Reloading /\ entries' = confOp.oldEntries
      BY <2>2 DEF C!ReloadFailed
    <3> QED
      BY <2>2, <3>1, ReloadFailedStep
  <2> QED
    BY <2>1, <2>2
<1> HIDE DEF Restored
<1>3. C!Spec => [][Restored]_(C!confVars)
  BY <1>2, ConfInvariance, PTL DEF C!Spec
<1>4. [][Restored]_(C!confVars) => C!FailureRestores
  BY DEF Restored, C!FailureRestores
<1>5. C!Spec => []C!JournalUndoes
  BY <1>1, ConfInvariance, PTL
<1>6. C!Spec => C!JournalUndoes /\ [][C!JournalUndoes']_(C!confVars)
  BY <1>5, PTL
<1> QED
  BY <1>3, <1>4, <1>6 DEF JournalUndoes

\* The pools of memory, journals and entries typed by P lie in P.
LEMMA PoolsWithin ==
  ASSUME NEW P
  PROVE  /\ \A m \in Memory(P) : {m[c].pool : c \in Cells} \subseteq P
         /\ \A j \in Seq(Items(P)) :
              UNION {{it.pool} \cup {it.copy[c].pool : c \in it.at} : it \in C!ToSet(j)}
                \subseteq P
         /\ \A es \in Seq(Entries(P)) : {e.pool : e \in C!ToSet(es)} \subseteq P
<1>1. ASSUME NEW m \in Memory(P) PROVE {m[c].pool : c \in Cells} \subseteq P
  BY DEF Memory, Vals
<1>2. ASSUME NEW it \in Items(P)
      PROVE  {it.pool} \cup {it.copy[c].pool : c \in it.at} \subseteq P
  BY ItemIs DEF Vals
<1>3. ASSUME NEW S, NEW s \in Seq(S) PROVE C!ToSet(s) \subseteq S
  BY DEF C!ToSet
<1>4. ASSUME NEW j \in Seq(Items(P))
      PROVE  UNION {{it.pool} \cup {it.copy[c].pool : c \in it.at} : it \in C!ToSet(j)}
               \subseteq P
  <2>1. C!ToSet(j) \subseteq Items(P)
    BY <1>3
  <2> QED
    BY <1>2, <2>1
<1>5. ASSUME NEW es \in Seq(Entries(P)) PROVE {e.pool : e \in C!ToSet(es)} \subseteq P
  <2>1. C!ToSet(es) \subseteq Entries(P)
    BY <1>3
  <2> QED
    BY <2>1 DEF Entries
<1> QED
  BY <1>1, <1>4, <1>5

\* Nothing in use lies in a deleted pool, whatever operation is running.
LEMMA NoDangling == ConfInv => C!NoDanglingConfig
<1> SUFFICES ASSUME ConfInv, confOp.name # "deleted"
             PROVE  /\ {cells[c].pool : c \in Cells} \subseteq livePools \cup {0}
                    /\ \A j \in {journal, confOp.oldj} :
                         UNION {{it.pool} \cup {it.copy[c].pool : c \in it.at} :
                                  it \in C!ToSet(j)} \subseteq livePools \cup {0}
                    /\ {e.pool : e \in C!ToSet(entries)} \subseteq livePools \cup {0}
                    /\ {e.pool : e \in C!ToSet(confOp.oldEntries)} \subseteq livePools \cup {0}
                    /\ {pool} \cup C!ToSet(pools) \subseteq livePools \cup {0}
  BY DEF C!NoDanglingConfig
<1> DEFINE P == livePools \cup {0}
<1>1. ConfTypes /\ confOp \in Ops /\ Known \subseteq P /\ 0 \in P /\ {0} \subseteq P
  BY DEF ConfInv, ConfTypes
<1>2. C!ToSet(pools) \subseteq P
  BY <1>1 DEF C!ToSet, Known, Elements
<1> HIDE DEF P
<1>3. ASSUME NEW Q, Q \subseteq P
      PROVE  /\ Memory(Q) \subseteq Memory(P) /\ Seq(Items(Q)) \subseteq Seq(Items(P))
             /\ Seq(Entries(Q)) \subseteq Seq(Entries(P))
  BY <1>3, PoolsGrow
<1>4. <<>> \in Seq(Items(P)) /\ <<>> \in Seq(Entries(P))
  OBVIOUS
<1>5. /\ cells \in Memory(P) /\ journal \in Seq(Items(P)) /\ confOp.oldj \in Seq(Items(P))
      /\ entries \in Seq(Entries(P)) /\ confOp.oldEntries \in Seq(Entries(P)) /\ pool \in P
  <2>1. CASE confOp.name = "idle"
    <3>1. IdlePools
      BY <2>1 DEF ConfInv, ConfPools
    <3>2. confOp.oldj = <<>> /\ confOp.oldEntries = <<>> /\ pool \in Known
      BY <1>1, <3>1, IdleIs, KnownFacts DEF IdlePools
    <3> QED
      BY <1>1, <1>3, <1>4, <3>1, <3>2 DEF IdlePools
  <2>2. CASE confOp.name \in {"load", "set"}
    <3>1. LoadPools
      BY <2>2 DEF ConfInv, ConfPools
    <3>2. pool \in P
      BY <1>1, <2>2, <3>1, KnownFacts DEF LoadPools, P
    <3>3. Known \cup {pool} \subseteq P
      BY <1>1, <3>2
    <3> QED
      BY <1>1, <1>3, <1>4, <3>1, <3>2, <3>3 DEF LoadPools
  <2>3. CASE confOp.name \in {"reload", "reload_file"}
    <3>1. ReloadPools
      BY <2>3 DEF ConfInv, ConfPools
    <3>2. pool \in P /\ {0, pool} \subseteq P
      BY <1>1, <3>1 DEF ReloadPools, P
    <3> QED
      BY <1>1, <1>3, <3>1, <3>2 DEF ReloadPools
  <2> QED
    BY <1>1, <2>1, <2>2, <2>3 DEF Ops
<1> QED
  BY <1>2, <1>5, PoolsWithin DEF P

\* No value in use lies in a deleted pool, and between the operations the
\* values are what the file of the last cf_reload(file), which the code does
\* not remember, and then the remembered files and strings set
\* (cf_remember_entry, cf_reload, cf_journal_delete).
THEOREM ConfSoundTheorem == C!Spec => []ConfSound
<1>1. ConfInv => ConfSound
  <2> SUFFICES ASSUME ConfInv PROVE C!NoDanglingConfig /\ C!EntriesExplainConfig
    BY DEF ConfSound
  <2>1. C!EntriesExplainConfig
    BY FromIdle DEF C!EntriesExplainConfig
  <2> QED
    BY <2>1, NoDangling
<1> QED
  BY <1>1, ConfInvariance, PTL

=============================================================================
