----------------------------- MODULE Components -----------------------------
(***************************************************************************)
(* Components of the library that stand alone: daemons and their control,  *)
(* atomic fastbufs, block I/O and the configuration, each with its own     *)
(* variables, and what makes each of them correct.  MCLibrary puts them    *)
(* beside the others for TLC; ComponentProofs proves the properties for    *)
(* every value of the constants.                                           *)
(***************************************************************************)
EXTENDS Integers, Sequences, FiniteSets

CONSTANTS
  Ctls,         \* long-lived processes calling daemon_control
  MaxStarts,    \* bound on the starts of the daemon
  MaxLoose,     \* how many of their launchers nobody waits for
  Threads,      \* threads which write to an atomic file
  RecordLens,   \* the values of record_len it may be opened with
  BufSize,
  AtomicLens,   \* the lengths of records of variable size
  MaxRecords,   \* bound on the records of a thread
  BlockLens,    \* the lengths of blocks, with 0 for cancelling
  MaxSent,      \* bound on the bytes the peer sends
  MaxRequests,  \* bound on the requests to read or write a block
  Cells,        \* the configuration variables
  ConfFiles,    \* the texts a configuration file may have
  ConfStrings,  \* the texts passed to cf_set
  Reject,       \* the value the commit hook refuses
  MaxPools,     \* bound on the pools of the configuration
  MaxJournal    \* bound on the items of its journal

ASSUME DaemonAssumption == MaxStarts \in Nat /\ MaxLoose \in Nat

ASSUME AtomicAssumption ==
  /\ IsFiniteSet(Threads)
  /\ RecordLens \subseteq Int \ {0} /\ BufSize \in Nat \ {0}
  /\ AtomicLens \subseteq Nat \ {0} /\ MaxRecords \in Nat

ASSUME BlockAssumption ==
  BlockLens \subseteq Nat /\ MaxSent \in Nat /\ MaxRequests \in Nat

\* Lines of a configuration file: a block of cells with their values, whether
\* these are strings, and whether the line is correct
Lines == [first : Int, vals : Seq(Int), string : BOOLEAN, ok : BOOLEAN]

ASSUME ConfAssumption ==
  /\ Cells \subseteq Int /\ 1 \in Cells /\ \E c \in Cells : \A d \in Cells : d <= c
  /\ MaxPools \in Nat /\ MaxJournal \in Nat
  /\ \A t \in ConfFiles \cup ConfStrings :
       /\ t \in Seq(Lines)
       /\ \A i \in DOMAIN t : /\ t[i].vals # <<>>
                              /\ t[i].first .. (t[i].first + Len(t[i].vals) - 1) \subseteq Cells

VARIABLES
  \* Daemon
  guard, ctlPc, ctlOp, ctlStatus, pid, ctlRun, shlock, pidContents, filePid,
  launcher, daemon, starts, loose, term, owner, graceful,
  foreign,
  \* AtomicFile
  recordLen, useCount, fd, atomicFile, buf, cap, slack, left, sent, writerState,
  reg, halted,
  \* BlockIO
  linked, handler, pos, len, timer, running, calling, arrived, eof, moved, done,
  cancelled, open, requests,
  \* Conf
  cells, journal, pool, pools, livePools, lastPool, entries, dirty, committed,
  postpone, loaded, confOp, unremembered

D == INSTANCE Daemon WITH
       pc <- ctlPc, op <- ctlOp, st <- ctlStatus, file <- pidContents, run <- ctlRun

A == INSTANCE AtomicFile WITH
       file <- atomicFile, st <- writerState, Lens <- AtomicLens

B == INSTANCE BlockIO WITH Lens <- BlockLens

C == INSTANCE Conf WITH
       op <- confOp, live <- livePools, Files <- ConfFiles, Strings <- ConfStrings

-----------------------------------------------------------------------------

\* Two daemons never run their bodies at the same time before daemon_exit
\* ("Daemon is already running", daemon.c).
OneDaemon == D!TypeOK /\ D!OneDaemon

\* What daemon_read_pid calls a crashed daemon never left by daemon_exit.
StaleMeansCrash == D!StaleMeansCrash

\* A PID read from the file by daemon_control is that of the only daemon which
\* may be running.
PidIsCurrent == D!PidIsCurrent

\* What a caller may conclude from the status daemon_control returns.
StatusHonest == D!StatusHonest

\* Records written to an atomic file by several threads are neither torn nor
\* lost nor written to a closed file (fb-atomic.c).
AtomicSound == A!AtomicSound

\* A block request in progress is polled for, and its bytes are counted
\* exactly (main-block.c).
BlockSound == B!BlockSound

\* cf_journal_rollback and cf_reload can always go back: undoing the journal of
\* the running operation gives the state at its start, undoing the older items
\* the state before any configuration, and an operation which fails leaves the
\* configuration it found (conf-journal.c, conf-input.c).
JournalUndoes ==
  /\ C!JournalUndoes /\ [][C!JournalUndoes']_(C!confVars)
  /\ C!FailureRestores

\* No configuration value or journal item lies in a deleted pool, and the
\* current values are what the file of the last cf_reload(file), which is not
\* remembered, and after it the remembered entries set (conf-input.c).
ConfSound == C!NoDanglingConfig /\ C!EntriesExplainConfig

=============================================================================
