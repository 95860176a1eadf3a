-------------------------- MODULE MainLoopProofs --------------------------
(***************************************************************************)
(* The inductive invariant of MainLoop and what follows from it, for any   *)
(* number of files, hooks and timers, whatever the callbacks do.           *)
(*                                                                         *)
(* Each part of the invariant speaks of few variables, so that a step      *)
(* keeps most of the parts by leaving their variables alone.               *)
(***************************************************************************)
EXTENDS MainLoop, ListTheorems, FiniteSetTheorems, TLAPS

ActiveFiles == {f \in Files : FileIsActive(f)}
WatchedFiles == {f \in Files : want_events[f] # {}}

\* A file is in one list, both counters are exact, and outside of
\* file_recalc_list epoll watches just what the file has handlers for.
FilesOK ==
  /\ file_list \cap file_recalc_list = {}
  /\ (file_list \cup file_recalc_list) \cap Elements(file_active_list) = {}
  /\ NoDuplicates(file_active_list)
  /\ file_cnt = Cardinality(ActiveFiles)
  /\ poll_cnt = Cardinality(WatchedFiles)
  /\ \A f \in Files :
       /\ f \in file_list \/ f \in Elements(file_active_list) => want_events[f] = handlers[f]
       /\ ~FileIsActive(f) => want_events[f] = {}

\* The files wait for their events only in the phase that handles them, and
\* none waits to be recalculated during the sleep.
FilePhases ==
  /\ pc \notin {"files", "again"} => file_active_list = <<>>
  /\ pc = "sleep" => file_recalc_list = {}

\* A hook is in one list, and in hook_list if it has not run since it was added.
HooksOK ==
  /\ NoDuplicates(hook_list) /\ NoDuplicates(hook_done_list)
  /\ Elements(hook_list) \cap Elements(hook_done_list) = {}
  /\ fresh \subseteq Elements(hook_list)

HookPhases ==
  /\ pc # "hooks" => hook_done_list = <<>>
  /\ pc = "sleep" => fresh = {}

\* hook_min and hook_max are the extremes of what the hooks have returned.
RoundOK ==
  /\ rets = {} => hook_min = HOOK_RETRY /\ hook_max = HOOK_SHUTDOWN
  /\ rets # {} => hook_min \in rets /\ hook_max \in rets
  /\ \A r \in rets : hook_min <= r /\ r <= hook_max

\* Each kind of callback runs in its phase.
CallbacksOK ==
  /\ pc \in {"out", "sleep"} => cb = None
  /\ pc = "timers" => cb = None \/ cb[1] = "timer"
  /\ pc = "hooks" => cb = None \/ cb[1] = "hook"
  /\ pc \in {"files", "again"} => cb = None \/ cb[1] \in {"in", "out"}
  /\ pc = "again" => cb # None

\* What the loop has computed before it sleeps.
SleepOK ==
  pc = "sleep" => /\ hook_max = HOOK_RETRY => timeout = 0
                  /\ \A t \in Armed : timeout = 0 \/ now + timeout <= expires[t]

IInv ==
  /\ TypeOK /\ FilesOK /\ FilePhases /\ HooksOK /\ HookPhases
  /\ RoundOK /\ CallbacksOK /\ SleepOK

-----------------------------------------------------------------------------
\* An order of S lists each element of S once: a function from as many numbers
\* as S has elements onto S is injective.
LEMMA OrdersFacts ==
  ASSUME NEW S, IsFiniteSet(S), NEW s \in Orders(S)
  PROVE  s \in Seq(S) /\ Elements(s) = S /\ NoDuplicates(s)
<1> DEFINE n == Cardinality(S)
<1>1. n \in Nat
  BY FS_CardinalityType
<1>2. s \in [1..n -> S] /\ Elements(s) = S
  BY DEF Orders
<1>3. IsFiniteSet(1..n) /\ Cardinality(1..n) = n
  BY <1>1, FS_Interval
<1> HIDE DEF n
<1>4. s \in Surjection(1..n, S)
  BY <1>2 DEF Surjection, Elements
<1>5. s \in Injection(1..n, S)
  BY <1>3, <1>4, FS_SurjSameCardinalityImpliesInj DEF n
<1>6. NoDuplicates(s)
  BY <1>2, <1>5 DEF Injection, IsInjective, NoDuplicates
<1>7. s \in Seq(S)
  BY <1>1, <1>2
<1> QED
  BY <1>2, <1>6, <1>7

-----------------------------------------------------------------------------
(* What a step keeps by leaving variables alone.                           *)

LEMMA FilesFrame ==
  ASSUME FilesOK, UNCHANGED <<file_list, file_recalc_list, file_active_list, handlers,
                              want_events, file_cnt, poll_cnt>>
  PROVE  FilesOK'
<1>1. \A f \in Files : FileIsActive(f)' <=> FileIsActive(f)
  BY DEF FileIsActive
<1>2. ActiveFiles' = ActiveFiles /\ WatchedFiles' = WatchedFiles
  BY <1>1 DEF ActiveFiles, WatchedFiles
<1> QED
  BY <1>1, <1>2 DEF FilesOK

LEMMA HooksFrame ==
  ASSUME HooksOK, UNCHANGED hookVars
  PROVE  HooksOK'
BY DEF HooksOK, hookVars

LEMMA RoundFrame ==
  ASSUME RoundOK, UNCHANGED roundVars
  PROVE  RoundOK'
BY DEF RoundOK, roundVars

\* The user never acts while the loop sleeps.
LEMMA UserFrame ==
  ASSUME IInv, InUser, ControlUnchanged
  PROVE  pc # "sleep" /\ pc' = pc /\ RoundOK' /\ CallbacksOK' /\ SleepOK'
<1>1. pc # "sleep" /\ pc' = pc /\ cb' = cb
  BY DEF IInv, InUser, ControlUnchanged, CallbacksOK
<1>2. RoundOK'
  BY RoundFrame DEF IInv, ControlUnchanged
<1> QED
  BY <1>1, <1>2 DEF IInv, CallbacksOK, SleepOK

LEMMA Finites ==
  /\ IsFiniteSet(ActiveFiles) /\ Cardinality(ActiveFiles) \in Nat
  /\ IsFiniteSet(WatchedFiles) /\ Cardinality(WatchedFiles) \in Nat
<1>1. ActiveFiles \subseteq Files /\ WatchedFiles \subseteq Files
  BY DEF ActiveFiles, WatchedFiles
<1> QED
  BY <1>1, FS_Subset, FS_CardinalityType, MainLoopAssumption

\* file_set_events keeps poll_cnt exact.
LEMMA SetEventsCounts ==
  ASSUME TypeOK, poll_cnt = Cardinality(WatchedFiles),
         NEW f \in Files, NEW mask \in SUBSET {"in", "out"}, FileSetEvents(f, mask)
  PROVE  /\ poll_cnt' = Cardinality(WatchedFiles') /\ poll_cnt' \in Nat
         /\ want_events' \in [Files -> SUBSET {"in", "out"}]
         /\ want_events'[f] = mask /\ \A g \in Files : g # f => want_events'[g] = want_events[g]
<1>1. /\ want_events' \in [Files -> SUBSET {"in", "out"}]
      /\ want_events'[f] = mask /\ \A g \in Files : g # f => want_events'[g] = want_events[g]
  BY DEF FileSetEvents, TypeOK
<1>2. IsFiniteSet(WatchedFiles) /\ Cardinality(WatchedFiles) \in Nat
  BY Finites
<1>3. poll_cnt' = PollCntAfter(f, mask)
  BY DEF FileSetEvents
<1>4. CASE want_events[f] = {} /\ mask # {}
  <2>1. WatchedFiles' = WatchedFiles \cup {f} /\ f \notin WatchedFiles
    BY <1>1, <1>4 DEF WatchedFiles
  <2>2. Cardinality(WatchedFiles') = Cardinality(WatchedFiles) + 1
    BY <2>1, <1>2, FS_AddElement
  <2>3. poll_cnt' = poll_cnt + 1
    BY <1>2, <1>3, <1>4 DEF PollCntAfter
  <2> QED
    BY <1>1, <1>2, <2>2, <2>3
<1>5. CASE want_events[f] # {} /\ mask = {}
  <2>1. WatchedFiles' = WatchedFiles \ {f} /\ f \in WatchedFiles
    BY <1>1, <1>5 DEF WatchedFiles
  <2>2. Cardinality(WatchedFiles') = Cardinality(WatchedFiles) - 1 /\ IsFiniteSet(WatchedFiles')
    BY <2>1, <1>2, FS_RemoveElement
  <2>3. poll_cnt' = poll_cnt - 1
    BY <1>2, <1>3, <1>5 DEF PollCntAfter
  <2>4. Cardinality(WatchedFiles') \in Nat
    BY <2>2, FS_CardinalityType
  <2> QED
    BY <1>1, <1>2, <2>2, <2>3, <2>4
<1>6. CASE (want_events[f] = {}) <=> (mask = {})
  <2>1. WatchedFiles' = WatchedFiles
    BY <1>1, <1>6 DEF WatchedFiles
  <2>2. poll_cnt' = poll_cnt + 0 - 0
    <3>1. CASE want_events[f] = {} /\ mask = {}
      BY <1>3, <3>1 DEF PollCntAfter
    <3>2. CASE want_events[f] # {} /\ mask # {}
      BY <1>3, <3>2 DEF PollCntAfter
    <3> QED
      BY <1>6, <3>1, <3>2
  <2> QED
    BY <1>1, <1>2, <2>1, <2>2
<1> QED
  BY <1>4, <1>5, <1>6

\* The expiry at the top of the heap is the least one.
LEMMA EarliestFacts ==
  ASSUME TypeOK, Armed # {}
  PROVE  Earliest \in Nat /\ Earliest > 0 /\ \A t \in Armed : Earliest <= expires[t]
<1> DEFINE T == {expires[t] : t \in Armed}
<1>0. \A t \in Armed : expires[t] \in Nat /\ expires[t] > 0
  <2>1. \A t \in Timers : expires[t] \in 0..MaxTime
    BY DEF TypeOK
  <2>2. MaxTime \in Nat
    BY MainLoopAssumption
  <2> QED
    BY <2>1, <2>2 DEF Armed
<1>1. T \subseteq Nat /\ T # {} /\ \A x \in T : x > 0
  BY <1>0
<1>2. PICK e \in T : \A y \in T : e <= y
  BY <1>1, LeastNatural
<1>3. e \in T /\ \A t \in Armed : e <= expires[t]
  BY <1>2
<1>4. Earliest \in T /\ \A t \in Armed : Earliest <= expires[t]
  BY <1>3 DEF Earliest
<1> QED
  BY <1>1, <1>4

-----------------------------------------------------------------------------
(* The initial state, and the operations of the user.                      *)

LEMMA InitInvariant == Init => IInv
<1> SUFFICES ASSUME Init PROVE IInv
  OBVIOUS
<1>1. TypeOK
  <2>1. 0 \in 0..MaxTime /\ 1 \in 1..MaxTime /\ 0 \in 0..Forever
    BY MainLoopAssumption DEF Forever
  <2> QED
    BY <2>1, EmptyFacts DEF Init, TypeOK, HookReturns
<1>2. ActiveFiles = {} /\ WatchedFiles = {}
  BY EmptyFacts DEF Init, ActiveFiles, WatchedFiles, FileIsActive
<1>3. FilesOK
  BY <1>2, EmptyFacts, FS_EmptySet DEF Init, FilesOK
<1>4. HooksOK
  BY EmptyFacts DEF Init, HooksOK
<1>5. FilePhases /\ HookPhases /\ RoundOK /\ CallbacksOK /\ SleepOK
  BY DEF Init, FilePhases, HookPhases, RoundOK, CallbacksOK, SleepOK
<1> QED
  BY <1>1, <1>3, <1>4, <1>5 DEF IInv

LEMMA FileAddStep ==
  ASSUME IInv, NEW f \in Files, FileAdd(f)
  PROVE  IInv'
<1> USE DEF IInv
<1>1. PICK w \in Wanted[f] : handlers' = [handlers EXCEPT ![f] = w] /\ FileSetEvents(f, w)
  BY DEF FileAdd
<1>2. w \in SUBSET {"in", "out"}
  BY MainLoopAssumption
<1>3. /\ poll_cnt' = Cardinality(WatchedFiles') /\ poll_cnt' \in Nat
      /\ want_events' \in [Files -> SUBSET {"in", "out"}]
      /\ want_events'[f] = w /\ \A g \in Files : g # f => want_events'[g] = want_events[g]
  BY <1>1, <1>2, SetEventsCounts DEF FilesOK
<1>4. /\ handlers' \in [Files -> SUBSET {"in", "out"}]
      /\ handlers'[f] = w /\ \A g \in Files : g # f => handlers'[g] = handlers[g]
  BY <1>1, <1>2 DEF TypeOK
<1>5. /\ ~FileIsActive(f) /\ file_list' = file_list \cup {f} /\ file_cnt' = file_cnt + 1
      /\ UNCHANGED <<file_recalc_list, file_active_list, events, hookVars, expires, shutdown>>
      /\ InUser /\ ControlUnchanged
  BY DEF FileAdd
<1>6. pc # "sleep" /\ pc' = pc /\ RoundOK' /\ CallbacksOK' /\ SleepOK'
  BY <1>5, UserFrame
<1>7. \A g \in Files : FileIsActive(g)' <=> FileIsActive(g) \/ g = f
  BY <1>5 DEF FileIsActive
<1>8. ActiveFiles' = ActiveFiles \cup {f} /\ f \notin ActiveFiles
  BY <1>5, <1>7 DEF ActiveFiles
<1>9. file_cnt' = Cardinality(ActiveFiles') /\ file_cnt' \in Nat
  <2>1. IsFiniteSet(ActiveFiles) /\ Cardinality(ActiveFiles) \in Nat
    BY Finites
  <2>2. Cardinality(ActiveFiles') = Cardinality(ActiveFiles) + 1
    BY <1>8, <2>1, FS_AddElement
  <2> QED
    BY <1>5, <2>1, <2>2 DEF FilesOK
<1>10. f \notin file_list /\ f \notin file_recalc_list /\ f \notin Elements(file_active_list)
  BY <1>5 DEF FileIsActive
<1>11. FilesOK'
  BY <1>3, <1>4, <1>5, <1>7, <1>9, <1>10 DEF FilesOK
<1>12. HooksOK' /\ HookPhases' /\ FilePhases'
  BY <1>5, <1>6, HooksFrame DEF HookPhases, FilePhases, hookVars
<1>13. TypeOK'
  BY <1>3, <1>4, <1>5, <1>9 DEF TypeOK, ControlUnchanged, hookVars, roundVars, timeVars
<1> QED
  BY <1>6, <1>11, <1>12, <1>13

LEMMA FileChgStep ==
  ASSUME IInv, NEW f \in Files, FileChg(f)
  PROVE  IInv'
<1> USE DEF IInv
<1>1. PICK w \in Wanted[f] : handlers' = [handlers EXCEPT ![f] = w]
  BY DEF FileChg
<1>2. w \in SUBSET {"in", "out"}
  BY MainLoopAssumption
<1>3. /\ handlers' \in [Files -> SUBSET {"in", "out"}]
      /\ \A g \in Files : g # f => handlers'[g] = handlers[g]
  BY <1>1, <1>2 DEF TypeOK
<1>4. /\ FileIsActive(f) /\ file_list' = file_list \ {f}
      /\ file_active_list' = Without(file_active_list, f)
      /\ file_recalc_list' = file_recalc_list \cup {f}
      /\ events' = [events EXCEPT ![f] = {}]
      /\ UNCHANGED <<want_events, file_cnt, poll_cnt, hookVars, expires, shutdown>>
      /\ InUser /\ ControlUnchanged
  BY DEF FileChg, ForgetEvents
<1>5. /\ file_active_list' \in Seq(Files) /\ NoDuplicates(file_active_list')
      /\ Elements(file_active_list') = Elements(file_active_list) \ {f}
  BY <1>4, WithoutFacts DEF TypeOK, FilesOK
<1>6. pc # "sleep" /\ pc' = pc /\ RoundOK' /\ CallbacksOK' /\ SleepOK'
  BY <1>4, UserFrame
<1>7. \A g \in Files : FileIsActive(g)' <=> FileIsActive(g)
  BY <1>4, <1>5 DEF FileIsActive
<1>8. ActiveFiles' = ActiveFiles /\ WatchedFiles' = WatchedFiles
  BY <1>4, <1>7 DEF ActiveFiles, WatchedFiles
<1>9. FilesOK'
  BY <1>3, <1>4, <1>5, <1>7, <1>8 DEF FilesOK
<1>10. file_active_list = <<>> => file_active_list' = <<>>
  BY <1>5, EmptyFacts, ElementsType
<1>11. HooksOK' /\ HookPhases' /\ FilePhases'
  BY <1>4, <1>6, <1>10, HooksFrame DEF HookPhases, FilePhases, hookVars
<1>12. events' \in [Files -> SUBSET AllEvents]
  BY <1>4 DEF TypeOK
<1>13. TypeOK'
  BY <1>3, <1>4, <1>5, <1>12 DEF TypeOK, ControlUnchanged, hookVars, roundVars, timeVars
<1> QED
  BY <1>6, <1>9, <1>11, <1>13

LEMMA FileDelStep ==
  ASSUME IInv, NEW f \in Files, FileDel(f)
  PROVE  IInv'
<1> USE DEF IInv
<1>1. /\ FileIsActive(f) /\ file_list' = file_list \ {f}
      /\ file_active_list' = Without(file_active_list, f)
      /\ file_recalc_list' = file_recalc_list \ {f}
      /\ file_cnt' = file_cnt - 1
      /\ FileSetEvents(f, {})
      /\ events' = [events EXCEPT ![f] = {}]
      /\ UNCHANGED <<handlers, hookVars, expires, shutdown>>
      /\ InUser /\ ControlUnchanged
  BY DEF FileDel, ForgetEvents
<1>2. {} \in SUBSET {"in", "out"}
  OBVIOUS
<1>3. /\ poll_cnt' = Cardinality(WatchedFiles') /\ poll_cnt' \in Nat
      /\ want_events' \in [Files -> SUBSET {"in", "out"}]
      /\ want_events'[f] = {} /\ \A g \in Files : g # f => want_events'[g] = want_events[g]
  BY <1>1, <1>2, SetEventsCounts DEF FilesOK
<1>5. /\ file_active_list' \in Seq(Files) /\ NoDuplicates(file_active_list')
      /\ Elements(file_active_list') = Elements(file_active_list) \ {f}
  BY <1>1, WithoutFacts DEF TypeOK, FilesOK
<1>6. pc # "sleep" /\ pc' = pc /\ RoundOK' /\ CallbacksOK' /\ SleepOK'
  BY <1>1, UserFrame
<1>7. \A g \in Files : FileIsActive(g)' <=> FileIsActive(g) /\ g # f
  BY <1>1, <1>5 DEF FileIsActive
<1>8. ActiveFiles' = ActiveFiles \ {f} /\ f \in ActiveFiles
  BY <1>1, <1>7 DEF ActiveFiles
<1>9. file_cnt' = Cardinality(ActiveFiles') /\ file_cnt' \in Nat
  <2>1. IsFiniteSet(ActiveFiles) /\ Cardinality(ActiveFiles) \in Nat
    BY Finites
  <2>2. Cardinality(ActiveFiles') = Cardinality(ActiveFiles) - 1 /\ IsFiniteSet(ActiveFiles')
    BY <1>8, <2>1, FS_RemoveElement
  <2>3. Cardinality(ActiveFiles') \in Nat
    BY <2>2, FS_CardinalityType
  <2> QED
    BY <1>1, <2>1, <2>2, <2>3 DEF FilesOK
<1>10. FilesOK'
  BY <1>1, <1>3, <1>5, <1>7, <1>9 DEF FilesOK
<1>11. file_active_list = <<>> => file_active_list' = <<>>
  BY <1>5, EmptyFacts, ElementsType
<1>12. HooksOK' /\ HookPhases' /\ FilePhases'
  BY <1>1, <1>6, <1>11, HooksFrame DEF HookPhases, FilePhases, hookVars
<1>13. events' \in [Files -> SUBSET AllEvents]
  BY <1>1 DEF TypeOK
<1>14. TypeOK'
  BY <1>1, <1>3, <1>5, <1>9, <1>13 DEF TypeOK, ControlUnchanged, hookVars, roundVars, timeVars
<1> QED
  BY <1>6, <1>10, <1>12, <1>14

\* hook_add and hook_del: the hook leaves the list where it is, and is appended
\* to hook_list by hook_add.
LEMMA HookStep ==
  ASSUME IInv, NEW h \in Hooks, HookAdd(h) \/ HookDel(h)
  PROVE  IInv'
<1> USE DEF IInv
<1>1. /\ hook_done_list' = Without(hook_done_list, h)
      /\ \/ hook_list' = Append(Without(hook_list, h), h) /\ fresh' = fresh \cup {h}
         \/ hook_list' = Without(hook_list, h) /\ fresh' = fresh \ {h}
      /\ UNCHANGED <<fileVars, expires, shutdown>>
      /\ InUser /\ ControlUnchanged
  BY DEF HookAdd, HookDel
<1> DEFINE rest == Without(hook_list, h)
<1>2. rest \in Seq(Hooks) /\ NoDuplicates(rest) /\ Elements(rest) = Elements(hook_list) \ {h}
  BY WithoutFacts DEF TypeOK, HooksOK
<1>3. /\ hook_done_list' \in Seq(Hooks) /\ NoDuplicates(hook_done_list')
      /\ Elements(hook_done_list') = Elements(hook_done_list) \ {h}
  BY <1>1, WithoutFacts DEF TypeOK, HooksOK
<1>4. h \notin Elements(rest)
  BY <1>2
<1> HIDE DEF rest
<1>5. /\ Append(rest, h) \in Seq(Hooks) /\ NoDuplicates(Append(rest, h))
      /\ Elements(Append(rest, h)) = Elements(rest) \cup {h}
  BY <1>2, <1>4, AppendFacts
<1>6. \/ hook_list' = Append(rest, h) /\ fresh' = fresh \cup {h}
      \/ hook_list' = rest /\ fresh' = fresh \ {h}
  BY <1>1 DEF rest
<1>7. HooksOK'
  BY <1>2, <1>3, <1>5, <1>6 DEF HooksOK
<1>8. pc # "sleep" /\ pc' = pc /\ RoundOK' /\ CallbacksOK' /\ SleepOK'
  BY <1>1, UserFrame
<1>9. hook_done_list = <<>> => hook_done_list' = <<>>
  BY <1>3, EmptyFacts, ElementsType
<1>10. HookPhases' /\ FilePhases' /\ FilesOK'
  BY <1>1, <1>8, <1>9, FilesFrame DEF HookPhases, FilePhases, fileVars
<1>11. TypeOK'
  BY <1>1, <1>2, <1>3, <1>5, <1>6 DEF TypeOK, ControlUnchanged, fileVars, roundVars, timeVars
<1> QED
  BY <1>7, <1>8, <1>10, <1>11

LEMMA TimerOrShutStep ==
  ASSUME IInv, (\E t \in Timers, e \in 0..MaxTime : TimerAdd(t, e)) \/ ShutDown
  PROVE  IInv'
<1> USE DEF IInv
<1>1. /\ expires' \in [Timers -> 0..MaxTime] /\ shutdown' \in BOOLEAN
      /\ UNCHANGED <<fileVars, hookVars>> /\ InUser /\ ControlUnchanged
  <2>1. CASE ShutDown
    <3>1. InUser /\ shutdown' = TRUE /\ UNCHANGED <<fileVars, hookVars, expires>> /\ ControlUnchanged
      BY <2>1 DEF ShutDown
    <3> QED
      BY <3>1 DEF TypeOK
  <2>2. ASSUME NEW t \in Timers, NEW e \in 0..MaxTime, TimerAdd(t, e)
        PROVE  /\ expires' \in [Timers -> 0..MaxTime] /\ shutdown' \in BOOLEAN
               /\ UNCHANGED <<fileVars, hookVars>> /\ InUser /\ ControlUnchanged
    BY <2>2 DEF TimerAdd, TypeOK
  <2> QED
    BY <2>1, <2>2
<1>2. pc # "sleep" /\ pc' = pc /\ RoundOK' /\ CallbacksOK' /\ SleepOK'
  BY <1>1, UserFrame
<1>3. HooksOK' /\ HookPhases' /\ FilePhases' /\ FilesOK'
  BY <1>1, <1>2, FilesFrame, HooksFrame DEF HookPhases, FilePhases, fileVars, hookVars
<1>4. TypeOK'
  BY <1>1 DEF TypeOK, ControlUnchanged, fileVars, hookVars, roundVars, timeVars
<1> QED
  BY <1>2, <1>3, <1>4

-----------------------------------------------------------------------------
(* The steps of the loop.                                                  *)

Callbacks == {None} \cup ({"timer"} \X Timers) \cup ({"hook"} \X Hooks) \cup ({"in", "out"} \X Files)
Phases == {"out", "timers", "hooks", "sleep", "files", "again"}

\* Calls, returns and changes of phase that touch nothing else.
LEMMA ControlStep ==
  ASSUME IInv, UNCHANGED <<fileVars, hookVars, roundVars, expires, timeVars, single_step, shutdown>>,
         pc' \in Phases \ {"sleep"}, cb' \in Callbacks, CallbacksOK',
         pc' \notin {"files", "again"} => file_active_list = <<>>,
         pc' # "hooks" => hook_done_list = <<>>
  PROVE  IInv'
<1> USE DEF IInv
<1>1. TypeOK'
  BY DEF TypeOK, Phases, Callbacks, fileVars, hookVars, roundVars, timeVars
<1>2. FilesOK' /\ HooksOK' /\ RoundOK'
  BY FilesFrame, HooksFrame, RoundFrame DEF fileVars
<1>3. FilePhases' /\ HookPhases' /\ SleepOK'
  BY DEF FilePhases, HookPhases, SleepOK, Phases, fileVars, hookVars
<1> QED
  BY <1>1, <1>2, <1>3

LEMMA TimerPhase ==
  ASSUME IInv, TimerCall \/ TimerReturn \/ TimersEnd
  PROVE  IInv'
<1> USE DEF IInv
<1>0. pc = "timers"
  BY DEF TimerCall, TimerReturn, TimersEnd, CallbacksOK, TypeOK, None
<1>1. UNCHANGED <<fileVars, hookVars, roundVars, expires, timeVars, single_step, shutdown>>
  BY DEF TimerCall, TimerReturn, TimersEnd
<1>2. file_active_list = <<>> /\ hook_done_list = <<>>
  BY <1>0 DEF FilePhases, HookPhases
<1>3. /\ pc' = "timers" \/ (pc' = "hooks" /\ cb' = None)
      /\ cb' = None \/ \E t \in Timers : cb' = <<"timer", t>>
  <2>1. CASE TimerCall
    <3>1. PICK t \in Armed : cb' = <<"timer", t>>
      BY <2>1 DEF TimerCall
    <3>2. t \in Timers /\ pc' = pc
      BY <2>1 DEF Armed, TimerCall
    <3>3. \E u \in Timers : cb' = <<"timer", u>>
      BY <3>1, <3>2, Zenon
    <3> QED
      BY <1>0, <3>2, <3>3, Zenon
  <2>2. CASE TimerReturn
    BY <1>0, <2>2 DEF TimerReturn
  <2>3. CASE TimersEnd
    BY <1>0, <2>3 DEF TimersEnd
  <2> QED
    BY <2>1, <2>2, <2>3
<1>4. cb' \in Callbacks /\ CallbacksOK'
  <2>1. CASE cb' = None
    BY <1>3, <2>1 DEF Callbacks, CallbacksOK
  <2>2. ASSUME NEW t \in Timers, cb' = <<"timer", t>> PROVE cb' \in Callbacks /\ CallbacksOK'
    BY <1>3, <2>2 DEF Callbacks, CallbacksOK, None
  <2> QED
    BY <1>3, <2>1, <2>2
<1> QED
  BY <1>1, <1>2, <1>3, <1>4, ControlStep DEF Phases

LEMMA FilePhase ==
  ASSUME IInv, FileReturnRetry \/ FileCallAgain \/ FileReturn \/ FilesEnd
  PROVE  IInv'
<1> USE DEF IInv
<1>0. pc \in {"files", "again"}
  BY DEF FileReturnRetry, FileCallAgain, FileReturn, FilesEnd
<1>1. UNCHANGED <<fileVars, hookVars, roundVars, expires, timeVars, single_step, shutdown>>
  BY DEF FileReturnRetry, FileCallAgain, FileReturn, FilesEnd
<1>2. hook_done_list = <<>>
  BY <1>0 DEF HookPhases
<1>3. \/ pc' = "again" /\ cb' = cb /\ cb[1] \in {"in", "out"}
      \/ pc' = "files" /\ cb' = cb
      \/ pc' = "files" /\ cb' = None
      \/ pc' = "timers" /\ cb' = None /\ file_active_list = <<>>
  BY DEF FileReturnRetry, FileCallAgain, FileReturn, FilesEnd, InFileCallback
<1>4. cb' \in Callbacks
  BY <1>3 DEF TypeOK, Callbacks
<1>5. CallbacksOK'
  BY <1>0, <1>3 DEF CallbacksOK, None
<1> QED
  BY <1>1, <1>2, <1>3, <1>4, <1>5, ControlStep DEF Phases

LEMMA EnterStep ==
  ASSUME IInv, MainLoopEnter
  PROVE  IInv'
<1> USE DEF IInv
<1>1. /\ pc = "out" /\ pc' = "timers" /\ single_step' \in BOOLEAN /\ now' \in now..MaxTime
      /\ shutdown' = FALSE
      /\ UNCHANGED <<cb, fileVars, hookVars, roundVars, expires, timeout>>
  BY DEF MainLoopEnter, GetTime
<1>2. now' \in 1..MaxTime
  BY <1>1, MainLoopAssumption DEF TypeOK
<1>3. TypeOK'
  BY <1>1, <1>2 DEF TypeOK, fileVars, hookVars, roundVars
<1>4. FilesOK' /\ HooksOK' /\ RoundOK'
  BY <1>1, FilesFrame, HooksFrame, RoundFrame DEF fileVars
<1>5. FilePhases' /\ HookPhases' /\ SleepOK' /\ CallbacksOK'
  BY <1>1 DEF FilePhases, HookPhases, SleepOK, CallbacksOK, fileVars, hookVars
<1> QED
  BY <1>3, <1>4, <1>5

LEMMA HookCallStep ==
  ASSUME IInv, HookCall
  PROVE  IInv'
<1> USE DEF IInv
<1> DEFINE h == Head(hook_list)
<1>1. /\ pc = "hooks" /\ pc' = pc /\ hook_list # <<>> /\ hook_list' = Tail(hook_list)
      /\ cb' = <<"hook", h>> /\ hook_done_list' = Append(hook_done_list, h)
      /\ fresh' = fresh \ {h}
      /\ UNCHANGED <<fileVars, roundVars, expires, timeVars, single_step, shutdown>>
  BY DEF HookCall
<1>2. /\ hook_list' \in Seq(Hooks) /\ h \in Hooks /\ NoDuplicates(hook_list')
      /\ Elements(hook_list) = Elements(hook_list') \cup {h} /\ h \notin Elements(hook_list')
  BY <1>1, TailFacts DEF TypeOK, HooksOK
<1> HIDE DEF h
<1>3. h \notin Elements(hook_done_list)
  BY <1>2 DEF HooksOK
<1>4. /\ hook_done_list' \in Seq(Hooks) /\ NoDuplicates(hook_done_list')
      /\ Elements(hook_done_list') = Elements(hook_done_list) \cup {h}
  BY <1>1, <1>2, <1>3, AppendFacts DEF TypeOK, HooksOK
<1>5. HooksOK'
  BY <1>1, <1>2, <1>4 DEF HooksOK
<1>6. FilesOK' /\ RoundOK'
  BY <1>1, FilesFrame, RoundFrame DEF fileVars
<1>7. FilePhases' /\ HookPhases' /\ SleepOK' /\ CallbacksOK'
  BY <1>1 DEF FilePhases, HookPhases, SleepOK, CallbacksOK, fileVars
<1>8. cb' \in {"hook"} \X Hooks
  BY <1>1, <1>2
<1>9. TypeOK'
  BY <1>1, <1>2, <1>4, <1>8 DEF TypeOK, fileVars, roundVars, timeVars
<1> QED
  BY <1>5, <1>6, <1>7, <1>9

LEMMA HookReturnStep ==
  ASSUME IInv, HookReturn
  PROVE  IInv'
<1> USE DEF IInv
<1>1. PICK ret \in HookReturns :
        /\ hook_min' = Lower(hook_min, ret) /\ hook_max' = Higher(hook_max, ret)
        /\ rets' = rets \cup {ret}
  BY DEF HookReturn
<1>2. /\ cb[1] = "hook" /\ cb' = None
      /\ UNCHANGED <<pc, fileVars, hookVars, expires, timeVars, single_step, shutdown>>
  BY DEF HookReturn
<1>3. pc = "hooks"
  BY <1>2 DEF CallbacksOK, TypeOK, None
<1>4. /\ ret \in Int /\ -2 <= ret /\ ret <= 1 /\ hook_min \in Int /\ hook_max \in Int
      /\ \A r \in rets : r \in Int
  BY <1>1 DEF TypeOK, HookReturns, HOOK_IDLE, HOOK_RETRY, HOOK_DONE, HOOK_SHUTDOWN
<1>5. /\ hook_min' \in {hook_min, ret} /\ hook_min' <= hook_min /\ hook_min' <= ret
      /\ hook_max' \in {hook_max, ret} /\ hook_max' >= hook_max /\ hook_max' >= ret
      /\ hook_min' \in Int /\ hook_max' \in Int
  BY <1>1, <1>4 DEF Lower, Higher
<1>6. RoundOK'
  <2>1. \A r \in rets' : hook_min' <= r /\ r <= hook_max'
    <3> SUFFICES ASSUME NEW r \in rets' PROVE hook_min' <= r /\ r <= hook_max'
      OBVIOUS
    <3>1. CASE r = ret
      BY <3>1, <1>5
    <3>2. CASE r \in rets
      <4>1. hook_min <= r /\ r <= hook_max /\ r \in Int
        BY <3>2, <1>4 DEF RoundOK
      <4> QED
        BY <4>1, <1>4, <1>5
    <3> QED
      BY <1>1, <3>1, <3>2
  <2>2. rets' # {}
    BY <1>1
  <2>3. hook_min' \in rets' /\ hook_max' \in rets'
    <3>1. CASE rets = {}
      <4>1. hook_min = 1 /\ hook_max = -2
        BY <3>1 DEF RoundOK, HOOK_RETRY, HOOK_SHUTDOWN
      <4>2. hook_min' = ret /\ hook_max' = ret
        BY <4>1, <1>4, <1>5
      <4> QED
        BY <4>2, <1>1
    <3>2. CASE rets # {}
      BY <3>2, <1>1, <1>5 DEF RoundOK
    <3> QED
      BY <3>1, <3>2
  <2> QED
    BY <2>1, <2>2, <2>3 DEF RoundOK
<1>7. FilesOK' /\ HooksOK'
  BY <1>2, FilesFrame, HooksFrame DEF fileVars
<1>8. FilePhases' /\ HookPhases' /\ SleepOK' /\ CallbacksOK'
  BY <1>2, <1>3 DEF FilePhases, HookPhases, SleepOK, CallbacksOK, fileVars, hookVars
<1>9. TypeOK'
  <2>1. hook_min' \in HookReturns /\ hook_max' \in HookReturns /\ rets' \subseteq HookReturns
    BY <1>1, <1>5 DEF TypeOK
  <2> QED
    BY <1>2, <2>1 DEF TypeOK, fileVars, hookVars, timeVars
<1> QED
  BY <1>6, <1>7, <1>8, <1>9

LEMMA HooksShutdownStep ==
  ASSUME IInv, HooksShutdown
  PROVE  IInv'
<1> USE DEF IInv
<1>1. /\ pc = "hooks" /\ cb = None /\ hook_list = <<>>
      /\ hook_list' = hook_done_list /\ hook_done_list' = <<>>
      /\ pc' = "out" /\ single_step' = FALSE
      /\ hook_min' = HOOK_RETRY /\ hook_max' = HOOK_SHUTDOWN /\ rets' = {}
      /\ UNCHANGED <<cb, fileVars, fresh, expires, timeVars, shutdown>>
  BY DEF HooksShutdown, HooksOver, NewRound
<1>2. TypeOK'
  BY <1>1, EmptyFacts DEF TypeOK, fileVars, timeVars, HookReturns
<1>3. HooksOK'
  BY <1>1, EmptyFacts DEF HooksOK
<1>4. FilesOK'
  BY <1>1, FilesFrame DEF fileVars
<1>5. RoundOK' /\ FilePhases' /\ HookPhases' /\ SleepOK' /\ CallbacksOK'
  BY <1>1 DEF RoundOK, FilePhases, HookPhases, SleepOK, CallbacksOK, fileVars
<1> QED
  BY <1>2, <1>3, <1>4, <1>5

\* recalc_files: what is watched becomes what the files have handlers for.
LEMMA RecalcStep ==
  ASSUME TypeOK, FilesOK, file_active_list = <<>>, RecalcFiles,
         UNCHANGED <<file_active_list, handlers, file_cnt>>
  PROVE  /\ FilesOK' /\ file_recalc_list' = {} /\ file_list' \subseteq Files
         /\ want_events' \in [Files -> SUBSET {"in", "out"}] /\ poll_cnt' \in Nat
<1> DEFINE A == {f \in file_recalc_list : want_events[f] = {} /\ handlers[f] # {}}
           B == {f \in file_recalc_list : want_events[f] # {} /\ handlers[f] = {}}
<1>1. /\ want_events' = [f \in Files |-> IF f \in file_recalc_list THEN handlers[f] ELSE want_events[f]]
      /\ poll_cnt' = poll_cnt + Cardinality(A) - Cardinality(B)
      /\ file_list' = file_list \cup file_recalc_list /\ file_recalc_list' = {}
  BY DEF RecalcFiles
<1>2. file_list' \subseteq Files /\ want_events' \in [Files -> SUBSET {"in", "out"}]
  BY <1>1 DEF TypeOK
<1>3. \A f \in Files : want_events'[f] = IF f \in file_recalc_list THEN handlers[f] ELSE want_events[f]
  BY <1>1
<1>4. \A f \in Files : FileIsActive(f)' <=> FileIsActive(f)
  BY <1>1 DEF FileIsActive
<1>5. ActiveFiles' = ActiveFiles
  BY <1>4 DEF ActiveFiles
<1>6. /\ WatchedFiles' = (WatchedFiles \ B) \cup A
      /\ B \subseteq WatchedFiles /\ A \cap WatchedFiles = {} /\ A \subseteq Files
  BY <1>3 DEF WatchedFiles, TypeOK
<1>7. /\ IsFiniteSet(A) /\ IsFiniteSet(B) /\ IsFiniteSet(WatchedFiles)
      /\ IsFiniteSet(WatchedFiles \ B) /\ IsFiniteSet(WatchedFiles')
      /\ Cardinality(A) \in Nat /\ Cardinality(B) \in Nat /\ Cardinality(WatchedFiles) \in Nat
      /\ Cardinality(WatchedFiles \ B) \in Nat
  <2>1. IsFiniteSet(WatchedFiles) /\ IsFiniteSet(A)
    BY <1>6, Finites, FS_Subset, MainLoopAssumption
  <2>2. IsFiniteSet(B) /\ IsFiniteSet(WatchedFiles \ B)
    BY <1>6, <2>1, FS_Subset
  <2>3. IsFiniteSet(WatchedFiles')
    BY <1>6, <2>1, <2>2, FS_Union
  <2> QED
    BY <2>1, <2>2, <2>3, FS_CardinalityType
<1> HIDE DEF A, B
<1>8. Cardinality(WatchedFiles \ B) = Cardinality(WatchedFiles) - Cardinality(B)
  <2>1. Cardinality(WatchedFiles \ B) = Cardinality(WatchedFiles) - Cardinality(WatchedFiles \cap B)
    BY <1>7, FS_Difference
  <2>2. WatchedFiles \cap B = B
    BY <1>6
  <2> QED
    BY <2>1, <2>2
<1>9. Cardinality(WatchedFiles') = Cardinality(WatchedFiles \ B) + Cardinality(A)
  <2>1. Cardinality((WatchedFiles \ B) \cup A)
          = Cardinality(WatchedFiles \ B) + Cardinality(A) - Cardinality((WatchedFiles \ B) \cap A)
    BY <1>7, FS_Union
  <2>2. (WatchedFiles \ B) \cap A = {}
    BY <1>6
  <2>3. Cardinality((WatchedFiles \ B) \cap A) = 0
    BY <2>2, FS_EmptySet
  <2> QED
    BY <1>6, <1>7, <2>1, <2>3
<1>10. poll_cnt' = Cardinality(WatchedFiles') /\ poll_cnt' \in Nat
  <2>1. poll_cnt = Cardinality(WatchedFiles)
    BY DEF FilesOK
  <2>2. poll_cnt' = Cardinality(WatchedFiles')
    BY <1>1, <1>7, <1>8, <1>9, <2>1
  <2>3. Cardinality(WatchedFiles') \in Nat
    BY <1>7, <1>9
  <2> QED
    BY <2>2, <2>3
<1>11. FilesOK'
  <2>1. Elements(file_active_list) = {} /\ Elements(file_active_list') = {}
    BY EmptyFacts
  <2>2. \A f \in Files : /\ f \in file_list' => want_events'[f] = handlers'[f]
                         /\ ~FileIsActive(f)' => want_events'[f] = {}
    BY <1>1, <1>3, <1>4 DEF FilesOK, FileIsActive
  <2>3. NoDuplicates(file_active_list')
    BY DEF FilesOK
  <2>4. file_cnt' = Cardinality(ActiveFiles')
    BY <1>5 DEF FilesOK
  <2> QED
    BY <1>1, <1>10, <2>1, <2>2, <2>3, <2>4 DEF FilesOK
<1> QED
  BY <1>1, <1>2, <1>10, <1>11

\* The timeout never reaches past a timer, and is zero when a hook wants to be
\* called again.
LEMMA TimeoutFacts ==
  ASSUME TypeOK, NEW wake \in {0, Forever}, NEW time \in 1..MaxTime
  PROVE  /\ Timeout(wake, time) \in 0..Forever
         /\ wake = 0 => Timeout(wake, time) = 0
         /\ \A t \in Armed : Timeout(wake, time) = 0 \/ time + Timeout(wake, time) <= expires[t]
<1> DEFINE w == IF Armed = {} THEN wake ELSE Lower(wake, Earliest)
<1>1. MaxTime \in Nat /\ Forever = MaxTime + 1 /\ wake \in Nat /\ wake <= Forever /\ time \in Nat /\ time >= 1
  BY MainLoopAssumption DEF Forever
<1>2. /\ w \in Nat /\ w <= Forever /\ (wake = 0 => w = 0)
      /\ \A t \in Armed : w <= expires[t]
  <2>1. CASE Armed = {}
    BY <1>1, <2>1
  <2>2. CASE Armed # {}
    <3>1. Earliest \in Nat /\ Earliest > 0 /\ \A t \in Armed : Earliest <= expires[t]
      BY <2>2, EarliestFacts
    <3>2. w = Lower(wake, Earliest)
      BY <2>2
    <3> HIDE DEF w
    <3>3. w \in Nat /\ w <= wake /\ w <= Earliest
      BY <1>1, <3>1, <3>2 DEF Lower
    <3>4. \A t \in Armed : expires[t] \in Int
      BY MainLoopAssumption DEF TypeOK, Armed
    <3> QED
      BY <1>1, <3>1, <3>3, <3>4
  <2> QED
    BY <2>1, <2>2
<1>3. Timeout(wake, time) = IF single_step THEN 0 ELSE IF w > time THEN w - time ELSE 0
  BY DEF Timeout
<1> HIDE DEF w
<1>4. \/ Timeout(wake, time) = 0
      \/ Timeout(wake, time) = w - time /\ w > time
  BY <1>3
<1>5. CASE Timeout(wake, time) = 0
  BY <1>1, <1>5
<1>6. CASE Timeout(wake, time) = w - time /\ w > time
  <2>1. w - time \in 0..Forever /\ time + (w - time) = w /\ wake # 0
    BY <1>1, <1>2, <1>6
  <2> QED
    BY <1>2, <1>6, <2>1
<1> QED
  BY <1>4, <1>5, <1>6

LEMMA GoToSleepStep ==
  ASSUME IInv, GoToSleep
  PROVE  IInv'
<1> USE DEF IInv
<1> DEFINE wake == IF hook_max = HOOK_RETRY THEN 0 ELSE Forever
<1>1. /\ pc = "hooks" /\ cb = None /\ hook_list = <<>>
      /\ hook_list' = hook_done_list /\ hook_done_list' = <<>>
      /\ now' = now \/ now' \in now..MaxTime
      /\ timeout' = Timeout(wake, now')
      /\ RecalcFiles
      /\ pc' = "sleep"
      /\ UNCHANGED <<cb, file_active_list, handlers, events, file_cnt, fresh, roundVars,
                     expires, single_step, shutdown>>
  BY DEF GoToSleep, HooksOver, GetTime
<1>2. now' \in 1..MaxTime
  BY <1>1, MainLoopAssumption DEF TypeOK
<1>3. PICK time \in 1..MaxTime : time = now'
  BY <1>2
<1>4. wake \in {0, Forever} /\ (hook_max = HOOK_RETRY => wake = 0)
  OBVIOUS
<1>5. timeout' = Timeout(wake, time)
  BY <1>1, <1>3
<1> HIDE DEF wake
<1>6. /\ timeout' \in 0..Forever /\ (hook_max = HOOK_RETRY => timeout' = 0)
      /\ \A t \in Armed : timeout' = 0 \/ now' + timeout' <= expires[t]
  BY <1>3, <1>4, <1>5, TimeoutFacts
<1>7. SleepOK'
  <2>1. Armed' = Armed
    BY <1>1 DEF Armed
  <2> QED
    BY <1>1, <1>6, <2>1 DEF SleepOK, roundVars
<1>8. file_active_list = <<>>
  BY <1>1 DEF FilePhases
<1>9. /\ FilesOK' /\ file_recalc_list' = {} /\ file_list' \subseteq Files
      /\ want_events' \in [Files -> SUBSET {"in", "out"}] /\ poll_cnt' \in Nat
  BY <1>1, <1>8, RecalcStep
<1>10. TypeOK'
  BY <1>1, <1>2, <1>6, <1>9, EmptyFacts DEF TypeOK, roundVars
<1>11. HooksOK' /\ HookPhases'
  BY <1>1, EmptyFacts DEF HooksOK, HookPhases
<1>12. RoundOK' /\ CallbacksOK' /\ FilePhases'
  BY <1>1, <1>8, <1>9, RoundFrame DEF CallbacksOK, FilePhases
<1> QED
  BY <1>7, <1>9, <1>10, <1>11, <1>12

LEMMA WakeEmptyStep ==
  ASSUME IInv, WakeEmpty
  PROVE  IInv'
<1> USE DEF IInv
<1>1. /\ pc = "sleep" /\ now' \in now..MaxTime /\ timeout' = 0
      /\ hook_min' = HOOK_RETRY /\ hook_max' = HOOK_SHUTDOWN /\ rets' = {}
      /\ pc' \in {"out", "timers"} /\ single_step' = FALSE
      /\ UNCHANGED <<cb, fileVars, hookVars, expires, shutdown>>
  BY DEF WakeEmpty, GetTime, NewRound
<1>2. now' \in 1..MaxTime /\ 0 \in 0..Forever
  BY <1>1, MainLoopAssumption DEF TypeOK, Forever
<1>3. TypeOK'
  BY <1>1, <1>2 DEF TypeOK, fileVars, hookVars, HookReturns
<1>4. FilesOK' /\ HooksOK'
  BY <1>1, FilesFrame, HooksFrame DEF fileVars
<1>5. RoundOK' /\ FilePhases' /\ HookPhases' /\ SleepOK' /\ CallbacksOK'
  BY <1>1 DEF RoundOK, FilePhases, HookPhases, SleepOK, CallbacksOK, fileVars, hookVars
<1> QED
  BY <1>3, <1>4, <1>5

\* Only files of file_list are watched during the sleep, so that relinking them
\* to file_active_list takes them from there.
LEMMA WakeEventsStep ==
  ASSUME IInv, WakeEvents
  PROVE  IInv'
<1> USE DEF IInv
<1>1. /\ pc = "sleep" /\ now' \in now..MaxTime /\ timeout' = 0
      /\ hook_min' = HOOK_RETRY /\ hook_max' = HOOK_SHUTDOWN /\ rets' = {}
      /\ pc' = "files"
      /\ UNCHANGED <<cb, file_recalc_list, handlers, want_events, file_cnt, poll_cnt, hookVars,
                     expires, single_step, shutdown>>
  BY DEF WakeEvents, GetTime, NewRound
<1>2. PICK S \in SUBSET WatchedFiles :
        /\ file_active_list' \in Orders(S) /\ file_list' = file_list \ S
        /\ \E ev \in [S -> SUBSET PollFlags \ {{}}] :
             events' = [f \in Files |-> IF f \in S THEN ev[f] ELSE events[f]]
  BY DEF WakeEvents, WatchedFiles
<1>3. now' \in 1..MaxTime /\ 0 \in 0..Forever
  BY <1>1, MainLoopAssumption DEF TypeOK, Forever
<1>4. file_active_list = <<>> /\ file_recalc_list = {} /\ Elements(file_active_list) = {}
  BY <1>1, EmptyFacts DEF FilePhases
<1>5. S \subseteq file_list
  BY <1>4 DEF WatchedFiles, FilesOK, FileIsActive
<1>6. S \subseteq Files /\ IsFiniteSet(S)
  BY <1>5, FS_Subset, MainLoopAssumption DEF TypeOK
<1>7. file_active_list' \in Seq(S) /\ Elements(file_active_list') = S /\ NoDuplicates(file_active_list')
  BY <1>2, <1>6, OrdersFacts
<1>8. file_active_list' \in Seq(Files)
  BY <1>6, <1>7
<1>9. events' \in [Files -> SUBSET AllEvents]
  BY <1>2, MainLoopAssumption DEF TypeOK
<1>10. \A f \in Files : FileIsActive(f)' <=> FileIsActive(f)
  BY <1>1, <1>2, <1>4, <1>5, <1>7 DEF FileIsActive
<1>11. ActiveFiles' = ActiveFiles /\ WatchedFiles' = WatchedFiles
  BY <1>1, <1>10 DEF ActiveFiles, WatchedFiles
<1>12. FilesOK'
  BY <1>1, <1>2, <1>4, <1>5, <1>7, <1>10, <1>11 DEF FilesOK
<1>13. HooksOK'
  BY <1>1, HooksFrame
<1>14. TypeOK'
  BY <1>1, <1>2, <1>3, <1>8, <1>9 DEF TypeOK, hookVars, HookReturns
<1>15. RoundOK' /\ FilePhases' /\ HookPhases' /\ SleepOK' /\ CallbacksOK'
  BY <1>1 DEF RoundOK, FilePhases, HookPhases, SleepOK, CallbacksOK, hookVars
<1> QED
  BY <1>12, <1>13, <1>14, <1>15

LEMMA FileCallStep ==
  ASSUME IInv, FileRead \/ FileWrite
  PROVE  IInv'
<1> USE DEF IInv
<1>1. /\ pc = "files" /\ file_active_list # <<>>
      /\ events' = [events EXCEPT ![Fi] = @ \ ReadMask] \/ events' = [events EXCEPT ![Fi] = @ \ WriteMask]
      /\ cb' = <<"in", Fi>> \/ cb' = <<"out", Fi>>
      /\ UNCHANGED <<pc, file_list, file_recalc_list, file_active_list, handlers, want_events,
                     file_cnt, poll_cnt, hookVars, roundVars, expires, timeVars, single_step, shutdown>>
  BY DEF FileRead, FileWrite
<1>2. Fi \in Files
  BY <1>1, TailFacts DEF Fi, TypeOK
<1>3. events' \in [Files -> SUBSET AllEvents]
  BY <1>1, <1>2 DEF TypeOK
<1>4. cb' \in {"in", "out"} \X Files /\ cb'[1] \in {"in", "out"}
  BY <1>1, <1>2
<1>5. TypeOK'
  BY <1>1, <1>3, <1>4 DEF TypeOK, hookVars, roundVars, timeVars
<1>6. FilesOK' /\ HooksOK' /\ RoundOK'
  BY <1>1, FilesFrame, HooksFrame, RoundFrame
<1>7. FilePhases' /\ HookPhases' /\ SleepOK' /\ CallbacksOK'
  BY <1>1, <1>4 DEF FilePhases, HookPhases, SleepOK, CallbacksOK, hookVars
<1> QED
  BY <1>5, <1>6, <1>7

LEMMA FileDoneStep ==
  ASSUME IInv, FileDone
  PROVE  IInv'
<1> USE DEF IInv
<1>1. /\ pc = "files" /\ file_active_list # <<>>
      /\ file_list' = file_list \cup {Fi} /\ file_active_list' = Tail(file_active_list)
      /\ events' = [events EXCEPT ![Fi] = {}]
      /\ UNCHANGED <<pc, cb, file_recalc_list, handlers, want_events, file_cnt, poll_cnt,
                     hookVars, roundVars, expires, timeVars, single_step, shutdown>>
  BY DEF FileDone, ForgetEvents
<1>2. /\ file_active_list' \in Seq(Files) /\ Fi \in Files /\ NoDuplicates(file_active_list')
      /\ Elements(file_active_list) = Elements(file_active_list') \cup {Fi}
      /\ Fi \notin Elements(file_active_list')
  BY <1>1, TailFacts DEF Fi, TypeOK, FilesOK
<1>3. \A f \in Files : FileIsActive(f)' <=> FileIsActive(f)
  BY <1>1, <1>2 DEF FileIsActive
<1>4. ActiveFiles' = ActiveFiles /\ WatchedFiles' = WatchedFiles
  BY <1>1, <1>3 DEF ActiveFiles, WatchedFiles
<1>5. FilesOK'
  BY <1>1, <1>2, <1>3, <1>4 DEF FilesOK
<1>6. events' \in [Files -> SUBSET AllEvents]
  BY <1>1 DEF TypeOK
<1>7. TypeOK'
  BY <1>1, <1>2, <1>6 DEF TypeOK, hookVars, roundVars, timeVars
<1>8. HooksOK' /\ RoundOK'
  BY <1>1, HooksFrame, RoundFrame
<1>9. FilePhases' /\ HookPhases' /\ SleepOK' /\ CallbacksOK'
  BY <1>1 DEF FilePhases, HookPhases, SleepOK, CallbacksOK, hookVars
<1> QED
  BY <1>5, <1>7, <1>8, <1>9

-----------------------------------------------------------------------------
(* The theorems.                                                           *)

\* Every operation of the user and every step of main_loop keeps the invariant.
THEOREM MainLoopInvariance == Spec => []IInv
<1>1. IInv /\ [Next]_vars => IInv'
  <2> SUFFICES ASSUME IInv, [Next]_vars PROVE IInv'
    OBVIOUS
  <2>1. CASE UserOperation
    BY <2>1, FileAddStep, FileChgStep, FileDelStep, HookStep, TimerOrShutStep DEF UserOperation
  <2>2. CASE MainLoopEnter
    BY <2>2, EnterStep
  <2>3. CASE CallStep
    BY <2>3, TimerPhase, HookCallStep, FileCallStep, FilePhase DEF CallStep
  <2>4. CASE ReturnStep
    BY <2>4, TimerPhase, HookReturnStep, FilePhase DEF ReturnStep
  <2>5. CASE PhaseStep
    BY <2>5, TimerPhase, HooksShutdownStep, GoToSleepStep, WakeEmptyStep, WakeEventsStep,
       FileDoneStep, FilePhase DEF PhaseStep
  <2>6. CASE UNCHANGED vars
    <3>1. /\ UNCHANGED <<fileVars, hookVars, roundVars, timeVars>>
          /\ UNCHANGED <<pc, cb, expires, single_step, shutdown>>
      BY <2>6 DEF vars
    <3>2. UNCHANGED <<now, timeout, hook_max>>
      BY <3>1 DEF timeVars, roundVars
    <3>3. TypeOK'
      BY <3>1 DEF IInv, TypeOK, fileVars, hookVars, roundVars, timeVars
    <3>4. FilesOK' /\ HooksOK' /\ RoundOK'
      BY <3>1, FilesFrame, HooksFrame, RoundFrame DEF IInv, fileVars
    <3>5. FilePhases' /\ HookPhases' /\ CallbacksOK'
      BY <3>1 DEF IInv, FilePhases, HookPhases, CallbacksOK, fileVars, hookVars
    <3>6. SleepOK'
      BY <3>1, <3>2 DEF IInv, SleepOK, Armed
    <3> QED
      BY <3>3, <3>4, <3>5, <3>6 DEF IInv
  <2> QED
    BY <2>1, <2>2, <2>3, <2>4, <2>5, <2>6 DEF Next
<1> QED
  BY <1>1, InitInvariant, PTL DEF Spec

\* However the callbacks relink files and hooks while main_loop walks its lists,
\* each is in one list at most, and file_cnt and poll_cnt count exactly.
THEOREM ListsStayConsistent == Spec => []ListsConsistent
<1>1. IInv => ListsConsistent
  <2> SUFFICES ASSUME IInv PROVE ListsConsistent
    OBVIOUS
  <2>1. NoDuplicates(hook_list \o hook_done_list)
    BY ConcatFacts DEF IInv, HooksOK, TypeOK
  <2> QED
    BY <2>1 DEF IInv, ListsConsistent, FilesOK, ActiveFiles, WatchedFiles
<1> QED
  BY <1>1, MainLoopInvariance, PTL

\* When main_loop calls epoll_wait, what epoll watches is what the active files
\* have handlers for.
THEOREM SleepWatches == Spec => []SleepWatchesHandlers
<1>1. IInv => SleepWatchesHandlers
  <2> SUFFICES ASSUME IInv, pc = "sleep"
               PROVE  /\ file_recalc_list = {} /\ file_active_list = <<>>
                      /\ \A f \in Files : want_events[f] = (IF FileIsActive(f) THEN handlers[f] ELSE {})
    BY DEF SleepWatchesHandlers
  <2>1. file_recalc_list = {} /\ file_active_list = <<>>
    BY DEF IInv, FilePhases
  <2> QED
    BY <2>1, EmptyFacts DEF IInv, FilesOK, FileIsActive
<1> QED
  BY <1>1, MainLoopInvariance, PTL

\* Every hook that was added has run before main_loop sleeps, and the loop does
\* not wait when one of them wants to be called again.
THEOREM HooksRun == Spec => []HooksRunBeforeSleep
<1>1. IInv => HooksRunBeforeSleep
  <2> SUFFICES ASSUME IInv, pc = "sleep"
               PROVE  /\ fresh = {} /\ hook_done_list = <<>>
                      /\ HOOK_RETRY \in rets => timeout = 0
    BY DEF HooksRunBeforeSleep
  <2>1. fresh = {} /\ hook_done_list = <<>>
    BY DEF IInv, HookPhases
  <2>2. HOOK_RETRY \in rets => hook_max = HOOK_RETRY
    BY DEF IInv, RoundOK, TypeOK, HookReturns, HOOK_IDLE, HOOK_RETRY, HOOK_DONE, HOOK_SHUTDOWN
  <2> QED
    BY <2>1, <2>2 DEF IInv, SleepOK
<1> QED
  BY <1>1, MainLoopInvariance, PTL

\* The time main_loop gives to epoll_wait ends no later than any timer expires.
THEOREM TimersAreMet == Spec => []TimersNotOverslept
<1>1. IInv => TimersNotOverslept
  BY DEF IInv, SleepOK, TimersNotOverslept
<1> QED
  BY <1>1, MainLoopInvariance, PTL

\* process_hooks decides to end the loop exactly when there is a reason to: the
\* least and the greatest of the answers tell.
THEOREM ShutdownIsExact == Spec => ShutdownExact
<1>1. IInv => (HooksSayShutdown <=> ShutdownWanted)
  <2> SUFFICES ASSUME IInv PROVE HooksSayShutdown <=> ShutdownWanted
    OBVIOUS
  <2> USE DEF HOOK_IDLE, HOOK_RETRY, HOOK_DONE, HOOK_SHUTDOWN
  <2>1. /\ hook_min \in {0, 1, -1, -2} /\ hook_max \in {0, 1, -1, -2} /\ rets \subseteq {0, 1, -1, -2}
        /\ rets = {} => hook_min = 1 /\ hook_max = -2
        /\ rets # {} => hook_min \in rets /\ hook_max \in rets
        /\ \A r \in rets : hook_min <= r /\ r <= hook_max
    BY DEF IInv, RoundOK, TypeOK, HookReturns
  <2>2. hook_min = -2 <=> -2 \in rets
    BY <2>1
  <2>3. hook_min = -1 /\ hook_max = -1 <=> rets = {-1}
    <3>1. ASSUME hook_min = -1, hook_max = -1 PROVE rets = {-1}
      <4>1. rets # {} /\ -1 \in rets
        BY <2>1, <3>1
      <4>2. \A r \in rets : r \in Int /\ -1 <= r /\ r <= -1
        BY <2>1, <3>1
      <4>3. \A r \in rets : r = -1
        BY <4>2
      <4> QED
        BY <4>1, <4>3
    <3>2. ASSUME rets = {-1} PROVE hook_min = -1 /\ hook_max = -1
      BY <2>1, <3>2
    <3> QED
      BY <3>1, <3>2
  <2> QED
    BY <2>2, <2>3 DEF HooksSayShutdown, ShutdownWanted
<1>2. IInv => /\ HooksShutdown => ShutdownWanted
              /\ GoToSleep => ~ShutdownWanted
  BY <1>1 DEF HooksShutdown, GoToSleep
<1> QED
  BY <1>2, MainLoopInvariance, PTL DEF ShutdownExact

=============================================================================
