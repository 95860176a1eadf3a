--------------------------- MODULE ProcessProofs ---------------------------
(***************************************************************************)
(* The inductive invariant of Process and what follows from it, for any    *)
(* number of handlers, processes and children and any size of the pipe.    *)
(*                                                                         *)
(* The walk of pipe_read_handler has to call exactly those handlers that   *)
(* lie behind its iterator (WalkOK), which nothing that handlers do to the *)
(* list can spoil: new handlers come to its head.  A child that may still  *)
(* be reaped belongs to a process of process_list, or to the one that      *)
(* process_add is about to put there, unless the user gave it up           *)
(* (ChildrenOK).                                                           *)
(***************************************************************************)
EXTENDS Process, ListTheorems, FiniteSetTheorems, TLAPS

\* Where the user's code is, or the loop, when the call of signal_add or
\* process_fork that is in progress returns.
Where == IF pc \in {"process_add", "sigaction", "unblock"} THEN ret ELSE pc

InHandler == Where \in {"signal_cb", "exit_cb", "reap"}

\* What the call in progress is about.
CallsOK ==
  /\ pc = "process_add" => arg \in Procs /\ arg \notin process_list
  /\ pc \in {"sigaction", "unblock"} => arg \in Signals /\ arg \in Elements(signal_list)

Matching(S) == {x \in S : Signum(x) = signum}

\* The iterator is in the list just while a handler runs, and what is due is
\* what lies behind it, or from the current handler on.
WalkOK ==
  /\ NoDuplicates(signal_list)
  /\ Iter \in Elements(signal_list) <=> InHandler
  /\ Where = "loop" => due = {}
  /\ Where = "walk" /\ sg = None => due = {}
  /\ Where = "walk" /\ sg # None =>
       sg \in Elements(signal_list) /\ due = Matching({sg} \cup Behind(signal_list, sg))
  /\ InHandler => due = Matching(Behind(signal_list, Iter))

\* s is blocked just if it has no handlers
Masked(s) == s \in blocked <=> \A x \in Elements(signal_list) \ {Iter} : Signum(x) # s

\* While signal_add is in progress, the mask of its signal may lag behind.
MasksOK ==
  \A s \in installed : Masked(s) \/ (pc \in {"sigaction", "unblock"} /\ s = Signum(arg))

\* Children get their numbers in order, and none of a watched process is reaped
\* without a report.
ChildrenOK ==
  /\ \E n \in 0..MaxForks : Forked = 1..n
  /\ \A p \in process_list : pid[p] \in Children
  /\ pc = "process_add" => pid[arg] \in Children
  /\ \A c \in Children : child[c] \in {"running", "zombie"} =>
       \/ c \in abandoned
       \/ \E p \in process_list : pid[p] = c
       \/ pc = "process_add" /\ pid[arg] = c
  /\ \A c \in Children : child[c] = "reaped" => c \in abandoned

IInv == TypeOK /\ CallsOK /\ WalkOK /\ MasksOK /\ ChildrenOK

-----------------------------------------------------------------------------
(* The list, and what a step keeps by leaving variables alone.             *)

\* clist_next gives the node behind which the rest lies.
LEMMA NextFacts ==
  ASSUME NEW s \in Seq(Signals \cup {Iter}), NoDuplicates(s), NEW x \in Elements(s)
  PROVE  LET y == NextOf(s, x)
         IN  /\ y = None => Behind(s, x) = {}
             /\ y # None => y \in Elements(s) \ {x} /\ Behind(s, x) = {y} \cup Behind(s, y)
<1> DEFINE y == NextOf(s, x)
<1>1. CASE IndexOf(s, x) = Len(s)
  <2>1. y = None
    BY <1>1 DEF NextOf
  <2> QED
    BY <1>1, <2>1, NextBehind
<1>2. CASE IndexOf(s, x) # Len(s)
  <2>1. y = s[IndexOf(s, x) + 1]
    BY <1>2 DEF NextOf
  <2>2. y \in Elements(s) \ {x} /\ Behind(s, x) = {y} \cup Behind(s, y)
    BY <1>2, <2>1, NextBehind
  <2>3. y # None
    BY <2>2, ElementsType, ProcessAssumption
  <2> QED
    BY <2>2, <2>3
<1> QED
  BY <1>1, <1>2

LEMMA WalkFrame ==
  ASSUME WalkOK, UNCHANGED <<signal_list, signum, sg, due>>, Where' = Where
  PROVE  WalkOK'
<1>1. InHandler' <=> InHandler
  BY DEF InHandler
<1>2. \A S : Matching(S)' = Matching(S)
  BY DEF Matching
<1>3. /\ Behind(signal_list, sg)' = Behind(signal_list, sg)
      /\ Behind(signal_list, Iter)' = Behind(signal_list, Iter)
  OBVIOUS
<1> QED
  BY <1>1, <1>2, <1>3 DEF WalkOK, Matching

LEMMA MasksFrame ==
  ASSUME MasksOK, UNCHANGED <<signal_list, blocked, installed>>,
         pc \in {"sigaction", "unblock"} => pc' \in {"sigaction", "unblock"} /\ arg' = arg
  PROVE  MasksOK'
<1>1. \A s : Masked(s)' <=> Masked(s)
  BY DEF Masked
<1> QED
  BY <1>1 DEF MasksOK

\* Nothing happens to processes, outside of process_fork.
LEMMA ChildrenFrame ==
  ASSUME ChildrenOK, UNCHANGED procVars,
         pc = "process_add" => pc' = "process_add" /\ arg' = arg,
         pc' = "process_add" => pc = "process_add"
  PROVE  ChildrenOK'
<1>1. UNCHANGED <<process_list, pid, child, abandoned>>
  BY DEF procVars
<1>2. Forked' = Forked
  BY <1>1 DEF Forked
<1> QED
  BY <1>1, <1>2 DEF ChildrenOK

LEMMA InitInvariant == Init => IInv
<1> SUFFICES ASSUME Init PROVE IInv
  OBVIOUS
<1>1. MaxForks \in Nat
  BY ProcessAssumption
<1>2. TypeOK
  <2>1. 0 \in 0..MaxForks
    BY <1>1
  <2>2. pid \in [Procs -> 0..MaxForks]
    BY <2>1 DEF Init
  <2>3. signal_list \in Seq(Signals \cup {Iter}) /\ pipe \in Seq(Signums)
    BY EmptyFacts DEF Init
  <2> QED
    BY <2>2, <2>3 DEF Init, TypeOK
<1>3. CallsOK /\ WalkOK /\ MasksOK
  BY EmptyFacts DEF Init, CallsOK, WalkOK, MasksOK, Where, InHandler
<1>4. ChildrenOK
  <2>1. Forked = {} /\ 1..0 = {} /\ 0 \in 0..MaxForks
    BY <1>1 DEF Init, Forked
  <2> QED
    BY <2>1 DEF Init, ChildrenOK
<1> QED
  BY <1>2, <1>3, <1>4 DEF IInv

-----------------------------------------------------------------------------
(* The kernel.                                                             *)

LEMMA ChildExitsStep ==
  ASSUME IInv, NEW c \in Children, ChildExits(c)
  PROVE  IInv'
<1> USE DEF IInv
<1>1. /\ child[c] = "running" /\ child' = [child EXCEPT ![c] = "zombie"]
      /\ pending' \subseteq pending \cup {CHLD}
      /\ UNCHANGED <<pc, ret, arg, signal_list, walkVars, process_list, pid,
                     abandoned, installed, blocked, pipe, overflow>>
  BY DEF ChildExits, Generate
<1>2. child' \in [Children -> {"none", "running", "zombie", "reaped", "reported"}]
  BY <1>1 DEF TypeOK
<1>3. child'[c] = "zombie" /\ \A d \in Children : d # c => child'[d] = child[d]
  BY <1>1 DEF TypeOK
<1>4. TypeOK'
  BY <1>1, <1>2 DEF TypeOK, walkVars, Signums
<1>5. Forked' = Forked
  BY <1>1, <1>3 DEF Forked
<1>6. ChildrenOK'
  BY <1>1, <1>3, <1>5 DEF ChildrenOK
<1>7. CallsOK' /\ WalkOK' /\ MasksOK'
  BY <1>1, WalkFrame, MasksFrame DEF CallsOK, Where, walkVars
<1> QED
  BY <1>4, <1>6, <1>7

LEMMA SignalStep ==
  ASSUME IInv, SignalRaised \/ \E s \in Signums : SignalHandlerPipe(s)
  PROVE  IInv'
<1> USE DEF IInv
<1>1. /\ pending' \subseteq Signums /\ pipe' \in Seq(Signums) /\ overflow' \in BOOLEAN
      /\ UNCHANGED <<pc, ret, arg, signal_list, walkVars, procVars, installed, blocked>>
  <2>1. CASE SignalRaised
    BY <2>1 DEF SignalRaised, Generate, TypeOK, Signums
  <2>2. ASSUME NEW s \in Signums, SignalHandlerPipe(s)
        PROVE  /\ pending' \subseteq Signums /\ pipe' \in Seq(Signums) /\ overflow' \in BOOLEAN
               /\ UNCHANGED <<pc, ret, arg, signal_list, walkVars, procVars, installed, blocked>>
    <3>1. /\ pending' = pending \ {s}
          /\ (pipe' = Append(pipe, s) /\ overflow' = overflow) \/ (overflow' = TRUE /\ pipe' = pipe)
          /\ UNCHANGED <<pc, ret, arg, signal_list, walkVars, procVars, installed, blocked>>
      BY <2>2 DEF SignalHandlerPipe
    <3>2. Append(pipe, s) \in Seq(Signums)
      BY DEF TypeOK
    <3> QED
      BY <3>1, <3>2 DEF TypeOK
  <2> QED
    BY <2>1, <2>2
<1>2. TypeOK'
  BY <1>1 DEF TypeOK, walkVars, procVars
<1>3. CallsOK' /\ WalkOK' /\ MasksOK' /\ ChildrenOK'
  BY <1>1, WalkFrame, MasksFrame, ChildrenFrame DEF CallsOK, Where, walkVars, procVars
<1> QED
  BY <1>2, <1>3

-----------------------------------------------------------------------------
(* Signals.                                                                *)

\* signal_add links a handler, of the user or of SIGCHLD, to the head.
LEMMA LinkStep ==
  ASSUME TypeOK, WalkOK, MasksOK, NEW s \in Signals, s \notin Elements(signal_list),
         SignalLink(s), UNCHANGED <<walkVars, blocked, installed>>, Where' = Where,
         pc \notin {"sigaction", "unblock"}, pc' = "sigaction", arg' = s
  PROVE  /\ WalkOK' /\ MasksOK' /\ signal_list' \in Seq(Signals \cup {Iter})
         /\ s \in Elements(signal_list')
<1>1. /\ signal_list' = AddHead(signal_list, s) /\ UNCHANGED <<signum, sg, due>>
  BY DEF SignalLink, walkVars
<1>2. signal_list \in Seq(Signals \cup {Iter}) /\ NoDuplicates(signal_list)
  BY DEF TypeOK, WalkOK
<1>3. /\ signal_list' \in Seq(Signals \cup {Iter}) /\ NoDuplicates(signal_list')
      /\ Elements(signal_list') = Elements(signal_list) \cup {s}
      /\ \A x \in Elements(signal_list) : Behind(signal_list', x) = Behind(signal_list, x)
  BY <1>1, <1>2, AddHeadFacts
<1>4. InHandler' <=> InHandler
  BY DEF InHandler
<1>5. s # Iter
  BY ProcessAssumption
<1>6. \A S : Matching(S)' = Matching(S)
  BY <1>1 DEF Matching
<1>7. /\ sg \in Elements(signal_list) => Behind(signal_list', sg') = Behind(signal_list, sg)
      /\ Iter \in Elements(signal_list) => Behind(signal_list', Iter) = Behind(signal_list, Iter)
  BY <1>1, <1>3
<1>8. WalkOK'
  BY <1>1, <1>3, <1>4, <1>5, <1>7 DEF WalkOK, Matching
<1>9. \A x \in Signums : x # Signum(s) => (Masked(x)' <=> Masked(x))
  BY <1>3, <1>5 DEF Masked
<1>10. MasksOK'
  BY <1>9 DEF MasksOK, TypeOK
<1> QED
  BY <1>3, <1>8, <1>10

LEMMA SignalAddStep ==
  ASSUME IInv, NEW s \in Sigs, SignalAdd(s)
  PROVE  IInv'
<1> USE DEF IInv
<1>1. /\ InUser /\ s \notin Elements(signal_list) /\ SignalLink(s)
      /\ ret' = pc /\ arg' = s /\ pc' = "sigaction"
      /\ UNCHANGED <<walkVars, procVars, kernelVars>>
  BY DEF SignalAdd, SignalIsActive
<1>2. Where' = Where /\ s \in Signals
  BY <1>1 DEF Where, InUser, Signals
<1>3. /\ WalkOK' /\ MasksOK' /\ signal_list' \in Seq(Signals \cup {Iter})
      /\ s \in Elements(signal_list')
  BY <1>1, <1>2, LinkStep DEF InUser, kernelVars
<1>4. ChildrenOK'
  BY <1>1, ChildrenFrame DEF InUser
<1>5. CallsOK'
  BY <1>1, <1>2, <1>3 DEF CallsOK
<1>6. TypeOK'
  BY <1>1, <1>2, <1>3 DEF TypeOK, walkVars, procVars, kernelVars, InUser
<1> QED
  BY <1>3, <1>4, <1>5, <1>6

LEMMA SigActionStep ==
  ASSUME IInv, SigAction
  PROVE  IInv'
<1> USE DEF IInv
<1>1. /\ pc = "sigaction" /\ pc' = "unblock" /\ installed' = installed \cup {Signum(arg)}
      /\ UNCHANGED <<ret, arg, signal_list, walkVars, procVars, blocked, pending, pipe, overflow>>
  BY DEF SigAction
<1>2. Signum(arg) \in Signums
  BY DEF Signum, Signums
<1>3. TypeOK'
  BY <1>1, <1>2 DEF TypeOK, walkVars, procVars
<1>4. \A s : Masked(s)' <=> Masked(s)
  BY <1>1 DEF Masked
<1>5. MasksOK'
  BY <1>1, <1>4 DEF MasksOK
<1>6. CallsOK' /\ WalkOK' /\ ChildrenOK'
  BY <1>1, WalkFrame, ChildrenFrame DEF CallsOK, Where, walkVars
<1> QED
  BY <1>3, <1>5, <1>6

LEMMA SigUnblockStep ==
  ASSUME IInv, SigUnblock
  PROVE  IInv'
<1> USE DEF IInv
<1>1. /\ pc = "unblock" /\ pc' = ret /\ ret' = "loop" /\ arg' = None
      /\ blocked' = blocked \ {Signum(arg)}
      /\ UNCHANGED <<signal_list, walkVars, procVars, installed, pending, pipe, overflow>>
  BY DEF SigUnblock
<1>2. ret \in {"loop", "signal_cb", "exit_cb"}
  BY DEF TypeOK
<1>3. TypeOK'
  BY <1>1, <1>2 DEF TypeOK, walkVars, procVars
<1>4. arg \in Signals /\ arg \in Elements(signal_list)
  BY <1>1 DEF CallsOK
<1>5. arg # Iter
  BY <1>4, ProcessAssumption
<1>6. \A s \in installed : s # Signum(arg) => (Masked(s)' <=> Masked(s))
  BY <1>1 DEF Masked
<1>8. \A s \in installed : s = Signum(arg) => Masked(s)'
  BY <1>1, <1>4, <1>5 DEF Masked
<1>9. MasksOK'
  BY <1>1, <1>6, <1>8 DEF MasksOK
<1>10. CallsOK' /\ WalkOK' /\ ChildrenOK'
  BY <1>1, <1>2, WalkFrame, ChildrenFrame DEF CallsOK, Where, walkVars
<1> QED
  BY <1>3, <1>9, <1>10

\* signal_del takes a handler from the list, and from what is still due.
LEMMA SignalDelStep ==
  ASSUME IInv, NEW s \in Sigs, SignalDel(s)
  PROVE  IInv'
<1> USE DEF IInv
<1>1. /\ InUser /\ s \in Elements(signal_list) /\ signal_list' = Without(signal_list, s)
      /\ due' = due \ {s}
      /\ blocked' = IF \E x \in Elements(signal_list) \ {s, Iter} : Signum(x) = Signum(s)
                    THEN blocked ELSE blocked \cup {Signum(s)}
      /\ UNCHANGED <<pc, ret, arg, signum, sg, procVars, installed, pending, pipe, overflow>>
  BY DEF SignalDel, SignalIsActive
<1>2. Where' = Where /\ pc = Where /\ Where # "walk"
  BY <1>1 DEF Where, InUser
<1>3. signal_list \in Seq(Signals \cup {Iter}) /\ NoDuplicates(signal_list)
  BY DEF TypeOK, WalkOK
<1>4. /\ signal_list' \in Seq(Signals \cup {Iter}) /\ NoDuplicates(signal_list')
      /\ Elements(signal_list') = Elements(signal_list) \ {s}
  BY <1>1, <1>3, WithoutFacts
<1>5. s # Iter /\ s \in Signals
  BY ProcessAssumption DEF Signals
<1>6. InHandler' <=> InHandler
  BY <1>2 DEF InHandler
<1>7. WalkOK'
  <2>1. Iter \in Elements(signal_list') <=> InHandler'
    BY <1>4, <1>5, <1>6 DEF WalkOK
  <2>2. ASSUME InHandler' PROVE due' = Matching(Behind(signal_list, Iter))'
    <3>1. Iter \in Elements(signal_list) /\ due = Matching(Behind(signal_list, Iter))
      BY <1>6, <2>2 DEF WalkOK
    <3>2. Behind(Without(signal_list, s), Iter) = Behind(signal_list, Iter) \ {s}
      BY <1>3, <1>5, <3>1, WithoutBehind
    <3> QED
      BY <1>1, <3>1, <3>2 DEF Matching
  <2>3. Where' = "loop" => due' = {}
    BY <1>1, <1>2 DEF WalkOK
  <2> QED
    BY <1>2, <1>4, <2>1, <2>2, <2>3 DEF WalkOK
<1>8. MasksOK'
  <2> SUFFICES ASSUME NEW g \in installed PROVE Masked(g)'
    BY <1>1 DEF MasksOK
  <2>1. Masked(g)
    BY <1>1 DEF MasksOK, InUser
  <2>2. CASE g # Signum(s)
    BY <1>1, <1>4, <2>1, <2>2 DEF Masked
  <2>3. CASE g = Signum(s)
    <3>1. g \notin blocked
      BY <1>1, <1>5, <2>1, <2>3 DEF Masked
    <3>2. CASE \E x \in Elements(signal_list) \ {s, Iter} : Signum(x) = Signum(s)
      BY <1>1, <1>4, <2>3, <3>1, <3>2 DEF Masked
    <3>3. CASE ~\E x \in Elements(signal_list) \ {s, Iter} : Signum(x) = Signum(s)
      BY <1>1, <1>4, <2>3, <3>3 DEF Masked
    <3> QED
      BY <3>2, <3>3
  <2> QED
    BY <2>2, <2>3
<1>9. CallsOK' /\ ChildrenOK'
  BY <1>1, ChildrenFrame DEF CallsOK, InUser
<1>10. TypeOK'
  <2>1. Signum(s) \in Signums
    BY DEF Signum, Signums
  <2>2. blocked' \subseteq Signums
    BY <1>1, <2>1 DEF TypeOK
  <2> QED
    BY <1>1, <1>4, <2>2 DEF TypeOK, procVars
<1> QED
  BY <1>7, <1>8, <1>9, <1>10

LEMMA PipeReadStep ==
  ASSUME IInv, PipeRead
  PROVE  IInv'
<1> USE DEF IInv
<1>1. /\ pc = "loop" /\ pipe # <<>> /\ signum' = Head(pipe) /\ pipe' = Tail(pipe)
      /\ sg' = First(signal_list) /\ pc' = "walk"
      /\ due' = {s \in Elements(signal_list) : Signum(s) = Head(pipe)}
      /\ UNCHANGED <<ret, arg, signal_list, procVars, installed, blocked, pending, overflow>>
  BY DEF PipeRead
<1>2. Where = "loop" /\ Where' = "walk"
  BY <1>1 DEF Where
<1>3. signal_list \in Seq(Signals \cup {Iter}) /\ NoDuplicates(signal_list) /\ Iter \notin Elements(signal_list)
  BY <1>2 DEF TypeOK, WalkOK, InHandler
<1>4. Elements(signal_list) \subseteq Signals
  BY <1>3, ElementsType
<1>5. \/ sg' = None /\ Elements(signal_list) = {}
      \/ /\ sg' \in Elements(signal_list) /\ sg' # None
         /\ Elements(signal_list) = {sg'} \cup Behind(signal_list, sg')
  <2>1. CASE signal_list = <<>>
    BY <1>1, <2>1, EmptyFacts DEF First
  <2>2. CASE signal_list # <<>>
    <3>1. sg' = Head(signal_list)
      BY <1>1, <2>2 DEF First
    <3>2. sg' \in Elements(signal_list) /\ Elements(signal_list) = {sg'} \cup Behind(signal_list, sg')
      BY <1>3, <2>2, <3>1, HeadBehind
    <3> QED
      BY <1>4, <3>2, ProcessAssumption
  <2> QED
    BY <2>1, <2>2
<1>6. due' = {s \in Elements(signal_list) : Signum(s) = signum'}
  BY <1>1
<1>7. WalkOK'
  <2>1. ~InHandler'
    BY <1>2 DEF InHandler
  <2>2. sg' = None => due' = {}
    BY <1>5, <1>6
  <2>3. sg' # None => /\ sg' \in Elements(signal_list)
                      /\ due' = {s \in {sg'} \cup Behind(signal_list, sg') : Signum(s) = signum'}
    BY <1>5, <1>6
  <2> QED
    BY <1>1, <1>2, <1>3, <2>1, <2>2, <2>3 DEF WalkOK, Matching
<1>8. CallsOK' /\ MasksOK' /\ ChildrenOK'
  BY <1>1, MasksFrame, ChildrenFrame DEF CallsOK
<1>9. Head(pipe) \in Signums /\ pipe' \in Seq(Signums)
  BY <1>1, TailFacts DEF TypeOK
<1>10. sg' \in Signals \cup {None} /\ due' \subseteq Signals
  BY <1>4, <1>5, <1>6
<1>11. TypeOK'
  BY <1>1, <1>9, <1>10 DEF TypeOK, procVars
<1> QED
  BY <1>7, <1>8, <1>11

\* The walk goes on from x, behind which all that is due lies.
LEMMA WalkOn ==
  ASSUME IInv, NEW list \in Seq(Signals \cup {Iter}), NoDuplicates(list), Iter \notin Elements(list),
         NEW next, next = None \/ next \in Elements(list),
         next = None => due = {},
         next # None => due = Matching({next} \cup Behind(list, next)),
         signal_list' = list, sg' = next, pc' = "walk", UNCHANGED <<signum, due>>
  PROVE  WalkOK' /\ sg' \in Signals \cup {None}
<1>1. Where' = "walk" /\ ~InHandler'
  BY DEF Where, InHandler
<1>2. Elements(list) \subseteq Signals
  BY ElementsType
<1> QED
  BY <1>1, <1>2 DEF WalkOK, Matching

LEMMA WalkSkipStep ==
  ASSUME IInv, WalkSkip
  PROVE  IInv'
<1> USE DEF IInv
<1>1. /\ pc = "walk" /\ sg # None /\ Signum(sg) # signum
      /\ sg' = NextOf(signal_list, sg)
      /\ UNCHANGED <<pc, ret, arg, signal_list, signum, due, procVars, kernelVars>>
  BY DEF WalkSkip
<1>2. Where = "walk" /\ ~InHandler
  BY <1>1 DEF Where, InHandler
<1>3. /\ signal_list \in Seq(Signals \cup {Iter}) /\ NoDuplicates(signal_list)
      /\ Iter \notin Elements(signal_list)
      /\ sg \in Elements(signal_list) /\ due = Matching({sg} \cup Behind(signal_list, sg))
  BY <1>1, <1>2 DEF TypeOK, WalkOK
<1>4. due = Matching(Behind(signal_list, sg))
  BY <1>1, <1>3 DEF Matching
<1> DEFINE next == NextOf(signal_list, sg)
<1>5. /\ next = None => Behind(signal_list, sg) = {}
      /\ next # None => /\ next \in Elements(signal_list)
                        /\ Behind(signal_list, sg) = {next} \cup Behind(signal_list, next)
  BY <1>3, NextFacts
<1>6. signal_list' = signal_list /\ sg' = next /\ pc' = "walk" /\ UNCHANGED <<signum, due>>
  BY <1>1
<1> HIDE DEF next
<1>7. /\ next = None \/ next \in Elements(signal_list)
      /\ next = None => due = {}
      /\ next # None => due = Matching({next} \cup Behind(signal_list, next))
  BY <1>4, <1>5 DEF Matching
<1>8. WalkOK' /\ sg' \in Signals \cup {None}
  BY <1>3, <1>6, <1>7, WalkOn
<1>9. CallsOK' /\ MasksOK' /\ ChildrenOK'
  BY <1>1, MasksFrame, ChildrenFrame DEF CallsOK, kernelVars
<1>10. TypeOK'
  BY <1>1, <1>8 DEF TypeOK, procVars, kernelVars
<1> QED
  BY <1>8, <1>9, <1>10

\* A handler is called: the iterator goes behind it, and it is not due any more.
LEMMA WalkCallStep ==
  ASSUME IInv, WalkCall
  PROVE  IInv'
<1> USE DEF IInv
<1>1. /\ pc = "walk" /\ sg # None /\ Signum(sg) = signum
      /\ signal_list' = InsertAfter(signal_list, sg, Iter)
      /\ due' = due \ {sg} /\ pc' \in {"reap", "signal_cb"}
      /\ UNCHANGED <<ret, arg, signum, sg, procVars, kernelVars>>
  BY DEF WalkCall
<1>2. Where = "walk" /\ ~InHandler /\ InHandler' /\ Where' # "walk" /\ Where' # "loop"
  BY <1>1 DEF Where, InHandler
<1>3. /\ signal_list \in Seq(Signals \cup {Iter}) /\ NoDuplicates(signal_list)
      /\ Iter \notin Elements(signal_list)
      /\ sg \in Elements(signal_list) /\ due = Matching({sg} \cup Behind(signal_list, sg))
  BY <1>1, <1>2 DEF TypeOK, WalkOK
<1>4. Iter \in Signals \cup {Iter}
  OBVIOUS
<1>5. /\ signal_list' \in Seq(Signals \cup {Iter}) /\ NoDuplicates(signal_list')
      /\ Elements(signal_list') = Elements(signal_list) \cup {Iter}
      /\ Behind(signal_list', Iter) = Behind(signal_list, sg)
  BY <1>1, <1>3, <1>4, InsertAfterFacts
<1>6. sg \notin Behind(signal_list, sg)
  <2>1. PICK i \in DOMAIN signal_list : signal_list[i] = sg
    BY <1>3 DEF Elements
  <2> QED
    BY <1>3, <2>1, BehindFacts
<1>7. due' = Matching(Behind(signal_list, Iter))'
  BY <1>1, <1>3, <1>5, <1>6 DEF Matching
<1>8. WalkOK'
  BY <1>2, <1>5, <1>7 DEF WalkOK
<1>9. MasksOK'
  <2>1. \A s : Masked(s)' <=> Masked(s)
    BY <1>1, <1>5 DEF Masked, kernelVars
  <2> QED
    BY <1>1, <2>1 DEF MasksOK, kernelVars
<1>10. CallsOK' /\ ChildrenOK'
  BY <1>1, ChildrenFrame DEF CallsOK
<1>11. TypeOK'
  BY <1>1, <1>5 DEF TypeOK, procVars, kernelVars
<1> QED
  BY <1>8, <1>9, <1>10, <1>11

\* The handler has returned, and the iterator leaves the list.
LEMMA WalkReturnStep ==
  ASSUME IInv, pc \in {"signal_cb", "reap"}, WalkReturn
  PROVE  IInv'
<1> USE DEF IInv
<1>1. /\ sg' = NextOf(signal_list, Iter) /\ signal_list' = Without(signal_list, Iter)
      /\ pc' = "walk"
      /\ UNCHANGED <<ret, arg, signum, due, procVars, kernelVars>>
  BY DEF WalkReturn
<1>2. InHandler
  BY DEF Where, InHandler
<1>3. /\ signal_list \in Seq(Signals \cup {Iter}) /\ NoDuplicates(signal_list)
      /\ Iter \in Elements(signal_list) /\ due = Matching(Behind(signal_list, Iter))
  BY <1>2 DEF TypeOK, WalkOK
<1> DEFINE next == NextOf(signal_list, Iter)
           list == Without(signal_list, Iter)
<1>4. /\ next = None => Behind(signal_list, Iter) = {}
      /\ next # None => /\ next \in Elements(signal_list) \ {Iter}
                        /\ Behind(signal_list, Iter) = {next} \cup Behind(signal_list, next)
  BY <1>3, NextFacts
<1>5. /\ list \in Seq(Signals \cup {Iter}) /\ NoDuplicates(list)
      /\ Elements(list) = Elements(signal_list) \ {Iter}
  BY <1>3, WithoutFacts
<1>6. next # None => Behind(list, next) = Behind(signal_list, next) \ {Iter}
  BY <1>3, <1>4, WithoutBehind
<1>7. Iter \notin Behind(signal_list, Iter)
  <2>1. PICK i \in DOMAIN signal_list : signal_list[i] = Iter
    BY <1>3 DEF Elements
  <2> QED
    BY <1>3, <2>1, BehindFacts
<1>8. signal_list' = list /\ sg' = next /\ pc' = "walk" /\ UNCHANGED <<signum, due>>
  BY <1>1
<1> HIDE DEF next, list
<1>9. /\ next = None \/ next \in Elements(list)
      /\ next = None => due = {}
      /\ next # None => due = Matching({next} \cup Behind(list, next))
  BY <1>3, <1>4, <1>5, <1>6, <1>7 DEF Matching
<1>10. WalkOK' /\ sg' \in Signals \cup {None}
  BY <1>5, <1>8, <1>9, WalkOn
<1>11. MasksOK'
  <2>1. \A s : Masked(s)' <=> Masked(s)
    BY <1>1, <1>5, <1>8 DEF Masked, kernelVars
  <2> QED
    BY <1>1, <2>1 DEF MasksOK, kernelVars
<1>12. CallsOK' /\ ChildrenOK'
  BY <1>1, ChildrenFrame DEF CallsOK
<1>13. TypeOK'
  BY <1>1, <1>5, <1>8, <1>10 DEF TypeOK, procVars, kernelVars
<1> QED
  BY <1>10, <1>11, <1>12, <1>13

LEMMA WalkEndStep ==
  ASSUME IInv, WalkEnd
  PROVE  IInv'
<1> USE DEF IInv
<1>1. /\ pc = "walk" /\ sg = None /\ pc' = "loop" /\ signum' = None
      /\ UNCHANGED <<ret, arg, signal_list, sg, due, procVars, kernelVars>>
  BY DEF WalkEnd
<1>2. Where = "walk" /\ Where' = "loop" /\ ~InHandler /\ ~InHandler'
  BY <1>1 DEF Where, InHandler
<1>3. WalkOK'
  BY <1>1, <1>2 DEF WalkOK
<1>4. CallsOK' /\ MasksOK' /\ ChildrenOK'
  BY <1>1, MasksFrame, ChildrenFrame DEF CallsOK, kernelVars
<1>5. TypeOK'
  BY <1>1 DEF TypeOK, procVars, kernelVars
<1> QED
  BY <1>3, <1>4, <1>5

-----------------------------------------------------------------------------
(* Processes.                                                              *)

\* fork() gives a new child, which belongs to the process that process_add is
\* about to link.
LEMMA ProcessForkStep ==
  ASSUME IInv, NEW p \in Procs, ProcessFork(p)
  PROVE  IInv'
<1> USE DEF IInv
<1> DEFINE c == Cardinality(Forked) + 1
<1>1. /\ InUser /\ p \notin process_list /\ Forked # Children
      /\ child' = [child EXCEPT ![c] = "running"] /\ pid' = [pid EXCEPT ![p] = c]
      /\ ret' = pc /\ arg' = p /\ pc' = "process_add"
      /\ UNCHANGED <<signal_list, walkVars, process_list, abandoned, kernelVars>>
  BY DEF ProcessFork, ProcessIsActive
<1>2. PICK n \in 0..MaxForks : Forked = 1..n
  BY DEF ChildrenOK
<1>3. MaxForks \in Nat /\ n \in Nat /\ n <= MaxForks /\ n # MaxForks
  BY <1>1, <1>2, ProcessAssumption DEF Children
<1>4. Cardinality(Forked) = n
  <2>1. Cardinality(1..n) = IF 1 > n THEN 0 ELSE n - 1 + 1
    BY <1>3, FS_Interval
  <2>2. Cardinality(1..n) = n
    BY <1>3, <2>1
  <2> QED
    BY <1>2, <2>2
<1>5. c = n + 1
  BY <1>4
<1> HIDE DEF c
<1>6. c \in Children /\ c \notin Forked /\ c \in 0..MaxForks /\ 1..c = 1..n \cup {c} /\ c \in Nat
  BY <1>2, <1>3, <1>5 DEF Children
<1>7. child[c] = "none"
  BY <1>6 DEF Forked
<1>8. /\ child' \in [Children -> {"none", "running", "zombie", "reaped", "reported"}]
      /\ child'[c] = "running" /\ \A d \in Children : d # c => child'[d] = child[d]
  BY <1>1, <1>6 DEF TypeOK
<1>9. /\ pid' \in [Procs -> 0..MaxForks]
      /\ pid'[p] = c /\ \A q \in Procs : q # p => pid'[q] = pid[q]
  BY <1>1, <1>6 DEF TypeOK
<1>10. Forked' = 1..c /\ c \in 0..MaxForks
  BY <1>2, <1>6, <1>8 DEF Forked
<1>11. \A q \in process_list : q \in Procs /\ q # p /\ pid'[q] = pid[q]
  BY <1>1, <1>9 DEF TypeOK
<1>12. ChildrenOK'
  <2>1. \A q \in process_list' : pid'[q] \in Children
    BY <1>1, <1>11 DEF ChildrenOK
  <2>2. ASSUME NEW d \in Children, child'[d] \in {"running", "zombie"}, d # c
        PROVE  d \in abandoned' \/ \E q \in process_list' : pid'[q] = d
    <3>1. child[d] \in {"running", "zombie"} /\ pc # "process_add"
      BY <1>1, <1>8, <2>2 DEF InUser
    <3>2. d \in abandoned \/ \E q \in process_list : pid[q] = d
      BY <3>1 DEF ChildrenOK
    <3> QED
      BY <1>1, <1>11, <3>2
  <2>3. \A d \in Children : child'[d] = "reaped" => d \in abandoned'
    BY <1>1, <1>8 DEF ChildrenOK
  <2>4. pc' = "process_add" /\ pid'[arg'] = c
    BY <1>1, <1>9
  <2> QED
    BY <1>6, <1>10, <2>1, <2>2, <2>3, <2>4 DEF ChildrenOK
<1>13. Where' = Where
  BY <1>1 DEF Where, InUser
<1>14. CallsOK' /\ WalkOK' /\ MasksOK'
  BY <1>1, <1>13, WalkFrame, MasksFrame DEF CallsOK, InUser, walkVars, kernelVars
<1>15. TypeOK'
  BY <1>1, <1>8, <1>9 DEF TypeOK, walkVars, kernelVars, InUser
<1> QED
  BY <1>12, <1>14, <1>15

LEMMA ProcessAddStep ==
  ASSUME IInv, ProcessAdd
  PROVE  IInv'
<1> USE DEF IInv
<1>1. /\ pc = "process_add" /\ process_list' = process_list \cup {arg}
      /\ UNCHANGED <<walkVars, pid, child, abandoned, kernelVars>>
  BY DEF ProcessAdd
<1>2. arg \in Procs /\ pid[arg] \in Children /\ ret \in {"loop", "signal_cb", "exit_cb"}
  BY <1>1 DEF CallsOK, ChildrenOK, TypeOK
<1>3. process_list' \subseteq Procs
  BY <1>1, <1>2 DEF TypeOK
<1>4. SigchldHandler \in Signals
  BY DEF Signals
<1>5. pc' # "process_add" => ChildrenOK'
  <2>1. Forked' = Forked
    BY <1>1 DEF Forked
  <2>2. \A c \in Children : (\E p \in process_list : pid[p] = c) \/ pid[arg] = c
                              => \E p \in process_list' : pid'[p] = c
    BY <1>1
  <2> QED
    BY <1>1, <1>2, <2>1, <2>2 DEF ChildrenOK
<1>6. CASE SigchldHandler \in Elements(signal_list)
  <2>1. pc' = ret /\ ret' = "loop" /\ arg' = None /\ signal_list' = signal_list
    BY <1>6 DEF ProcessAdd, SignalIsActive
  <2>2. Where' = Where /\ pc' # "process_add" /\ pc' \notin {"sigaction", "unblock"}
    BY <1>1, <1>2, <2>1 DEF Where
  <2>3. CallsOK' /\ WalkOK' /\ MasksOK'
    BY <1>1, <2>1, <2>2, WalkFrame, MasksFrame DEF CallsOK, walkVars, kernelVars
  <2>4. TypeOK'
    BY <1>1, <1>2, <1>3, <2>1 DEF TypeOK, walkVars, kernelVars
  <2> QED
    BY <1>5, <2>2, <2>3, <2>4
<1>7. CASE SigchldHandler \notin Elements(signal_list)
  <2>1. SignalLink(SigchldHandler) /\ arg' = SigchldHandler /\ pc' = "sigaction" /\ ret' = ret
    BY <1>7 DEF ProcessAdd, SignalIsActive
  <2>2. Where' = Where
    BY <1>1, <2>1 DEF Where
  <2>3. /\ WalkOK' /\ MasksOK' /\ signal_list' \in Seq(Signals \cup {Iter})
        /\ SigchldHandler \in Elements(signal_list')
    BY <1>1, <1>4, <1>7, <2>1, <2>2, LinkStep DEF kernelVars
  <2>4. CallsOK'
    BY <1>4, <2>1, <2>3 DEF CallsOK
  <2>5. TypeOK'
    BY <1>1, <1>3, <1>4, <2>1, <2>3 DEF TypeOK, walkVars, kernelVars
  <2> QED
    BY <1>5, <2>1, <2>3, <2>4, <2>5
<1> QED
  BY <1>6, <1>7

LEMMA ProcessDelStep ==
  ASSUME IInv, NEW p \in Procs, ProcessDel(p)
  PROVE  IInv'
<1> USE DEF IInv
<1>1. /\ InUser /\ p \in process_list /\ process_list' = process_list \ {p}
      /\ abandoned' = abandoned \cup {pid[p]}
      /\ UNCHANGED <<pc, ret, arg, signal_list, walkVars, pid, child, kernelVars>>
  BY DEF ProcessDel, ProcessIsActive
<1>2. pid[p] \in Children
  BY <1>1 DEF ChildrenOK
<1>3. Forked' = Forked
  BY <1>1 DEF Forked
<1>4. ChildrenOK'
  <2>1. \A c \in Children : (\E q \in process_list : pid[q] = c)
                              => c \in abandoned' \/ \E q \in process_list' : pid'[q] = c
    BY <1>1
  <2> QED
    BY <1>1, <1>3, <2>1 DEF ChildrenOK, InUser
<1>5. CallsOK' /\ WalkOK' /\ MasksOK'
  BY <1>1, WalkFrame, MasksFrame DEF CallsOK, Where, InUser, walkVars, kernelVars
<1>6. TypeOK'
  BY <1>1, <1>2 DEF TypeOK, walkVars, kernelVars
<1> QED
  BY <1>4, <1>5, <1>6

\* waitpid() finds a child: the process it belongs to is told, unless the user
\* gave it up.
LEMMA ReapStep ==
  ASSUME IInv, NEW c \in Children, Reap(c)
  PROVE  IInv'
<1> USE DEF IInv
<1>1. /\ pc = "reap" /\ child[c] = "zombie"
      /\ UNCHANGED <<ret, arg, signal_list, walkVars, pid, abandoned, kernelVars>>
      /\ \/ /\ Owner(c) = {} /\ child' = [child EXCEPT ![c] = "reaped"]
            /\ process_list' = process_list /\ pc' = pc
         \/ /\ child' = [child EXCEPT ![c] = "reported"]
            /\ process_list' = process_list \ Owner(c) /\ pc' = "exit_cb"
  BY DEF Reap
<1>2. /\ child' \in [Children -> {"none", "running", "zombie", "reaped", "reported"}]
      /\ child'[c] \in {"reaped", "reported"} /\ \A d \in Children : d # c => child'[d] = child[d]
      /\ child'[c] = "reaped" => Owner(c) = {}
  BY <1>1 DEF TypeOK
<1>3. Forked' = Forked
  BY <1>1, <1>2 DEF Forked
<1>4. Owner(c) = {} => c \in abandoned
  <2>1. c \in abandoned \/ \E p \in process_list : pid[p] = c
    BY <1>1 DEF ChildrenOK
  <2> QED
    BY <2>1 DEF Owner
<1>5. \A p \in process_list : pid[p] # c => p \in process_list'
  BY <1>1 DEF Owner
<1>6. process_list' \subseteq process_list /\ pc' \in {"reap", "exit_cb"}
  BY <1>1
<1>7. ChildrenOK'
  <2>1. \A p \in process_list' : pid'[p] \in Children
    BY <1>1, <1>6 DEF ChildrenOK
  <2>2. ASSUME NEW d \in Children, child'[d] \in {"running", "zombie"}
        PROVE  d \in abandoned' \/ \E p \in process_list' : pid'[p] = d
    <3>1. d # c /\ child[d] \in {"running", "zombie"}
      BY <1>2, <2>2
    <3>2. d \in abandoned \/ \E p \in process_list : pid[p] = d
      BY <1>1, <3>1 DEF ChildrenOK
    <3> QED
      BY <1>1, <1>5, <3>1, <3>2
  <2>3. \A d \in Children : child'[d] = "reaped" => d \in abandoned'
    BY <1>1, <1>2, <1>4 DEF ChildrenOK
  <2> QED
    BY <1>3, <1>6, <2>1, <2>2, <2>3 DEF ChildrenOK
<1>8. InHandler' /\ InHandler /\ Where' # "loop" /\ Where' # "walk"
  BY <1>1, <1>6 DEF InHandler, Where
<1>9. UNCHANGED <<signal_list, signum, sg, due>>
  BY <1>1 DEF walkVars
<1>10. WalkOK'
  BY <1>8, <1>9 DEF WalkOK, Matching
<1>11. CallsOK' /\ MasksOK'
  BY <1>1, <1>6, MasksFrame DEF CallsOK, kernelVars
<1>12. TypeOK'
  BY <1>1, <1>2, <1>6 DEF TypeOK, walkVars, kernelVars
<1> QED
  BY <1>7, <1>10, <1>11, <1>12

LEMMA ExitReturnsStep ==
  ASSUME IInv, ExitCallbackReturns
  PROVE  IInv'
<1> USE DEF IInv
<1>1. /\ pc = "exit_cb" /\ pc' = "reap"
      /\ UNCHANGED <<ret, arg, signal_list, walkVars, procVars, kernelVars>>
  BY DEF ExitCallbackReturns
<1>2. InHandler' /\ InHandler /\ Where' # "loop" /\ Where' # "walk"
  BY <1>1 DEF InHandler, Where
<1>3. WalkOK'
  BY <1>1, <1>2 DEF WalkOK, Matching, walkVars
<1>4. CallsOK' /\ MasksOK' /\ ChildrenOK'
  BY <1>1, MasksFrame, ChildrenFrame DEF CallsOK, kernelVars
<1>5. TypeOK'
  BY <1>1 DEF TypeOK, walkVars, procVars, kernelVars
<1> QED
  BY <1>3, <1>4, <1>5

-----------------------------------------------------------------------------
(* The theorems.                                                           *)

\* Every step of the kernel, of the user and of the library keeps the invariant.
THEOREM ProcessInvariance == Spec => []IInv
<1>1. IInv /\ [Next]_vars => IInv'
  <2> SUFFICES ASSUME IInv, [Next]_vars PROVE IInv'
    OBVIOUS
  <2>1. CASE Kernel
    BY <2>1, ChildExitsStep, SignalStep DEF Kernel
  <2>2. CASE User
    BY <2>2, SignalAddStep, SignalDelStep, ProcessForkStep, ProcessDelStep DEF User
  <2>3. CASE Library
    <3>1. CASE SignalCallbackReturns \/ ReapEnd
      BY <3>1, WalkReturnStep DEF SignalCallbackReturns, ReapEnd
    <3> QED
      BY <2>3, <3>1, SigActionStep, SigUnblockStep, ProcessAddStep, PipeReadStep, WalkSkipStep,
         WalkCallStep, WalkEndStep, ReapStep, ExitReturnsStep DEF Library
  <2>4. CASE UNCHANGED vars
    <3>1. UNCHANGED <<pc, ret, arg, signal_list, walkVars, procVars, kernelVars>>
      BY <2>4 DEF vars
    <3>2. TypeOK'
      BY <3>1 DEF IInv, TypeOK, walkVars, procVars, kernelVars
    <3>3. CallsOK' /\ WalkOK' /\ MasksOK' /\ ChildrenOK'
      BY <3>1, WalkFrame, MasksFrame, ChildrenFrame
      DEF IInv, CallsOK, Where, walkVars, procVars, kernelVars
    <3> QED
      BY <3>2, <3>3 DEF IInv
  <2> QED
    BY <2>1, <2>2, <2>3, <2>4 DEF Next
<1> QED
  BY <1>1, InitInvariant, PTL DEF Spec

\* pipe_read_handler calls for one signal each handler that was there from the
\* beginning and has not been deleted, once, whatever the handlers add to and
\* delete from signal_list; and the masks agree with the list.
THEOREM SignalsAreExact == Spec => []SignalsExact
<1>1. IInv => WalkExact
  <2> SUFFICES ASSUME IInv PROVE WalkExact
    OBVIOUS
  <2>1. pc = "walk" \/ pc = "loop" => Where = pc /\ ~InHandler
    BY DEF Where, InHandler
  <2>2. pc = "walk" /\ sg # None /\ Signum(sg) = signum => sg \in due
    BY <2>1 DEF IInv, WalkOK, Matching
  <2> QED
    BY <2>1, <2>2 DEF IInv, WalkOK, WalkExact
<1>2. IInv => MaskMatchesHandlers
  BY DEF IInv, MasksOK, Masked, MaskMatchesHandlers
<1>3. IInv => SignalsExact
  BY <1>1, <1>2 DEF IInv, SignalsExact
<1> QED
  BY <1>3, ProcessInvariance, PTL

\* sigchld_received never swallows the exit of a process that is watched, not
\* even when the child exits between fork() and process_add().
THEOREM NothingReapedSilently == Spec => []NoSilentReap
<1>1. IInv => NoSilentReap
  BY DEF IInv, ChildrenOK, NoSilentReap
<1> QED
  BY <1>1, ProcessInvariance, PTL

=============================================================================
