------------------------------ MODULE RedBlack ------------------------------
(***************************************************************************)
(* The red-black trees generated by ucw/redblack.h, with duplicate keys    *)
(* (TREE_DUPLICATES) and parent pointers (TREE_STORE_PARENT), in both      *)
(* layouts of the node: with the red flag in a field of its own and, under *)
(* TREE_CONSERVE_SPACE, in the lowest bit of son[0], where a plain         *)
(* assignment to son[0] clears it.                                         *)
(*                                                                         *)
(* A node is a pair of its key and a number.  The search for the place is  *)
(* one action with the linking or unlinking of the node; each turn of      *)
(* rotate_after_insert and of rotate_after_delete is one action.  The      *)
(* sequence inOrder is the abstract tree: the nodes in their order.        *)
(***************************************************************************)
EXTENDS Integers, Sequences, SequencesExt, FiniteSets, FiniteSetsExt

CONSTANTS
  Keys,   \* a set of integers
  Copies  \* bound: nodes with the same key

Nodes == Keys \X (1..Copies)
Nil   == <<0, 0>>

VARIABLES
  tree,     \* the nodes: root, son, red (the set of red nodes), parent
  count, height,
  stack,    \* the path the operation took, as pairs of buck and son
  depth,    \* index of the entry of the stack the loop is at
  step,     \* "idle", "insert" or "delete"
  conserve, \* TREE_CONSERVE_SPACE
  inOrder   \* history

rbVars == <<tree, count, height, stack, depth, step, conserve, inOrder>>

Key(n) == n[1]

\* The operation is over and its local variables are gone
Done == step' = "idle" /\ stack' = <<>> /\ depth' = 0

-----------------------------------------------------------------------------
(* Statements: what the code does to the nodes, one after another *)

SetTreeSon(n, i, x)    == [do |-> "set_tree_son", n |-> n, i |-> i, x |-> x]
PlainSon(n, i, x)      == [do |-> "son", n |-> n, i |-> i, x |-> x]
SetRedFlag(n, flag)    == [do |-> "set_red_flag", n |-> n, flag |-> flag]
SetParent(n, p)        == [do |-> "parent", n |-> n, p |-> p]
SetRoot(n)             == [do |-> "root", n |-> n]
Rotation(n, s)         == [do |-> "rotation", n |-> n, s |-> s]

\* n->son[i] = x clears the flag of n if it is kept there
Flagged(t, n, i) == IF conserve /\ i = 0 THEN t.red \ {n} ELSE t.red

\* rotation of n and its son s
Rotated(t, n, s) ==
  LET son    == t.son[n][s]
      inner  == t.son[son][1 - s]
      turned == [t EXCEPT !.son[n][s] = inner, !.son[son][1 - s] = n,
                  !.red = Flagged(t, n, s) \ (IF conserve /\ s = 1 THEN {son} ELSE {}),
                  !.parent[son] = t.parent[n], !.parent[n] = son]
  IN  IF inner = Nil THEN turned ELSE [turned EXCEPT !.parent[inner] = n]

Do(t, st) ==
  CASE st.do = "set_tree_son" -> [t EXCEPT !.son[st.n][st.i] = st.x]
    [] st.do = "son"          -> [t EXCEPT !.son[st.n][st.i] = st.x,
                                           !.red = Flagged(t, st.n, st.i)]
    [] st.do = "set_red_flag" -> [t EXCEPT !.red = IF st.flag THEN @ \cup {st.n}
                                                              ELSE @ \ {st.n}]
    [] st.do = "parent"       -> IF st.n = Nil THEN t
                                 ELSE [t EXCEPT !.parent[st.n] = st.p]
    [] st.do = "root"         -> [t EXCEPT !.root = st.n]
    [] st.do = "rotation"     -> Rotated(t, st.n, st.s)

Run(statements) == tree' = FoldLeft(Do, tree, statements)

\* n->son[s] = rotation(m, r), where m is that son; the result is m->son[r]
RotateSon(n, s, m, r) == <<Rotation(m, r), PlainSon(n, s, tree.son[m][r])>>

\* The subtree x is hung below entry d of the path, or becomes the root
Hang(path, d, x) ==
  IF d > 0 THEN SetTreeSon(path[d].buck, path[d].son, x) ELSE SetRoot(x)

-----------------------------------------------------------------------------
(* Paths *)

Entry(n, s) == [buck |-> n, son |-> s]

\* fill_stack: the path to the first (dir = 0) or the last (dir = 1) node
\* with the key, or to the place where there is none
FillStack(from, k, dir) ==
  LET path[n \in Nodes \cup {Nil}] ==
        IF n = Nil THEN <<Entry(Nil, 10)>>
        ELSE IF k < Key(n) THEN <<Entry(n, 0)>> \o path[tree.son[n][0]]
        ELSE IF k > Key(n) THEN <<Entry(n, 1)>> \o path[tree.son[n][1]]
        ELSE LET deeper == path[tree.son[n][dir]]
             IN  IF Last(deeper).buck # Nil THEN <<Entry(n, dir)>> \o deeper
                                            ELSE <<Entry(n, 10)>>
  IN  path[from]

\* find_next_node: from n to its right son and then to the left as far as
\* it goes; the last entry is empty
FindNextNode(n) ==
  LET left[m \in Nodes \cup {Nil}] ==
        IF m = Nil THEN <<Entry(Nil, 10)>>
                   ELSE <<Entry(m, 0)>> \o left[tree.son[m][0]]
  IN  <<Entry(n, 1)>> \o left[tree.son[n][1]]

Find(k) == Last(FillStack(tree.root, k, 0)).buck

\* search_down (dir = 1) and search_up (dir = 0): the nearest node not behind
\* the key
SearchNear(k, dir) ==
  LET near[n \in Nodes \cup {Nil}] ==
        IF n = Nil THEN Nil
        ELSE IF k = Key(n) THEN n
        ELSE LET away == IF k < Key(n) THEN 0 ELSE 1
                 found == near[tree.son[n][away]]
             IN  IF away = dir /\ found = Nil THEN n ELSE found
  IN  near[tree.root]

\* boundary and first_node: the outermost node
Boundary(dir) ==
  LET last[n \in Nodes \cup {Nil}] ==
        IF n = Nil \/ tree.son[n][dir] = Nil THEN n ELSE last[tree.son[n][dir]]
  IN  last[tree.root]

\* adjacent: down if there is a subtree on that side, else up by the parents
Adjacent(start, dir) ==
  LET down[n \in Nodes] ==
        IF tree.son[n][1 - dir] = Nil THEN n ELSE down[tree.son[n][1 - dir]]
      up[n \in Nodes] ==
        LET next == tree.parent[n]
        IN  IF next # Nil /\ n = tree.son[next][dir] THEN up[next] ELSE next
  IN  IF tree.son[start][dir] # Nil THEN down[tree.son[start][dir]] ELSE up[start]

-----------------------------------------------------------------------------
(* Insertion *)

InTree(n) == n \in ToSet(inOrder)

\* new: the node is linked behind all nodes with its key and made red
New(k) ==
  /\ step = "idle"
  /\ \E c \in 1..Copies :
       /\ ~InTree(<<k, c>>)
       /\ \A d \in 1..(c - 1) : InTree(<<k, d>>)
       /\ LET added == <<k, c>>
              found == FillStack(tree.root, k, 1)
              path  == IF Last(found).buck = Nil THEN found
                       ELSE Front(found) \o FindNextNode(Last(found).buck)
              d     == Len(path)
          IN  /\ stack' = [path EXCEPT ![d].buck = added]
              /\ depth' = d
              /\ Run(<<PlainSon(added, 0, Nil), PlainSon(added, 1, Nil),
                       SetParent(added, IF d > 1 THEN path[d - 1].buck ELSE Nil),
                       Hang(path, d - 1, added), SetRedFlag(added, TRUE)>>)
              /\ inOrder' = SelectSeq(inOrder, LAMBDA n : Key(n) <= k) \o <<added>>
                              \o SelectSeq(inOrder, LAMBDA n : Key(n) > k)
  /\ count' = count + 1
  /\ step' = "insert"
  /\ UNCHANGED <<height, conserve>>

Red(n) == n \in tree.red

Node   == stack[depth].buck
Above  == stack[depth - 1].buck
Grand  == stack[depth - 2].buck
Uncle  == tree.son[Grand][1 - stack[depth - 2].son]

\* The root or a son of a black node may be red
InsertFits ==
  /\ step = "insert"
  /\ depth > 1 => ~Red(Above)
  /\ Done
  /\ UNCHANGED <<tree, count, height, conserve, inOrder>>

\* The red root above the node becomes black
InsertGrows ==
  /\ step = "insert"
  /\ depth = 2 /\ Red(Above)
  /\ Run(<<SetRedFlag(Above, FALSE)>>)
  /\ height' = height + 1
  /\ Done
  /\ UNCHANGED <<count, conserve, inOrder>>

RedPair == step = "insert" /\ depth > 2 /\ Red(Above)

\* Red parent and uncle: exchange the colours and go on two levels higher
InsertRecolours ==
  /\ RedPair /\ Red(Uncle)
  /\ Run(<<SetRedFlag(Above, FALSE), SetRedFlag(Uncle, FALSE), SetRedFlag(Grand, TRUE)>>)
  /\ depth' = depth - 2
  /\ UNCHANGED <<count, height, stack, step, conserve, inOrder>>

\* Mutant: the colours after a double rotation are those of a single one
InsertRotatesSame ==
  /\ RedPair /\ ~Red(Uncle)
  /\ LET s1 == stack[depth - 1].son
         s2 == stack[depth - 2].son
     IN  Run((IF s1 = s2 THEN <<>> ELSE RotateSon(Grand, s2, Above, s1))
               \o <<Rotation(Grand, s2), SetRedFlag(Above, FALSE), SetRedFlag(Grand, TRUE),
                    Hang(stack, depth - 3, IF s1 = s2 THEN Above ELSE Node)>>)
  /\ Done
  /\ UNCHANGED <<count, height, conserve, inOrder>>

\* Black uncle: one rotation, or two when the node is an inner grandson
InsertRotates ==
  /\ RedPair /\ ~Red(Uncle)
  /\ LET s1 == stack[depth - 1].son
         s2 == stack[depth - 2].son
     IN  Run(IF s1 = s2
             THEN <<Rotation(Grand, s2), SetRedFlag(Above, FALSE), SetRedFlag(Grand, TRUE),
                    Hang(stack, depth - 3, Above)>>
             ELSE RotateSon(Grand, s2, Above, s1)
                    \o <<Rotation(Grand, s2), SetRedFlag(Grand, TRUE),
                         SetRedFlag(Above, TRUE), SetRedFlag(Node, FALSE),
                         Hang(stack, depth - 3, Node)>>)
  /\ Done
  /\ UNCHANGED <<count, height, conserve, inOrder>>

-----------------------------------------------------------------------------
(* Removal *)

\* remove_by_stack of a node with two sons: next leads from it to the node
\* after it, xchg, and the two change their places
ExchangedPath(path, next) ==
  [Front(path) \o next EXCEPT ![Len(path)].buck = Last(next).buck,
                              ![Len(path) + Len(next) - 1].buck = Head(next).buck]

Exchange(path, whole, node, xchg) ==
  LET e  == Len(path)
      up == whole[Len(whole) - 1]
  IN  <<PlainSon(xchg, 0, tree.son[node][0]), PlainSon(xchg, 1, tree.son[node][1]),
        Hang(path, e - 1, xchg),
        PlainSon(node, 0, Nil), PlainSon(node, 1, tree.son[xchg][1]),
        SetTreeSon(up.buck, up.son, node),
        SetParent(xchg, IF e > 1 THEN path[e - 1].buck ELSE Nil),
        SetParent(tree.son[node][0], xchg),
        SetParent(IF up.buck = xchg THEN node ELSE tree.son[node][1], xchg),
        SetParent(node, up.buck),
        SetParent(tree.son[xchg][1], node),
        SetRedFlag(xchg, Red(node)), SetRedFlag(node, Red(xchg))>>

\* The rest of remove_by_stack: the node, red or not, with at most one son is
\* unlinked from the end of the path; a red son takes over its black
Unlink(path, node, son, wasRed, before) ==
  LET d == Len(path)
  IN  /\ Run(before \o
             <<Hang(path, d - 1, son), SetParent(son, IF d > 1 THEN path[d - 1].buck ELSE Nil),
               SetRedFlag(IF wasRed \/ son = Nil THEN node ELSE son, FALSE),
               SetRedFlag(node, FALSE), SetTreeSon(node, 0, Nil), SetTreeSon(node, 1, Nil),
               SetParent(node, Nil)>>)
      /\ count' = count - 1
      /\ inOrder' = SelectSeq(inOrder, LAMBDA n : n # node)
      /\ IF wasRed \/ son # Nil THEN Done
         ELSE step' = "delete" /\ stack' = path /\ depth' = d - 1
      /\ UNCHANGED <<height, conserve>>

RemoveByStack(path) ==
  LET node == Last(path).buck
  IN  IF tree.son[node][0] # Nil /\ tree.son[node][1] # Nil
      THEN LET next  == Front(FindNextNode(node))
               xchg  == Last(next).buck
               whole == ExchangedPath(path, next)
           IN  Unlink(whole, node, tree.son[xchg][1], Red(xchg),
                      Exchange(path, whole, node, xchg))
      ELSE Unlink(path, node, IF tree.son[node][0] # Nil THEN tree.son[node][0]
                              ELSE tree.son[node][1], Red(node), <<>>)

\* delete of the last node with the key
Delete(k) ==
  /\ step = "idle"
  /\ LET path == FillStack(tree.root, k, 1)
     IN  Last(path).buck # Nil /\ RemoveByStack(path)

\* remove of a node: the path is found by the parents
RemoveNode(node) ==
  /\ step = "idle"
  /\ LET side(n) == IF tree.son[tree.parent[n]][0] = n THEN 0 ELSE 1
         path[n \in Nodes] ==
           IF tree.parent[n] = Nil THEN <<Entry(n, 10)>>
           ELSE LET up == path[tree.parent[n]]
                IN  [up EXCEPT ![Len(up)].son = side(n)] \o <<Entry(n, 10)>>
     IN  RemoveByStack(path[node])

\* A black node is missing in every path: the tree is lower
DeleteShrinks ==
  /\ step = "delete" /\ depth = 0
  /\ height' = height - 1
  /\ Done
  /\ UNCHANGED <<tree, count, conserve, inOrder>>

MissingBlack == step = "delete" /\ depth > 0

DelSon  == stack[depth].son
Sibling == tree.son[Node][1 - DelSon]
Nephew(s) == tree.son[Sibling][s]
Inner   == Nephew(DelSon)   \* called son in the code when the sibling is red

Flags(reds, blacks) ==
  SetToSeq({SetRedFlag(n, FALSE) : n \in blacks} ) \o
  SetToSeq({SetRedFlag(n, TRUE) : n \in reds})

\* Black sibling without red sons: recolour, and go on above a black parent
DeleteRecolours ==
  /\ MissingBlack
  /\ ~Red(Sibling) /\ ~Red(Nephew(0)) /\ ~Red(Nephew(1))
  /\ Run(<<SetRedFlag(Sibling, TRUE), SetRedFlag(Node, FALSE)>>)
  /\ IF Red(Node) THEN Done ELSE depth' = depth - 1 /\ UNCHANGED <<step, stack>>
  /\ UNCHANGED <<count, height, conserve, inOrder>>

\* The rotations, the new colours, and the subtree instead of the parent
Replaced(rotations, reds, blacks, instead) ==
  /\ Run(rotations \o Flags(reds, blacks \ reds) \o <<Hang(stack, depth - 1, instead)>>)
  /\ Done
  /\ UNCHANGED <<count, height, conserve, inOrder>>

RotateUp    == <<Rotation(Node, 1 - DelSon)>>
RotateTwice == RotateSon(Node, 1 - DelSon, Sibling, DelSon) \o RotateUp

\* n is red if the parent was
LikeParent(n) == IF Red(Node) THEN {n} ELSE {}

\* Black sibling with a red outer son only
DeleteRotatesOuter ==
  /\ MissingBlack
  /\ ~Red(Sibling) /\ ~Red(Inner) /\ Red(Nephew(1 - DelSon))
  /\ Replaced(RotateUp, LikeParent(Sibling), {Sibling, Node, Nephew(1 - DelSon)}, Sibling)

\* Black sibling with a red inner son
DeleteRotatesInner ==
  /\ MissingBlack
  /\ ~Red(Sibling) /\ Red(Inner)
  /\ Replaced(RotateTwice, LikeParent(Inner), {Inner, Node, Sibling}, Inner)

GrandNephew(s) == tree.son[Inner][s]

\* Red sibling, whose inner son is black, as the parent is: without red sons
DeleteRedPlain ==
  /\ MissingBlack
  /\ Red(Sibling) /\ ~Red(GrandNephew(0)) /\ ~Red(GrandNephew(1))
  /\ Replaced(RotateUp, {Inner}, {Sibling, Node}, Sibling)

\* ... with a red outer son only
DeleteRedOuter ==
  /\ MissingBlack
  /\ Red(Sibling) /\ ~Red(GrandNephew(DelSon)) /\ Red(GrandNephew(1 - DelSon))
  /\ Replaced(RotateTwice, {Sibling}, {Inner, Node, GrandNephew(1 - DelSon)}, Inner)

\* ... with a red inner son
DeleteRedInner ==
  /\ MissingBlack
  /\ Red(Sibling) /\ Red(GrandNephew(DelSon))
  /\ LET top == GrandNephew(DelSon)
     IN  Replaced(<<Rotation(Inner, DelSon), PlainSon(Sibling, DelSon, top),
                    Rotation(Sibling, DelSon), PlainSon(Node, 1 - DelSon, top)>> \o RotateUp,
                  {Sibling}, {top, Node, Inner}, top)

-----------------------------------------------------------------------------

Init ==
  /\ tree = [root   |-> Nil,
             son    |-> [n \in Nodes |-> [i \in {0, 1} |-> Nil]],
             red    |-> {},
             parent |-> [n \in Nodes |-> Nil]]
  /\ count = 0 /\ height = 0
  /\ stack = <<>> /\ depth = 0
  /\ step = "idle"
  /\ conserve \in BOOLEAN
  /\ inOrder = <<>>

Next ==
  \/ \E k \in Keys : New(k) \/ Delete(k)
  \/ \E n \in Nodes : InTree(n) /\ RemoveNode(n)
  \/ InsertFits \/ InsertGrows \/ InsertRecolours \/ InsertRotates
  \/ DeleteShrinks \/ DeleteRecolours
  \/ DeleteRotatesOuter \/ DeleteRotatesInner
  \/ DeleteRedPlain \/ DeleteRedOuter \/ DeleteRedInner

Spec == Init /\ [][Next]_rbVars

-----------------------------------------------------------------------------

\* The nodes below n in their order, and the numbers of black nodes on the
\* ways down from n
Traversed(from) ==
  LET seq[n \in Nodes \cup {Nil}] ==
        IF n = Nil THEN <<>>
        ELSE seq[tree.son[n][0]] \o <<n>> \o seq[tree.son[n][1]]
  IN  seq[from]

BlackCounts(from) ==
  LET black[n \in Nodes \cup {Nil}] ==
        IF n = Nil THEN {0}
        ELSE {b + (IF Red(n) THEN 0 ELSE 1) :
                b \in black[tree.son[n][0]] \cup black[tree.son[n][1]]}
  IN  black[from]

\* What dump_subtree asserts of a finished tree: no red node has a red father,
\* every way down has height black nodes and the parents are right; moreover,
\* the tree holds exactly the nodes put in and not removed, in their order.
TreeSound ==
  step = "idle" =>
    /\ Traversed(tree.root) = inOrder
    /\ count = Len(inOrder)
    /\ BlackCounts(tree.root) = {height}
    /\ \A n \in ToSet(inOrder) :
         /\ \A i \in {0, 1} : tree.son[n][i] # Nil =>
              /\ tree.parent[tree.son[n][i]] = n
              /\ ~(Red(n) /\ Red(tree.son[n][i]))
         /\ tree.parent[n] = Nil <=> n = tree.root

Nth(i) == IF i \in 1..Len(inOrder) THEN inOrder[i] ELSE Nil

\* The searches agree with the order: find gives the first node of the key,
\* search_down and search_up a node with the nearest key on their side,
\* boundary the ends, and adjacent the neighbours (what TREE_FOR_ALL visits).
SearchesAgree ==
  step = "idle" =>
    /\ \A k \in Keys :
         LET nodes == ToSet(inOrder)
             below == {Key(n) : n \in {m \in nodes : Key(m) <= k}}
             above == {Key(n) : n \in {m \in nodes : Key(m) >= k}}
         IN  /\ Find(k) = Nth(Cardinality({n \in nodes : Key(n) < k}) + 1)
                  \/ (Find(k) = Nil /\ \A n \in nodes : Key(n) # k)
             /\ Key(SearchNear(k, 1)) = IF below = {} THEN 0 ELSE Max(below)
             /\ Key(SearchNear(k, 0)) = IF above = {} THEN 0 ELSE Min(above)
    /\ Boundary(0) = Nth(1) /\ Boundary(1) = Nth(Len(inOrder))
    /\ \A i \in 1..Len(inOrder) :
         /\ Adjacent(inOrder[i], 1) = Nth(i + 1)
         /\ Adjacent(inOrder[i], 0) = Nth(i - 1)

=============================================================================
