------------------------------- MODULE Lists -------------------------------
(***************************************************************************)
(* The circular lists of ucw/clists.h, as sequences of nodes.  A node is   *)
(* linked at most once, so that it stands for its place in the list.       *)
(***************************************************************************)
EXTENDS Integers, Sequences

Elements(s) == {s[i] : i \in DOMAIN s}
NoDuplicates(s) == \A i, j \in DOMAIN s : s[i] = s[j] => i = j
IndexOf(s, x) == CHOOSE i \in DOMAIN s : s[i] = x

\* clist_add_head
AddHead(s, x) == <<x>> \o s

\* clist_insert_after
InsertAfter(s, x, y) ==
  SubSeq(s, 1, IndexOf(s, x)) \o <<y>> \o SubSeq(s, IndexOf(s, x) + 1, Len(s))

\* clist_remove of a node, if it is linked here
Without(s, x) ==
  IF x \in Elements(s)
  THEN SubSeq(s, 1, IndexOf(s, x) - 1) \o SubSeq(s, IndexOf(s, x) + 1, Len(s))
  ELSE s

=============================================================================
