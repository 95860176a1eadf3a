------------------------------ MODULE MCSorter ------------------------------
(* Configurations of the sorter for TLC: unification by s-fixint.h *)
EXTENDS Sorter

SortConfig(kind, unify, bits, multi, join, known, out) ==
  [kind |-> kind, unify |-> unify, bits |-> bits, multi |-> multi, join |-> join,
   known |-> known, out |-> out]

\* Fixed-size keys unified in memory by s-fixint.h
FixintUnify == {SortConfig("fixint", TRUE, 0, FALSE, TRUE, TRUE, FALSE)}
=============================================================================
