------------------------------ MODULE MCRecIO ------------------------------
(* An instance of RecIO for TLC: lines of two and one bytes, and a part of  *)
(* a line that reaches the limit on records.  A buffer of three bytes may  *)
(* hold a part of a line, several lines, or a part behind an eaten line.   *)
EXTENDS RecIO

MCNewlines == {2, 3}
=============================================================================
