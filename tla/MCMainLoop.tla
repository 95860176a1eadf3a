----------------------------- MODULE MCMainLoop -----------------------------
(* An instance of MainLoop for TLC: a file used in both directions, one    *)
(* that is only read, and hooks and timers to disturb them.                *)
EXTENDS MainLoop, TLC

CONSTANTS f1, f2

MCWanted == (f1 :> {{}, {"in"}, {"in", "out"}}) @@ (f2 :> {{"in"}})
=============================================================================
