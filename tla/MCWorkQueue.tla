---------------------------- MODULE MCWorkQueue ----------------------------
(* An instance of WorkQueue for TLC.                                       *)
EXTENDS WorkQueue, TLC

CONSTANTS w1, w2, w3

\* two requests of priority 0 and one urgent
MixedPriority == (w1 :> 0) @@ (w2 :> 0) @@ (w3 :> 1)
=============================================================================
