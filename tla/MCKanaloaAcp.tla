---------------------------- MODULE MCKanaloaAcp ----------------------------
(* Instances of KanaloaAcp for TLC: the calls that are made.                *)
EXTENDS KanaloaAcp, TLC

CONSTANTS j1, j2

WorkThenControl == j1 :> {"send", "loop"} @@ j2 :> {"send", "steer", "resume"}
SendsOnly       == j1 :> {"send"} @@ j2 :> {"send"}
=============================================================================
