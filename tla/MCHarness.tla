------------------------------ MODULE MCHarness ------------------------------
(* Instances of Harness for TLC: the values its configurations give to the  *)
(* constants.                                                               *)
EXTENDS Harness

CONSTANTS t1, t2

OneTurn      == {t1}
OneConv      == {{t1}}
TwoTurns     == {t1, t2}
OneEach      == {{t1}, {t2}}

AllModes     == {"native", "safe_boundary", "follow_up_only"}
FollowUpOnly == {"follow_up_only"}

AllEvents    == EventKinds
SocketEvents == EventKinds \ {"boundary"}
TaskEvents   == {"bound", "complete", "failed"}
ReplyEvents  == {"complete"}
=============================================================================
