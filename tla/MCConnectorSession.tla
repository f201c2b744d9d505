------------------------- MODULE MCConnectorSession -------------------------
(* Instances of ConnectorSession for TLC: the events a Connector sends.     *)
EXTENDS ConnectorSession

(* A reply and a permission request.                                       *)
TwoEvents  == {"reply", "ask"}
TwoKinds   == [reply |-> "reply.completed", ask |-> "permission.requested"]
OneReply   == [e \in TwoEvents |-> "r1"]
=============================================================================
