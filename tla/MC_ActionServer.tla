--------------------------- MODULE MC_ActionServer ---------------------------
(* Model for ActionServerPeer: two goals, one result request and one cancel    *)
(* request per goal.                                                       *)
EXTENDS ActionServerPeer

CONSTANTS u1, u2

MC_Goals == {u1, u2}
=============================================================================
