---------------------------- MODULE MC_Triggers ----------------------------
(* A subscription, a timer, a guard condition and an action client.      *)
EXTENDS Triggers, TLC

CONSTANTS s1, t1, g1, a1

MC_Ents == {s1, t1, g1, a1}

MC_EntType == s1 :> "Sub" @@ t1 :> "Timer" @@ g1 :> "Gc" @@ a1 :> "ActionClient"

=============================================================================
