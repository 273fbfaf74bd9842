------------------------- MODULE MC_ExecutorTable -------------------------
(* Model for ExecutorTable: one entity of each handle type, an action     *)
(* client and an action server, and a table of three slots, so that full   *)
(* tables, duplicate registrations and removals from the middle occur.     *)
EXTENDS ExecutorTable

CONSTANTS s1, s2, t1, c1, c2, v1, v2, v3, g1, ac1, as1

MC_Ents == {s1, s2, t1, c1, c2, v1, v2, v3, g1, ac1, as1}

MC_EntType ==
  (s1 :> "Sub") @@ (s2 :> "SubCtx") @@ (t1 :> "Timer") @@ (c1 :> "ClientReqId")
  @@ (c2 :> "Client") @@ (v1 :> "ServiceCtx") @@ (v2 :> "Service")
  @@ (v3 :> "ServiceReqId") @@ (g1 :> "Gc") @@ (ac1 :> "ActionClient")
  @@ (as1 :> "ActionServer")

\* rcl_action_client_wait_set_get_num_entities: feedback and status
\* subscriptions, goal/cancel/result clients; the server: goal/cancel/result
\* services and the goal-expiry timer.
MC_ActionEntities ==
  ("ActionClient" :> [g \in Groups |->
                        CASE g = "subscriptions" -> 2 [] g = "clients" -> 3 [] OTHER -> 0])
  @@ ("ActionServer" :> [g \in Groups |->
                        CASE g = "services" -> 3 [] g = "timers" -> 1 [] OTHER -> 0])
=============================================================================
