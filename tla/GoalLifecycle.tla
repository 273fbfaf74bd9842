---------------------------- MODULE GoalLifecycle ----------------------------
(***************************************************************************)
(* What an action server promises about its goals (spec.md 4.9, with the  *)
(* cancel roll-back of 4.6): each goal moves through the goal state        *)
(* machine, one legal transition at a time, and a goal that reached a      *)
(* terminal state is released.  "None" is a goal without a goal handle.    *)
(* Several goals may move in one step, since one executor round takes and  *)
(* sweeps every goal of the server.                                        *)
(*                                                                         *)
(* The liveness part: a goal request the server took is decided, an        *)
(* accepted goal is executed once its result is requested, an executing    *)
(* goal is eventually finished by the application, and a terminal goal is  *)
(* released.                                                               *)
(***************************************************************************)
CONSTANTS Goals

VARIABLE status

Terminal == {"Succeeded", "Canceled", "Aborted"}
Status == {"None", "Unknown", "Accepted", "Executing", "Canceling"} \cup Terminal

\* The legal transitions of one goal.
Moves ==
  {<<"None", "Unknown">>,          \* goal request taken
   <<"Unknown", "Accepted">>,      \* goal_callback accepts
   <<"Unknown", "None">>,          \* goal_callback rejects: released
   <<"Accepted", "Executing">>,    \* result request taken
   <<"Accepted", "Canceling">>,    \* cancel request accepted
   <<"Executing", "Canceling">>,
   <<"Canceling", "Executing">>,   \* cancel_callback rejects: rolled back
   <<"Executing", "Succeeded">>,
   <<"Executing", "Aborted">>}
  \cup {<<"Canceling", t>> : t \in Terminal}
  \cup {<<t, "None">> : t \in Terminal} \* terminal goal released

Init == status = [u \in Goals |-> "None"]

Next ==
  /\ status' \in [Goals -> Status]
  /\ status' # status
  /\ \A u \in Goals : status'[u] = status[u] \/ <<status[u], status'[u]>> \in Moves

\* The step of one goal that its fairness is about.
Decide(u)  == status[u] = "Unknown" /\ status'[u] \in {"Accepted", "None"}
Execute(u) == status[u] = "Accepted" /\ status'[u] \in {"Executing", "Canceling"}
Finish(u)  == status[u] \in {"Executing", "Canceling"} /\ status'[u] \in Terminal
Release(u) == status[u] \in Terminal /\ status'[u] = "None"

\* Finishing is strongly fair: the application finishes a goal at some
\* moment it is executing, and a cancel may move it between EXECUTING and
\* CANCELING meanwhile.
Spec ==
  /\ Init /\ [][Next]_status
  /\ \A u \in Goals : /\ WF_status(Next /\ Decide(u))
                      /\ WF_status(Next /\ Execute(u))
                      /\ SF_status(Next /\ Finish(u))
                      /\ WF_status(Next /\ Release(u))

TypeOK == status \in [Goals -> Status]

=============================================================================
