-------------------------- MODULE ActionClientPeer --------------------------
(***************************************************************************)
(* An action client (module ActionClient) with an action server as its     *)
(* environment: the server answers each goal request, result request and   *)
(* cancel request in the order they arrive on each service, publishes      *)
(* feedback for accepted goals and, when PublishesStatus, the goal status  *)
(* array on the status topic (an rclcpp action server publishes it on      *)
(* every goal state change).  Module ActionSystem replaces this server by  *)
(* the rclc action server of a second executor.                            *)
(***************************************************************************)
EXTENDS ActionClient

CONSTANTS
  PublishesStatus,   \* does the server publish goal status messages?
  FeedbackPerGoal    \* feedback messages the server publishes per goal

VARIABLES
  srvAccepted,       \* goals the server accepted
  fbSent             \* feedback published per goal

peer == <<srvAccepted, fbSent>>
allVars == <<clientVars, peer>>

\* A status message after every state change of a goal, if published.
StatusAfterChange == statusQ' = (statusQ \/ PublishesStatus)

PeerAnswerGoal ==
  /\ goalQ # << >>
  /\ \E acc \in BOOLEAN :
       /\ goalRespQ' = Append(goalRespQ, [goal |-> Head(goalQ), accepted |-> acc])
       /\ srvAccepted' = IF acc THEN srvAccepted \cup {Head(goalQ)} ELSE srvAccepted
  /\ goalQ' = Tail(goalQ)
  /\ StatusAfterChange
  /\ UNCHANGED <<resultQ, cancelQ, cancelRespQ, resultRespQ, feedbackQ, client, fbSent>>

\* The goal ends and its result answers the result request.
PeerAnswerResult ==
  /\ resultQ # << >>
  /\ resultRespQ' = Append(resultRespQ, Head(resultQ))
  /\ resultQ' = Tail(resultQ)
  /\ StatusAfterChange
  /\ UNCHANGED <<goalQ, cancelQ, goalRespQ, cancelRespQ, feedbackQ, client, peer>>

\* The cancel is accepted (the goal is listed as canceling) or rejected.
PeerAnswerCancel ==
  /\ cancelQ # << >>
  /\ \E c \in SUBSET {Head(cancelQ)} :
       cancelRespQ' = Append(cancelRespQ, [goal |-> Head(cancelQ), canceling |-> c])
  /\ cancelQ' = Tail(cancelQ)
  /\ UNCHANGED <<goalQ, resultQ, goalRespQ, resultRespQ, feedbackQ, statusQ, client, peer>>

PeerFeedback(u) ==
  /\ u \in srvAccepted
  /\ fbSent[u] < FeedbackPerGoal
  /\ fbSent' = [fbSent EXCEPT ![u] = @ + 1]
  /\ feedbackQ' = Append(feedbackQ, u)
  /\ UNCHANGED <<clientRequests, goalRespQ, cancelRespQ, resultRespQ, statusQ, client,
                 srvAccepted>>

PeerInit ==
  /\ ClientInit
  /\ srvAccepted = {}
  /\ fbSent = [u \in Goals |-> 0]

PeerNext ==
  \/ (ClientExecutor \/ ClientApplication) /\ UNCHANGED peer
  \/ PeerAnswerGoal \/ PeerAnswerResult \/ PeerAnswerCancel
  \/ \E u \in Goals : PeerFeedback(u)

\* rclc_executor_spin keeps running rounds.
PeerSpec == PeerInit /\ [][PeerNext]_allVars /\ WF_allVars(ClientExecutor /\ UNCHANGED peer)

=============================================================================
