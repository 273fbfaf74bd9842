---------------------------- MODULE ActionClient ----------------------------
(***************************************************************************)
(* An action client handle of the rclc executor (src/rclc/src/rclc/        *)
(* executor.c): the five readiness flags _rclc_check_for_new_data copies   *)
(* from the wait set, the take of a goal response, a feedback message, a   *)
(* cancel response and a result response in _rclc_take_new_data, and the   *)
(* four sweeps of _rclc_execute, over a pool of client goal handles sized  *)
(* when the client is added.  The application sends goals and cancel       *)
(* requests in callbacks of the same executor.                             *)
(*                                                                         *)
(* A goal is its UUID; every request of a goal has its own sequence        *)
(* number, so a response found by sequence number is found by goal here.   *)
(* A client goal handle is a record of the fields the executor reads and   *)
(* writes.  The rclc_action helpers (send requests, find and release goal  *)
(* handles) are outside src/ and follow spec.md sections 3 and 4.5-4.6.    *)
(* The server side is the environment (ActionClientPeer, ActionSystem).    *)
(***************************************************************************)
EXTENDS Naturals, Sequences, FiniteSets, SequencesExt

CONSTANTS
  Goals,             \* goal UUIDs the application uses
  MaxGoals,          \* handles_number given to rclc_executor_add_action_client
  FeedbackCallback   \* is a feedback_callback given (not NULL)?

ASSUME MaxGoals \in Nat \ {0} /\ FeedbackCallback \in BOOLEAN

VARIABLES
  goalQ, resultQ, cancelQ,  \* requests on their way to the server
  goalRespQ, cancelRespQ, resultRespQ, \* responses waiting in the client's services
  feedbackQ,                \* feedback messages (goal UUIDs) waiting in the subscription
  statusQ,                  \* a status message waits in the status subscription
  feedbackAvail, statusAvail, goalRespAvail, cancelRespAvail, resultRespAvail,
                            \* action_client->feedback_available, ...
  gh,                       \* [Goals -> goal handle record]
  cpc,                      \* "wait", "take" or "execute": step of spin_some
  goalsSent, cancelsSent,   \* application: goals and cancels it requested
  goalCb, feedbackCb, cancelCb, resultCb \* history: callback calls per goal

clientRequests == <<goalQ, resultQ, cancelQ>>
clientInbox    == <<goalRespQ, cancelRespQ, resultRespQ, feedbackQ, statusQ>>
clientFlags    == <<feedbackAvail, statusAvail, goalRespAvail, cancelRespAvail, resultRespAvail>>
callbacks      == <<goalCb, feedbackCb, cancelCb, resultCb>>
client         == <<clientFlags, gh, cpc, goalsSent, cancelsSent, callbacks>>
clientVars     == <<clientRequests, clientInbox, client>>

\* A free goal handle; "used" is membership of used_goal_handles, "status"
\* is what the executor sets (ACCEPTED), the other fields are the
\* available_* flags, goal_accepted and goal_cancelled.
FreeGoalHandle == [used |-> FALSE, accepted |-> FALSE, status |-> "Unknown",
                   goalResp |-> FALSE, feedback |-> FALSE,
                   cancelResp |-> FALSE, cancelled |-> FALSE, resultResp |-> FALSE]

UsedGoals == {u \in Goals : gh[u].used}

\* _rclc_check_handle_data_available for an action client.
ClientDataAvailable ==
  feedbackAvail \/ statusAvail \/ goalRespAvail \/ cancelRespAvail \/ resultRespAvail

Inc(f, S) == [u \in DOMAIN f |-> IF u \in S THEN f[u] + 1 ELSE f[u]]

-----------------------------------------------------------------------------
(* The executor *)

\* rcl_wait and rcl_action_client_wait_set_get_entities_ready: the five
\* flags are overwritten with the readiness of the client's entities.
ClientWait ==
  /\ cpc = "wait"
  /\ feedbackAvail' = (feedbackQ # << >>)
  /\ statusAvail' = statusQ
  /\ goalRespAvail' = (goalRespQ # << >>)
  /\ cancelRespAvail' = (cancelRespQ # << >>)
  /\ resultRespAvail' = (resultRespQ # << >>)
  /\ UNCHANGED <<clientRequests, clientInbox, gh, goalsSent, cancelsSent, callbacks>>
  /\ cpc' = IF ClientDataAvailable' THEN "take" ELSE "wait"

\* Take a goal response and mark the goal handle with its request's
\* sequence number, if it is still used.
TakeGoalResponse(g) ==
  IF goalRespAvail /\ g[Head(goalRespQ).goal].used
  THEN LET r == Head(goalRespQ) IN
       [g EXCEPT ![r.goal].goalResp = TRUE, ![r.goal].accepted = r.accepted]
  ELSE g

\* Fault variant: the feedback is taken only when there is no callback.
FeedbackTakenInverted == ~FeedbackCallback /\ feedbackAvail

\* Feedback is taken only when a feedback_callback was given.
FeedbackTaken == FeedbackCallback /\ feedbackAvail

TakeFeedback(g) ==
  IF FeedbackTaken /\ g[Head(feedbackQ)].used
  THEN [g EXCEPT ![Head(feedbackQ)].feedback = TRUE] ELSE g

\* Take a cancel response; goal_cancelled is set when any UUID of its
\* goals_canceling list belongs to a used goal handle.
TakeCancelResponse(g) ==
  IF cancelRespAvail /\ g[Head(cancelRespQ).goal].used
  THEN LET r == Head(cancelRespQ) IN
       [g EXCEPT ![r.goal].cancelResp = TRUE,
                 ![r.goal].cancelled = \E v \in r.canceling : g[v].used]
  ELSE g

TakeResultResponse(g) ==
  IF resultRespAvail /\ g[Head(resultRespQ)].used
  THEN [g EXCEPT ![Head(resultRespQ)].resultResp = TRUE] ELSE g

\* _rclc_take_new_data for RCLC_ACTION_CLIENT: the four takes in the code's
\* order.  Nothing takes the status message, and no flag is cleared.
ClientTake ==
  /\ cpc = "take"
  /\ gh' = TakeResultResponse(TakeCancelResponse(TakeFeedback(TakeGoalResponse(gh))))
  /\ goalRespQ' = IF goalRespAvail THEN Tail(goalRespQ) ELSE goalRespQ
  /\ feedbackQ' = IF FeedbackTaken THEN Tail(feedbackQ) ELSE feedbackQ
  /\ cancelRespQ' = IF cancelRespAvail THEN Tail(cancelRespQ) ELSE cancelRespQ
  /\ resultRespQ' = IF resultRespAvail THEN Tail(resultRespQ) ELSE resultRespQ
  /\ cpc' = "execute"
  /\ UNCHANGED <<clientRequests, statusQ, clientFlags, goalsSent, cancelsSent, callbacks>>

\* Sweep 1 of _rclc_execute: every used handle with a goal response gets
\* goal_callback; a rejected goal (or one whose result request cannot be
\* sent) is released, an accepted one becomes ACCEPTED after
\* rclc_action_send_result_request.
GoalResponses(g) == IF goalRespAvail THEN {u \in Goals : g[u].used /\ g[u].goalResp} ELSE {}

ResultRequested(g) == {u \in GoalResponses(g) : g[u].accepted}

\* Fault variant: the goal-response flag is not cleared.
GoalResponseSweepKeepFlag(g) ==
  [u \in Goals |-> IF u \in GoalResponses(g) /\ ~g[u].accepted THEN FreeGoalHandle
                   ELSE IF u \in GoalResponses(g) THEN [g[u] EXCEPT !.status = "Accepted"]
                   ELSE g[u]]

GoalResponseSweep(g) ==
  [u \in Goals |-> IF u \in GoalResponses(g) /\ ~g[u].accepted THEN FreeGoalHandle
                   ELSE IF u \in GoalResponses(g)
                   THEN [g[u] EXCEPT !.goalResp = FALSE, !.status = "Accepted"]
                   ELSE g[u]]

\* Sweep 2: every used handle with feedback gets the feedback_callback,
\* when there is one.
Feedbacks(g) == IF feedbackAvail THEN {u \in Goals : g[u].used /\ g[u].feedback} ELSE {}

FeedbackSweep(g) ==
  [u \in Goals |-> IF u \in Feedbacks(g) THEN [g[u] EXCEPT !.feedback = FALSE] ELSE g[u]]

\* Sweep 3: every used handle with a cancel response gets cancel_callback.
CancelResponses(g) ==
  IF cancelRespAvail THEN {u \in Goals : g[u].used /\ g[u].cancelResp} ELSE {}

CancelResponseSweep(g) ==
  [u \in Goals |-> IF u \in CancelResponses(g) THEN [g[u] EXCEPT !.cancelResp = FALSE]
                   ELSE g[u]]

\* Sweep 4: every used handle with a result response gets result_callback
\* and is released.
ResultResponses(g) ==
  IF resultRespAvail THEN {u \in Goals : g[u].used /\ g[u].resultResp} ELSE {}

ResultResponseSweep(g) ==
  [u \in Goals |-> IF u \in ResultResponses(g) THEN FreeGoalHandle ELSE g[u]]

\* _rclc_execute for RCLC_ACTION_CLIENT (invocation ON_NEW_DATA): the four
\* sweeps in the code's order, each guarded by its flag.  The take clears
\* no flag, so the handle still has data here.
ClientExecute ==
  LET g1 == GoalResponseSweep(gh)
      g2 == FeedbackSweep(g1)
      g3 == CancelResponseSweep(g2)
  IN
  /\ cpc = "execute"
  /\ cpc' = "wait"
  /\ gh' = ResultResponseSweep(g3)
  /\ resultQ' = resultQ \o SetToSeq(ResultRequested(gh))
  /\ goalCb' = Inc(goalCb, GoalResponses(gh))
  /\ feedbackCb' = IF FeedbackCallback THEN Inc(feedbackCb, Feedbacks(g1)) ELSE feedbackCb
  /\ cancelCb' = Inc(cancelCb, CancelResponses(g2))
  /\ resultCb' = Inc(resultCb, ResultResponses(g3))
  /\ UNCHANGED <<goalQ, cancelQ, clientInbox, clientFlags, goalsSent, cancelsSent>>

-----------------------------------------------------------------------------
(* The application, in callbacks of the same executor.                     *)

\* rclc_action_send_goal_request: takes a free goal handle (none free: an
\* error, nothing sent) and sends the goal request.
UserSendGoal(u) ==
  /\ cpc = "wait"
  /\ u \notin goalsSent
  /\ Cardinality(UsedGoals) < MaxGoals
  /\ gh' = [gh EXCEPT ![u] = [FreeGoalHandle EXCEPT !.used = TRUE]]
  /\ goalQ' = Append(goalQ, u)
  /\ goalsSent' = goalsSent \cup {u}
  /\ UNCHANGED <<resultQ, cancelQ, clientInbox, clientFlags, cpc, cancelsSent, callbacks>>

\* rclc_action_send_cancel_request for a goal the client saw accepted.
UserSendCancel(u) ==
  /\ cpc = "wait"
  /\ gh[u].used /\ gh[u].status = "Accepted"
  /\ u \notin cancelsSent
  /\ cancelQ' = Append(cancelQ, u)
  /\ cancelsSent' = cancelsSent \cup {u}
  /\ UNCHANGED <<goalQ, resultQ, clientInbox, clientFlags, gh, cpc, goalsSent, callbacks>>

ClientInit ==
  /\ goalQ = << >> /\ resultQ = << >> /\ cancelQ = << >>
  /\ goalRespQ = << >> /\ cancelRespQ = << >> /\ resultRespQ = << >>
  /\ feedbackQ = << >> /\ statusQ = FALSE
  \* rclc_executor_add_action_client: every flag false
  /\ feedbackAvail = FALSE /\ statusAvail = FALSE /\ goalRespAvail = FALSE
  /\ cancelRespAvail = FALSE /\ resultRespAvail = FALSE
  /\ gh = [u \in Goals |-> FreeGoalHandle]
  /\ cpc = "wait"
  /\ goalsSent = {} /\ cancelsSent = {}
  /\ goalCb = [u \in Goals |-> 0] /\ feedbackCb = [u \in Goals |-> 0]
  /\ cancelCb = [u \in Goals |-> 0] /\ resultCb = [u \in Goals |-> 0]

ClientExecutor == ClientWait \/ ClientTake \/ ClientExecute

ClientApplication == \E u \in Goals : UserSendGoal(u) \/ UserSendCancel(u)

-----------------------------------------------------------------------------
(* Properties *)

ClientTypeOK ==
  /\ gh \in [Goals -> [used : BOOLEAN, accepted : BOOLEAN, status : {"Unknown", "Accepted"},
                       goalResp : BOOLEAN, feedback : BOOLEAN, cancelResp : BOOLEAN,
                       cancelled : BOOLEAN, resultResp : BOOLEAN]]
  /\ Cardinality(UsedGoals) <= MaxGoals
  /\ cpc \in {"wait", "take", "execute"}
  /\ \A q \in {goalQ, resultQ, cancelQ, resultRespQ, feedbackQ} : q \in Seq(Goals)

\* The application hears about each goal once: goal_callback runs at most
\* once per goal, result_callback at most once, and cancel_callback at
\* most once per cancel request the application sent.
CallbacksOnce ==
  \A u \in Goals : /\ goalCb[u] <= 1
                   /\ resultCb[u] <= 1
                   /\ cancelCb[u] <= IF u \in cancelsSent THEN 1 ELSE 0

\* Once the server side falls silent, the client's executor eventually
\* blocks in rcl_wait: it stops running rounds of this handle.
EventuallyIdle == <>[](cpc = "wait")

=============================================================================
