---------------------------- MODULE ActionServer ----------------------------
(***************************************************************************)
(* An action server handle of the rclc executor (src/rclc/src/rclc/        *)
(* executor.c): the readiness flags _rclc_check_for_new_data copies from   *)
(* the wait set, the take of goal, result and cancel requests in           *)
(* _rclc_take_new_data, and the three sweeps of _rclc_execute (terminal    *)
(* cleanup, goal requests, cancel requests), over a pool of goal handles   *)
(* sized when the server is added.                                         *)
(*                                                                         *)
(* A goal is identified by its UUID (a model value); a request carries     *)
(* only the UUID.  A goal handle is abstracted to the status of its goal:  *)
(* "None" when the goal has no handle (not yet taken, or released).  The   *)
(* rclc_action helpers the executor calls and rcl's goal state machine are *)
(* outside src/ and follow spec.md sections 4.5, 4.6 and 4.9.              *)
(*                                                                         *)
(* The server talks to its clients through the rcl action services: the    *)
(* request queues are what has arrived and not been taken, the response    *)
(* queues and the feedback topic are what the server sent and the client   *)
(* has not taken.  The application that finishes goals, in callbacks of   *)
(* the same executor, is part of this module; the clients are not         *)
(* (ActionServerPeer, ActionSystem).                                       *)
(***************************************************************************)
EXTENDS Naturals, Sequences, FiniteSets, SequencesExt

CONSTANTS
  Goals,             \* goal UUIDs the clients use
  MaxGoals,          \* handles_number given to rclc_executor_add_action_server
  FeedbackPerGoal    \* feedback messages the application publishes per goal

ASSUME MaxGoals \in Nat \ {0} /\ FeedbackPerGoal \in Nat

Terminal == {"Succeeded", "Canceled", "Aborted"}
Status == {"None", "Unknown", "Accepted", "Executing", "Canceling"} \cup Terminal

\* A goal response says whether the goal was accepted; a cancel response
\* lists the goals that are canceling (empty when the cancel is rejected).
GoalResponse == [goal : Goals, accepted : BOOLEAN]
CancelResponse == [goal : Goals, canceling : SUBSET Goals]

VARIABLES
  goalQ, resultQ, cancelQ,  \* requests waiting in the server's three services
  goalRespQ, cancelRespQ, resultRespQ, \* responses on their way to the client
  feedbackQ,                \* feedback messages (goal UUIDs) on the topic
  status,                   \* [Goals -> Status]: the goal handles in use
  goalAvail, resultAvail, cancelAvail, \* goal/result/cancel_request_available
  goalEnded,                \* action_server->goal_ended
  pc,                       \* "wait", "take" or "execute": step of spin_some
  finished,                 \* application: goals it sent a result for
  fbSent                    \* application: feedback published per goal

requests  == <<goalQ, resultQ, cancelQ>>
responses == <<goalRespQ, cancelRespQ, resultRespQ, feedbackQ>>
server    == <<status, goalAvail, resultAvail, cancelAvail, goalEnded, pc, finished, fbSent>>
vars      == <<requests, responses, server>>

Used == {u \in Goals : status[u] # "None"}

\* rclc_action_take_goal_handle: a free handle exists while fewer than
\* handles_number are in use.
FreeHandle == Cardinality(Used) < MaxGoals

\* rcl_action_transition_goal_state(s, GOAL_EVENT_CANCEL_GOAL): CANCELING
\* from ACCEPTED or EXECUTING; any other state is an invalid transition.
CancelTransition(s) == IF s \in {"Accepted", "Executing"} THEN "Canceling" ELSE "Invalid"

\* _rclc_check_handle_data_available for an action server (the expiry flag
\* is never set in this model).
DataAvailable == goalAvail \/ cancelAvail \/ resultAvail \/ goalEnded

-----------------------------------------------------------------------------
(* The executor *)

\* rcl_wait and _rclc_check_for_new_data: the three request flags are
\* overwritten with the readiness of the services; goal_ended is left
\* alone.  trigger_any over this single handle fires iff data is available.
Wait ==
  /\ pc = "wait"
  /\ goalAvail' = (goalQ # << >>)
  /\ resultAvail' = (resultQ # << >>)
  /\ cancelAvail' = (cancelQ # << >>)
  /\ UNCHANGED <<requests, responses, status, goalEnded, finished, fbSent>>
  /\ pc' = IF DataAvailable' THEN "take" ELSE "wait"

\* Fault variant: the goal request is taken without a free goal handle.
GoalTakenNoSlotCheck == goalAvail

\* The goal-request part of the take: with a free goal handle the request
\* is taken and the handle gets status UNKNOWN; without one the take is
\* skipped and the request stays in the service.
GoalTaken == goalAvail /\ FreeHandle

TakeGoal(st) == IF GoalTaken THEN [st EXCEPT ![Head(goalQ)] = "Unknown"] ELSE st

\* The result-request part: the request is taken and a goal handle with its
\* UUID is set to EXECUTING, whatever its status.
TakeResult(st) ==
  IF resultAvail /\ st[Head(resultQ)] # "None"
  THEN [st EXCEPT ![Head(resultQ)] = "Executing"] ELSE st

\* Fault variant: the result of the CANCEL_GOAL transition is not checked.
TakeCancelNoCheck(st) ==
  IF cancelAvail /\ st[Head(cancelQ)] # "None"
  THEN [st EXCEPT ![Head(cancelQ)] = "Canceling"] ELSE st

\* The cancel-request part: a handle with the UUID whose status admits the
\* CANCEL_GOAL event becomes CANCELING (its header kept for the sweep);
\* otherwise a reject response (TERMINATED or UNKNOWN_GOAL) is sent at once.
TakeCancel(st) ==
  IF cancelAvail /\ st[Head(cancelQ)] # "None"
                 /\ CancelTransition(st[Head(cancelQ)]) = "Canceling"
  THEN [st EXCEPT ![Head(cancelQ)] = "Canceling"] ELSE st

CancelRejectedAtTake(st) ==
  cancelAvail /\ (st[Head(cancelQ)] = "None"
                  \/ CancelTransition(st[Head(cancelQ)]) # "Canceling")

\* _rclc_take_new_data for RCLC_ACTION_SERVER.  Only result_request_available
\* is cleared here.
Take ==
  LET st1 == TakeGoal(status)
      st2 == TakeResult(st1)
  IN
  /\ pc = "take"
  /\ status' = TakeCancel(st2)
  /\ goalQ' = IF GoalTaken THEN Tail(goalQ) ELSE goalQ
  /\ resultQ' = IF resultAvail THEN Tail(resultQ) ELSE resultQ
  /\ cancelQ' = IF cancelAvail THEN Tail(cancelQ) ELSE cancelQ
  /\ resultAvail' = FALSE
  /\ cancelRespQ' = IF CancelRejectedAtTake(st2)
                    THEN Append(cancelRespQ, [goal |-> Head(cancelQ), canceling |-> {}])
                    ELSE cancelRespQ
  /\ pc' = "execute"
  /\ UNCHANGED <<goalRespQ, resultRespQ, feedbackQ, goalAvail, cancelAvail, goalEnded,
                 finished, fbSent>>

\* Fault variant: the sweep compares with GOAL_STATE_CANCELED instead of
\* GOAL_STATE_CANCELING, so only ABORTED handles are released.
CleanupAbortedOnly(st) ==
  IF goalEnded THEN [u \in Goals |-> IF st[u] = "Aborted" THEN "None" ELSE st[u]]
  ELSE st

\* Sweep 1 of _rclc_execute: with goal_ended set, every handle whose status
\* is terminal (above CANCELING) is released, then goal_ended is cleared.
Cleanup(st) ==
  IF goalEnded THEN [u \in Goals |-> IF st[u] \in Terminal THEN "None" ELSE st[u]]
  ELSE st

\* Sweep 2: every handle in UNKNOWN gets goal_callback's verdict acc[u]
\* and a goal response; an accepted goal becomes ACCEPTED, a rejected one
\* is released.
NewGoals(st) == IF goalAvail THEN {u \in Goals : st[u] = "Unknown"} ELSE {}

GoalSweepExecuting(st, acc) ==
  [u \in Goals |-> IF u \in NewGoals(st)
                   THEN IF acc[u] THEN "Executing" ELSE "None"
                   ELSE st[u]]

GoalSweep(st, acc) ==
  [u \in Goals |-> IF u \in NewGoals(st)
                   THEN IF acc[u] THEN "Accepted" ELSE "None"
                   ELSE st[u]]

\* Sweep 3: every handle in CANCELING gets cancel_callback's verdict cb[u]
\* and a cancel response to its stored header; a rejected one is rolled
\* back to EXECUTING.
Canceling(st) == IF cancelAvail THEN {u \in Goals : st[u] = "Canceling"} ELSE {}

CancelSweep(st, cb) ==
  [u \in Goals |-> IF u \in Canceling(st) /\ ~cb[u] THEN "Executing" ELSE st[u]]

\* The responses a sweep sends, one per goal of the set S, in the order of
\* the list of used goal handles (any fixed order): a goal response with
\* goal_callback's verdict, a cancel response listing the goal as
\* canceling iff cancel_callback accepted.
GoalResponsesSent(S, acc) ==
  [k \in 1 .. Cardinality(S) |-> LET u == SetToSeq(S)[k] IN [goal |-> u, accepted |-> acc[u]]]

CancelResponsesSent(S, cb) ==
  [k \in 1 .. Cardinality(S) |->
     LET u == SetToSeq(S)[k] IN [goal |-> u, canceling |-> IF cb[u] THEN {u} ELSE {}]]

\* _rclc_execute for RCLC_ACTION_SERVER (invocation ON_NEW_DATA): the three
\* sweeps in the code's order when data is available after the take.
Execute ==
  /\ pc = "execute"
  /\ pc' = "wait"
  /\ IF DataAvailable
     THEN LET st1 == Cleanup(status) IN
          \E acc \in [Goals -> BOOLEAN], cb \in [Goals -> BOOLEAN] :
            LET st2 == GoalSweep(st1, acc) IN
            /\ status' = CancelSweep(st2, cb)
            /\ goalRespQ' = goalRespQ \o GoalResponsesSent(NewGoals(st1), acc)
            /\ cancelRespQ' = cancelRespQ \o CancelResponsesSent(Canceling(st2), cb)
            /\ goalEnded' = FALSE
            /\ goalAvail' = FALSE
            /\ cancelAvail' = FALSE
     ELSE UNCHANGED <<status, goalRespQ, cancelRespQ, goalEnded, goalAvail, cancelAvail>>
  /\ UNCHANGED <<requests, resultRespQ, feedbackQ, resultAvail, finished, fbSent>>

-----------------------------------------------------------------------------
(* The application, in callbacks of the same executor (so between two      *)
(* rounds of this handle).                                                  *)

\* rclc_action_send_result: an EXECUTING goal ends SUCCEEDED or ABORTED, a
\* CANCELING one also CANCELED; goal_ended is set and the result response
\* goes to the stored result request.  The application finishes each goal
\* once.
UserFinish(u) ==
  /\ pc = "wait"
  /\ u \notin finished
  /\ status[u] \in {"Executing", "Canceling"}
  /\ \E t \in IF status[u] = "Executing" THEN {"Succeeded", "Aborted"} ELSE Terminal :
       status' = [status EXCEPT ![u] = t]
  /\ goalEnded' = TRUE
  /\ finished' = finished \cup {u}
  /\ resultRespQ' = Append(resultRespQ, u)
  /\ UNCHANGED <<requests, goalRespQ, cancelRespQ, feedbackQ, goalAvail, resultAvail,
                 cancelAvail, pc, fbSent>>

\* rclc_action_publish_feedback for a goal being executed.
UserFeedback(u) ==
  /\ pc = "wait"
  /\ status[u] \in {"Executing", "Canceling"}
  /\ fbSent[u] < FeedbackPerGoal
  /\ fbSent' = [fbSent EXCEPT ![u] = @ + 1]
  /\ feedbackQ' = Append(feedbackQ, u)
  /\ UNCHANGED <<requests, goalRespQ, cancelRespQ, resultRespQ, status, goalAvail,
                 resultAvail, cancelAvail, goalEnded, pc, finished>>

\* rclc_executor_add_action_server: every flag false, no goal handle used;
\* nothing has been sent or received yet.
Init ==
  /\ goalQ = << >> /\ resultQ = << >> /\ cancelQ = << >>
  /\ goalRespQ = << >> /\ cancelRespQ = << >> /\ resultRespQ = << >> /\ feedbackQ = << >>
  /\ status = [u \in Goals |-> "None"]
  /\ goalAvail = FALSE /\ resultAvail = FALSE /\ cancelAvail = FALSE
  /\ goalEnded = FALSE
  /\ pc = "wait"
  /\ finished = {}
  /\ fbSent = [u \in Goals |-> 0]

Executor == Wait \/ Take \/ Execute

Application == \E u \in Goals : UserFinish(u) \/ UserFeedback(u)

-----------------------------------------------------------------------------
(* Properties *)

TypeOK ==
  /\ status \in [Goals -> Status]
  /\ Cardinality(Used) <= MaxGoals
  /\ pc \in {"wait", "take", "execute"}
  /\ {goalAvail, resultAvail, cancelAvail, goalEnded} \subseteq BOOLEAN
  /\ \A q \in {goalQ, resultQ, cancelQ, resultRespQ, feedbackQ} : q \in Seq(Goals)
  /\ goalRespQ \in Seq(GoalResponse) /\ cancelRespQ \in Seq(CancelResponse)

\* A goal that reached SUCCEEDED, CANCELED or ABORTED keeps that status
\* until the cleanup sweep releases its handle (spec 4.9: terminal states
\* have no outgoing transition; a result request moves only an ACCEPTED
\* goal to EXECUTING).
TerminalIsFinal ==
  [][\A u \in Goals : status[u] \in Terminal => status'[u] \in {status[u], "None"}]_vars

=============================================================================
