---------------------------- MODULE ActionSystem ----------------------------
(***************************************************************************)
(* An rclc action client and an rclc action server, each on its own        *)
(* executor, joined by the action's services and feedback topic: the       *)
(* client's request queues are the server's, the server's response queues  *)
(* are the client's.  The server here publishes no goal status, so the     *)
(* client's status subscription (statusQ) stays empty.  Each step is a     *)
(* step of one side and leaves the other side's variables alone.           *)
(***************************************************************************)
EXTENDS Naturals, FiniteSets, Sequences

CONSTANTS
  Goals,             \* goal UUIDs
  ServerHandles,     \* handles_number of the action server
  ClientHandles,     \* handles_number of the action client
  FeedbackPerGoal    \* feedback the server application publishes per goal

VARIABLES
  goalQ, resultQ, cancelQ, goalRespQ, cancelRespQ, resultRespQ, feedbackQ,
  \* the server
  status, goalAvail, resultAvail, cancelAvail, goalEnded, pc, finished, fbSent,
  \* the client
  feedbackAvail, statusAvail, goalRespAvail, cancelRespAvail, resultRespAvail,
  statusQ, gh, cpc, goalsSent, cancelsSent, goalCb, feedbackCb, cancelCb, resultCb

S == INSTANCE ActionServer WITH MaxGoals <- ServerHandles
C == INSTANCE ActionClient WITH MaxGoals <- ClientHandles, FeedbackCallback <- TRUE
Lifecycle == INSTANCE GoalLifecycle

channels == <<goalQ, resultQ, cancelQ, goalRespQ, cancelRespQ, resultRespQ, feedbackQ>>
server   == <<status, goalAvail, resultAvail, cancelAvail, goalEnded, pc, finished, fbSent>>
client   == <<statusQ, feedbackAvail, statusAvail, goalRespAvail, cancelRespAvail, resultRespAvail,
              gh, cpc, goalsSent, cancelsSent, goalCb, feedbackCb, cancelCb, resultCb>>
vars     == <<channels, server, client>>

Init == S!Init /\ C!ClientInit

ServerStep == (S!Executor \/ S!Application) /\ UNCHANGED client
ClientStep == (C!ClientExecutor \/ C!ClientApplication) /\ UNCHANGED server

Next == ServerStep \/ ClientStep

\* Both executors keep spinning; the server application finishes every
\* goal it executes (strong fairness: it runs only between rounds of its
\* executor, which may keep leaving the wait state).
Spec ==
  /\ Init /\ [][Next]_vars
  /\ WF_vars(S!Executor /\ UNCHANGED client)
  /\ WF_vars(C!ClientExecutor /\ UNCHANGED server)
  /\ \A u \in Goals : SF_vars(S!UserFinish(u) /\ UNCHANGED client)

-----------------------------------------------------------------------------
(* Properties *)

TypeOK == S!TypeOK /\ C!ClientTypeOK

\* The server never moves a goal out of a terminal status except by
\* releasing its handle.
TerminalIsFinal == S!TerminalIsFinal

\* The server's goal statuses implement the goal state machine of the
\* action design (GoalLifecycle): every step of the take and execute
\* sweeps, of a cancel and of the application moves each goal along a
\* legal transition, and each goal the server took is decided, executed,
\* finished and its handle released, under the fairness of both executors.
ImplementsGoalLifecycle == Lifecycle!Spec

\* Each goal request the client application sends is eventually resolved
\* for it: goal_callback has run and the client's goal handle is released
\* (rejected, or the result arrived), across both executors' take/execute
\* rounds and the server's full goal-handle pool.
EveryGoalResolved == \A u \in Goals : u \in goalsSent ~> (goalCb[u] > 0 /\ ~gh[u].used)

\* goal_callback, result_callback and cancel_callback run at most once per
\* goal (cancel_callback only for a goal whose cancel was requested).
CallbacksOnce == C!CallbacksOnce

\* With a server that publishes no status, the client's executor
\* eventually blocks in rcl_wait for good.
EventuallyIdle == C!EventuallyIdle

=============================================================================
