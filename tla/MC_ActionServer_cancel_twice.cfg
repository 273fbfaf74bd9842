\* Two goal handles, so one goal can be CANCELING while a cancel request
\* for the other arrives.
CONSTANTS
  u1 = u1
  u2 = u2
  Goals <- MC_Goals
  MaxGoals = 2
  ResultRequests = 1
  CancelRequests = 1
  FeedbackPerGoal = 0
SPECIFICATION PeerSpec
INVARIANT CancelAnsweredOnce
