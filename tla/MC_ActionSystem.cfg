\* Two goals, a server with one goal handle (the second goal request waits
\* in the service), a client with two, one feedback message per goal.
CONSTANTS
  g1 = g1
  g2 = g2
  Goals <- MC_Goals
  ServerHandles = 1
  ClientHandles = 2
  FeedbackPerGoal = 1
SPECIFICATION Spec
INVARIANT TypeOK CallbacksOnce
PROPERTY ImplementsGoalLifecycle EveryGoalResolved EventuallyIdle
CHECK_DEADLOCK FALSE
