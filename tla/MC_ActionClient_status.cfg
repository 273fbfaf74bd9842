\* A server that publishes goal status: the client's executor never blocks
\* again, since the status message counts as data and is never taken.
CONSTANTS
  g1 = g1
  g2 = g2
  Goals <- MC_Goals
  MaxGoals = 2
  FeedbackCallback = TRUE
  FeedbackPerGoal = 1
  PublishesStatus = TRUE
SPECIFICATION PeerSpec
PROPERTY EventuallyIdle
CHECK_DEADLOCK FALSE
