\* Two goal handles on each side: both goals are accepted, the client
\* sends both result requests, and the server takes one per round.
CONSTANTS
  g1 = g1
  g2 = g2
  Goals <- MC_Goals
  ServerHandles = 2
  ClientHandles = 2
  FeedbackPerGoal = 1
SPECIFICATION Spec
PROPERTY TerminalIsFinal
CHECK_DEADLOCK FALSE
