CONSTANTS
  Period = 8
  MsTicks = 4
  Durations <- MC_Durations
  Oversleep <- MC_Oversleep
  StartTimes = {3}
  MayFail = TRUE
  MaxOverruns = 2
  MaxRounds = 6
SPECIFICATION Spec
INVARIANTS LatenessBoundedByOverruns
\* spin_period returns on a spin_some error, and the call count is bounded.
CHECK_DEADLOCK FALSE
