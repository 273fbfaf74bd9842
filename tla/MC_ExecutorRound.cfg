\* Both schedulers: default scheduling with trigger any and spurious
\* subscription and service wake-ups, and LET with trigger always, an ALWAYS
\* subscription and spurious subscription wake-ups; the context may be shut down.
CONSTANTS
  t1 = t1  s1 = s1  s2 = s2  v1 = v1  c1 = c1  none = none
  Ents <- MC_Ents
  EntType <- MC_EntType
  NoPub = none
  Depth = 2
  Configs <- MC_Configs
  Budget = 3
  MayShutdown = TRUE
  MayCancel = TRUE
SPECIFICATION Spec
INVARIANT TypeOK NoLostTake NoStaleDelivery LetSnapshot SpinStopsOnlyOnShutdown
PROPERTY InputEventuallyTaken
\* spin returns once the context is shut down
CHECK_DEADLOCK FALSE
