\* Default scheduling where a client's wait entry is set with no response to take.
CONSTANTS
  t1 = t1  s1 = s1  s2 = s2  v1 = v1  c1 = c1  none = none
  Ents <- MC_Ents
  EntType <- MC_EntType
  NoPub = none
  Depth = 2
  Configs <- MC_ConfigsDefaultSpuriousClient
  Budget = 2
  MayShutdown = FALSE
  MayCancel = FALSE
SPECIFICATION Spec
INVARIANT SpinStopsOnlyOnShutdown
\* spin returns after the failed take
CHECK_DEADLOCK FALSE
