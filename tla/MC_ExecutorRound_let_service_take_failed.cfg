\* LET scheduling where a service's wait entry is set with no request to take.
CONSTANTS
  t1 = t1  s1 = s1  s2 = s2  v1 = v1  c1 = c1  none = none
  Ents <- MC_Ents
  EntType <- MC_EntType
  NoPub = none
  Depth = 2
  Configs <- MC_ConfigsLetSpuriousService
  Budget = 2
  MayShutdown = FALSE
  MayCancel = FALSE
SPECIFICATION Spec
INVARIANT NoLostTake
\* spin returns after the failed take
CHECK_DEADLOCK FALSE
