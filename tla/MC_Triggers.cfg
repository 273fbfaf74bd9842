\* Tables of up to three of four handles, one of them an action client,
\* in every order and every readiness.
CONSTANTS
  s1 = s1  t1 = t1  g1 = g1  a1 = a1
  Ents <- MC_Ents
  EntType <- MC_EntType
  Size = 3
  TriggerObjs = {s1, t1, a1}
SPECIFICATION Spec
INVARIANT TriggerAnyAsDocumented TriggerAllAsDocumented
