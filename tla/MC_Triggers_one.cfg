\* trigger_one with a subscription or timer as trigger object, over tables
\* that may also contain an action client.
\* in every order and every readiness.
CONSTANTS
  s1 = s1  t1 = t1  g1 = g1  a1 = a1
  Ents <- MC_Ents
  EntType <- MC_EntType
  Size = 3
  TriggerObjs = {s1, t1}
SPECIFICATION Spec
INVARIANT TriggerOneAsDocumented
