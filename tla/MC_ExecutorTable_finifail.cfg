CONSTANTS
  s1 = s1
  s2 = s2
  t1 = t1
  c1 = c1
  c2 = c2
  v1 = v1
  v2 = v2
  v3 = v3
  g1 = g1
  ac1 = ac1
  as1 = as1
  Ents <- MC_Ents
  EntType <- MC_EntType
  ActionEntities <- MC_ActionEntities
  MaxHandles = 3
  MwMayFail = TRUE
SPECIFICATION Spec
INVARIANT CountersMatchTable
