CONSTANTS
  ForegroundBurstLimit = 3
  Starters = {s1, s2}
  Drainers = {d1}
  Workers = {w1, w2}
  SpawnMayFail = TRUE
SPECIFICATION FairSpec
INVARIANTS
  OneOwner
PROPERTIES
  WorkIsDone
