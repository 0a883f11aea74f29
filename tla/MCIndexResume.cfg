CONSTANTS
  ForegroundBurstLimit = 3
  Roots = {r1}
  Paths <- TwoFiles
  Asked = {}
  ChunkSize = 1
  PageSize = 1
  MaxEvents = 2
CHECK_DEADLOCK FALSE
SPECIFICATION FairSpec
INVARIANTS
  PhasesThrough
  NeverDropped
  SavedBetweenTasks
PROPERTIES
  Converges
