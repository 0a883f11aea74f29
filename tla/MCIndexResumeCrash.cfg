CONSTANTS
  ForegroundBurstLimit = 3
  Roots = {r1}
  Paths <- TwoFiles
  Asked = {}
  ChunkSize = 2
  PageSize = 1
  MaxEvents = 1
CHECK_DEADLOCK FALSE
SPECIFICATION ResumeSpec
INVARIANT Resumable
