CONSTANTS
  Dirs <- MCDirs
  Root = "root"
  Parent <- MCParent
  Trees = {"t", "u"}
  InitialDisks <- MCInitialDisks
  MaxOperations = 2
  MaxForeign = 0
  MaxEdits = 1
  IoMayFail = FALSE
  MaxBatch = 2
  QueueCapacity = 1
  PageBatches = 1
  Limit = 2
  Window = 1
  WritesMayFail = TRUE
  MaxStreams = 1
  MaxLines = 3
  MaxTicks = 1
  MaxRestarts = 1
  MaxUpkeep = 1
  MaxExports = 0
SPECIFICATION AllSpec
INVARIANTS
  DirectoryOpenRecovers
