CONSTANTS
  Dirs <- MCDirs
  Root = "root"
  Parent <- MCParent
  Trees = {"t", "u"}
  InitialDisks <- MCInitialDisks
  MaxOperations = 2
  MaxForeign = 1
  MaxEdits = 1
  IoMayFail = TRUE
  MaxBatch = 2
  QueueCapacity = 1
  PageBatches = 1
  Limit = 2
  Window = 1
  WritesMayFail = TRUE
  MaxStreams = 1
  MaxLines = 3
  MaxTicks = 0
  MaxRestarts = 1
  MaxUpkeep = 1
  MaxExports = 0
SPECIFICATION AllSpec
INVARIANTS
  TreesKept
  ExportComplete
  EveryLineCounted
PROPERTY
  DirectoriesAtomic
