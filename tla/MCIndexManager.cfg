CONSTANTS
  ForegroundBurstLimit = 3
  Roots = {r1}
  Paths = {p1}
  Asked = {"open-workspace", "watcher", "workspace-discovery", "sdk-apply"}
  BatchSize = 2
  Callers = {c1, c2}
  Maintained = {r1}
  JournalMayFail = TRUE
  MaxGeneration = 2
  MaxConsecutiveFailures = 2
  Chunks = 2
  alone = c3
SYMMETRY CallerSymmetry
VIEW WithoutRows
SPECIFICATION AllSpec
INVARIANTS
  FenceHolds
  NoTaskVanishes
  KeptSessionsOweNothing
  InFlightIsHeld
PROPERTIES
  OutdatedNotPublished
  NewestPublishedLast
