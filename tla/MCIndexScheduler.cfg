CONSTANTS
  ForegroundBurstLimit = 3
  Roots = {r1}
  Paths = {p1, p2}
  Asked = {"open-workspace", "refresh-workspace", "watcher", "foreground-navigation", "visible-files", "sdk-apply"}
  BatchSize = 2
  MaxGeneration = 5
  MaxAttempts = 2
  path = p3
SYMMETRY PathSymmetry
VIEW WithoutReturned
SPECIFICATION AllSpec
INVARIANTS
  AcceptedPathsCovered
  SlotsStayShort
  BackgroundGetsItsTurn
PROPERTIES
  SupersededByNewer
  NoSilentDrop
