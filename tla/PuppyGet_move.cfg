SPECIFICATION PuppyFairSpec
CONSTANTS
  Faults = {"late", "read", "send", "disk", "local", "refuse"}
  N = 2
  MaxCalls = 4
  Reuse = TRUE
  Program = "libpuppy"
  DataLike = "always"
  f1 = f1
  f2 = f2
  Files = {f1, f2}
  Order <- MCOrder
  Options <- MCOptions
  Recording = {f1}
  Leftovers = {"absent", "lookalike"}
  MaxRuns = 2
INVARIANTS
  NothingLost
  FetchesStartClean
PROPERTIES
  RunEnds
  FileMoveSpec
CHECK_DEADLOCK FALSE
