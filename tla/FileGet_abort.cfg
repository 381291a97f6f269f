SPECIFICATION FairSpec
CONSTANTS
  Faults = {"disk"}
  N = 2
  MaxCalls = 1
  Reuse = FALSE
  Program = "libpuppy"
  DataLike = "always"
INVARIANTS
  AbortedNeverSucceeds
CHECK_DEADLOCK FALSE
