SPECIFICATION FairSpec
CONSTANTS
  Faults = {"late", "read", "send", "local", "refuse"}
  N = 6
  MaxCalls = 4
  Reuse = FALSE
  Program = "libpuppy"
  DataLike = "always"
PROPERTIES
  FileCopySpec
CHECK_DEADLOCK FALSE
