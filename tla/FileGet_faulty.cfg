SPECIFICATION FairSpec
CONSTANTS
  Faults = {"late", "read", "send", "damage", "disk", "local", "refuse"}
  N = 3
  MaxCalls = 3
  Reuse = TRUE
  Program = "libpuppy"
  DataLike = "inStep"
INVARIANTS
  TypeOK
  Lockstep
  SuccessfulCopy
  SizeCheckSuffices
  AbortDetectable
  SuccessLeavesQuiet
  TimestampKept
PROPERTIES
  CallReturns
CHECK_DEADLOCK FALSE
