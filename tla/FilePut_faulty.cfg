SPECIFICATION FairSpec
CONSTANTS
  Faults = {"late", "read", "send", "damage", "disk", "local", "refuse"}
  FileSizes = {1, 4090, 66013, 66014}
  LaterSizes = {0, 496, 65518, 66614}
  ShortReads = {33264}
  MaxCalls = 2
  Reuse = TRUE
INVARIANTS
  TypeOK
  PacketsAvoid512
  Lockstep
  PutComplete
PROPERTIES
  CallReturns
CHECK_DEADLOCK FALSE
