SPECIFICATION FairSpec
CONSTANTS
  Faults = {"late", "read", "send", "damage", "local", "refuse"}
  Cmds = {"CMD_HDD_DEL", "CMD_READY", "CMD_HDD_SIZE", "CMD_HDD_DIR"}
  N = 2
  MaxCalls = 3
  ReadsStatus = FALSE
  Program = "libpuppy"
INVARIANTS
  TypeOK
  OkMeansDone
  ListingFaithful
PROPERTIES
  CallReturns
CHECK_DEADLOCK FALSE
