SPECIFICATION FairSpec
CONSTANTS
  Faults = {"refuse", "local"}
  Blocks = 3
  Sizes = {1, 4, 495, 496, 497, 65518, 65519, 66013, 66014, 200000}
  Cmds = {"CANCEL", "CMD_HDD_RENAME", "CMD_HDD_DIR"}
  Entries = 2
  MaxCalls = 3
INVARIANTS
  HandleInStep
PROPERTIES
  WholeCopy
  WholePut
CHECK_DEADLOCK FALSE
