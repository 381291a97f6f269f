SPECIFICATION FairSpec
CONSTANTS
  a = a
  b = b
  c = c
  Procs = {a, b, c}
  Lib = {a}
  Scanners = {b, c}
  Failures = {"lockfile", "opendev", "descriptor", "foreign", "reset", "claim", "setif", "crash"}
INVARIANTS
  TypeOK
  ResetSafe
  UseOwned
  ScanExcludesSharers
  NotAllRefused
PROPERTIES
  NeverWaits
CHECK_DEADLOCK FALSE
