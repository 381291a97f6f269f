SPECIFICATION Spec
CONSTANTS
  a = a
  b = b
  c = c
  Procs = {a, b, c}
  Lib = {a}
  Scanners = {c}
  Failures = {}
INVARIANTS
  ScanAlone
CHECK_DEADLOCK FALSE
