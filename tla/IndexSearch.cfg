SPECIFICATION Spec
CONSTANTS
  Docs = {d1, d2}
  Batches = 1
  MaxAttempts = 1
  MaxCrashes = 0
  MaxFaults = 0
INVARIANTS SearchNeverRaises
CHECK_DEADLOCK FALSE
