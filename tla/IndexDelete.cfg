SPECIFICATION Spec
CONSTANTS
  Docs = {d1}
  Batches = 1
  MaxAttempts = 1
  MaxCrashes = 0
  MaxFaults = 0
INVARIANTS DeletedIsGone
CHECK_DEADLOCK FALSE
