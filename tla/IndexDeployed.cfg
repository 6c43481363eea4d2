SPECIFICATION Spec
CONSTANTS
  Docs = {d1, d2, d3}
  Batches = 2
  MaxAttempts = 2
  MaxCrashes = 1
  MaxFaults = 1
SYMMETRY DocSymmetry
INVARIANTS TypeOK LockGuardsRewrites ReadyIsSearchable OnlyFailuresLeaveTornFile DeletionsAreClean CopiesAreCharged
CHECK_DEADLOCK FALSE
