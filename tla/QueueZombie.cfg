SPECIFICATION Spec
CONSTANTS
  JobCount = 2
  Workers = {w1, w2}
  MaxAttempts = 2
  RetryDelay = 1
  StaleTimeout = 1
  MaxCrashes = 1
  MaxDbFaults = 1
  PausesBounded = FALSE
SYMMETRY WorkerSymmetry
INVARIANTS PendingJobsHaveAttemptsLeft IndexWritesAreCharged AttemptsAreExclusive QueueInv
