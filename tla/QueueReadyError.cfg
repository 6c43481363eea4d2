SPECIFICATION Spec
CONSTANTS
  JobCount = 1
  Workers = {w1}
  MaxAttempts = 2
  RetryDelay = 1
  StaleTimeout = 1
  MaxCrashes = 1
  MaxDbFaults = 0
  PausesBounded = TRUE
PROPERTIES ReadyIsNotMarkedError
