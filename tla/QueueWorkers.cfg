SPECIFICATION FairSpec
CONSTANTS
  JobCount = 2
  Workers = {w1, w2}
  MaxAttempts = 2
  RetryDelay = 1
  StaleTimeout = 1
  MaxCrashes = 1
  MaxDbFaults = 1
  PausesBounded = TRUE
INVARIANTS ReadyIsIndexed NoDoubleProcessing ErrorMeansFailedJob ProcessingHasJob
PROPERTIES ImplementsLifecycle EveryJobSettles
