SPECIFICATION FairSpec
CONSTANTS
  RunCount = 2
  Processes = {p1, p2}
  StaleTimeout = 1
  MaxCrashes = 1
  MaxDbFaults = 1
  Duplicates = TRUE
INVARIANTS EvalInv AtMostOneActive EvaluatedOnce OneEvaluationAtWork
PROPERTIES FailedIsFinal LostRunsAreReplaced
CHECK_DEADLOCK FALSE
