SPECIFICATION FairSpec
CONSTANTS
  Streams = {s1, s2}
  LoopCallers = {c1}
  ThreadCallers = {}
  WarmupThreads = {}
  ExecutorThreads = 1
  MaxTokens = 1
INVARIANTS TypeOK OneModelLoaded AnswersAreComplete
PROPERTIES EveryStreamEnds EveryCallReturns
CHECK_DEADLOCK FALSE
