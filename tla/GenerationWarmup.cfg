SPECIFICATION Spec
CONSTANTS
  Streams = {}
  LoopCallers = {}
  ThreadCallers = {c1}
  WarmupThreads = {warmup}
  ExecutorThreads = 1
  MaxTokens = 1
INVARIANTS ModelCallsAreSerialized
CHECK_DEADLOCK FALSE
