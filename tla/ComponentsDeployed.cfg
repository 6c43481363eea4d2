SPECIFICATION Spec
CONSTANTS
  Callers <- MCCallers
  CallerTenant <- MCCallerTenant
  CallerId <- MCCallerId
  CallerAdmins = {"boss"}
  Sessions = {"s1", "s2"}
  Streams = {"r1", "r2"}
  HistoryLimit = 4
  Threshold = 3
  KeepRecent = 2
  MaxTurns = 2
  MaxQuestions = 4
  Buckets = {"b1", "b2"}
  Limit = 2
  Window = 2
  MaxTime = 5
  Handles = {"h1", "h2", "h3"}
  Conns = {"c1", "c2", "c3"}
  MinConn = 1
  MaxConn = 2
  Chunks = {"a1", "a2", "b1"}
  DocOf <- MCDocOf
  TokensOf <- MCTokensOf
  RrfK = 60
  Unit = 113460
  TopK = 3
  RerankCandidates = 3
  Logits <- MCLogits
  Confident <- MCConfident
  FinalKs = {1, 2}
  MaxChars = 8
  OverlapChars = 4
  Overlaps = {0, 4, 8, 9}
  MinChars = 3
  Sizes = {1, 3, 5, 9}
  MaxUnits = 5
  Names = {"f", "g", ""}
  MaxContext = 3
  MaxPairs = 4
  Similarities <- MCSimilarities
  Grain = 2
  Enough = 4
  MaxSources = 2
  Files = {"f", "g", "h"}
  MaxRanks = 4
  Whole = 72
  Gain <- MCGain
INVARIANTS
  TextStaysWithItsOwner WindowsHoldWholeExchanges
  RateLimitIsFair ConnectionsAreAccounted
  RetrievalIsSound ChunksAreFaithful CitationsAreFaithful ScoresAreHonest
CHECK_DEADLOCK FALSE
