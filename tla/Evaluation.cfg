SPECIFICATION FairSpec
CONSTANTS
  Excerpts = {1, 2, 3, 4}
  DocOf <- HalfOf
  Threads = 2
  Count = 2
  MaxPerDoc = 1
  MaxRetries = 2
  NoFile = NoFile
  Questions = 4
  Chunks = {11, 12, 13}
  Views <- FewViews
  RRF_K = 60
  Unit = 238266
  TopK = 1
  CandidatePool = 2
  Limit = 2
  Window = 3
  ServiceLimit = 3
  ServiceWindow = 3
  CacheSize = 4
  MaxLatency = 1
  Letters = {1, 2}
  MaxText = 4
  MaxSample = 6
  Searches = {s1, s2}
  NoSearch = NoSearch
  REFRESH_INTERVAL = 2
  MaxChunks = 1
  MaxScans = 3
  MaxTime = 4
INVARIANTS
  WindowRespected
  NeverThrottled
  FailOpenIsFlagged
  WarmedPairsAreFair
  KeepsFirstAccepted
  StatsNeverGoBack
  ScansAreSpaced
  SharedNgramIsLongest
  SignTestIsExact
PROPERTIES
  BuildEnds
CHECK_DEADLOCK FALSE
