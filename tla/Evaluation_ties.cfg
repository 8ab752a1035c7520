SPECIFICATION Spec
CONSTANTS
  Excerpts = {1}
  DocOf <- HalfOf
  Threads = 1
  Count = 1
  MaxPerDoc = 1
  MaxRetries = 1
  NoFile = NoFile
  Questions = 2
  Chunks = {11, 12, 13}
  Views <- FewViews
  RRF_K = 60
  Unit = 238266
  TopK = 1
  CandidatePool = 2
  Limit = 2
  Window = 3
  ServiceLimit = 3
  ServiceWindow = 3
  CacheSize = 4
  MaxLatency = 1
  Letters = {1, 2}
  MaxText = 2
  MaxSample = 2
  Searches = {s1}
  NoSearch = NoSearch
  REFRESH_INTERVAL = 2
  MaxChunks = 0
  MaxScans = 0
  MaxTime = 0
INVARIANT
  TiesAreFlagged
CHECK_DEADLOCK FALSE
