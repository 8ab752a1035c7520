SPECIFICATION Spec
CONSTANTS
  d1 = d1
  d2 = d2
  w1 = w1
  w2 = w2
  Docs = {d1}
  Workers = {w1, w2}
  NoWorker = NoWorker
  NoDoc = NoDoc
  MaxJobs = 3
  MaxVersions = 2
  MaxAttempts = 2
  MaxBeats = 1
  Lease = 1
  Backoff = 1
  Batch = 1
SYMMETRY Symmetry
INVARIANTS
  IInv
  InOrder
  SingleWriter
  OneActiveJobPerVersion
  SearchableIsServable
  NoChunksAfterDelete
PROPERTIES
  ImplementsOrderedJobs
  ReclaimsOnlyExpired
  LiveTokenStands
CHECK_DEADLOCK FALSE
