SPECIFICATION Spec
CONSTANTS
  d1 = d1
  d2 = d2
  w1 = w1
  w2 = w2
  Docs = {d1}
  Workers = {w1}
  NoWorker = NoWorker
  NoDoc = NoDoc
  MaxJobs = 2
  MaxVersions = 1
  MaxAttempts = 2
  MaxBeats = 1
  Lease = 1
  Backoff = 1
  Batch = 1
INVARIANTS
  UnrecoveredIsRetryable
CHECK_DEADLOCK FALSE
