SPECIFICATION FairSpec
CONSTANTS
  d1 = d1
  d2 = d2
  w1 = w1
  w2 = w2
  Docs = {d1, d2}
  Workers = {w1}
  NoWorker = NoWorker
  NoDoc = NoDoc
  MaxJobs = 2
  MaxVersions = 2
  MaxAttempts = 2
  MaxBeats = 0
  Lease = 1
  Backoff = 1
  Batch = 2
PROPERTIES
  JobsFinish
CHECK_DEADLOCK FALSE
