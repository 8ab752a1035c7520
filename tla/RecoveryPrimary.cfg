SPECIFICATION FairSpec
CONSTANTS
  n1 = n1
  n2 = n2
  n3 = n3
  w1 = w1
  w2 = w2
  Nodes = {n1, n2}
  Workers = {w1, w2}
  NoWorker = NoWorker
  Grace = 2
  Lease = 2
  Beat = 1
  Tries = 1
  MaxStarts = 3
  Busy = 2
INVARIANTS
  IInv
PROPERTIES
  ReclaimsAfterGrace
  LiveWorkerKeepsItsJob
  ReclaimedOrAlerted
CHECK_DEADLOCK FALSE
