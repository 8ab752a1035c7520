SPECIFICATION TestsSpec
CONSTANTS
  r1 = r1
  Runs = {r1}
  NoRun = NoRun
  Tests = {"H-1", "H-2", "H-3", "H-4", "H-5", "H-6"}
  Nodes = {"db1", "db2", "db3"}
  Primary = "db1"
  VipOwner = "db2"
  Standby = "db3"
  H6Node = "db3"
  MaxRounds = 3
  MaxExpiries = 2
  MaxTime = 6
  MaxHealthy = 3
  AttemptTimeout = 1
  FollowLimit = 4
  Members = {"db1", "db2", "db3"}
  BasePrimary = "db1"
  Scripts <- MCScripts
  Configs <- MCConfigs
INVARIANTS
  SessionsAreFresh
  LeftoverKnown
  LossIsReal
  StopCoversOutage
  ScriptDecides
PROPERTIES
  EveryRunEnds
CHECK_DEADLOCK FALSE
