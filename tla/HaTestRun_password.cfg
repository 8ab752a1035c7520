SPECIFICATION Spec
CONSTANTS
  r1 = r1
  r2 = r2
  r3 = r3
  Runs = {r1}
  NoRun = NoRun
  Tests = {"H-1"}
  Nodes = {"db1", "db2", "db3"}
  Primary = "db1"
  VipOwner = "db2"
  Standby = "db3"
  H6Node = "db3"
INVARIANTS
  PasswordFileKnown
CHECK_DEADLOCK FALSE
