SPECIFICATION PairedSpec
CONSTANTS
  r1 = r1
  r2 = r2
  r3 = r3
  Runs = {r1, r2}
  NoRun = NoRun
  Tests = {"H-1", "H-3", "H-4", "H-5", "H-6"}
  Nodes = {"db1", "db2", "db3"}
  Primary = "db1"
  VipOwner = "db2"
  Standby = "db3"
  H6Node = "db3"
SYMMETRY Symmetry
INVARIANTS
  IInv
  Exclusive
  NoSilentFault
CHECK_DEADLOCK FALSE
