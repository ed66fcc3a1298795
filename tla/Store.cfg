SPECIFICATION Spec
CONSTANTS
  Procs = {p1, p2, p3}
  InitHeight = 2
  MaxHeight = 6
  Ops = {"ExecuteTransaction", "DeployContract", "ExecuteScript", "DeleteProject"}
  Faults = {"load", "write", "script"}
CHECK_DEADLOCK FALSE
INVARIANTS
  ListedInOrder
  StoreInv
