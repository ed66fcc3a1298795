SPECIFICATION Spec
CONSTANTS
  Replicas = {r1, r2}
  Procs = {p1, p2}
  Home <- TwoHomes
  FlowKits = {k1, k2, k3, k4, k5}
  NoKit = NoKit
  Txs = {t1, t2}
  Deploys = {d1, d3}
  NoScript = NoScript
  Unrecorded = Unrecorded
  Contract <- Contracts
  NoContract = NoContract
  CoreContracts = {}
  InitHeight = 5
  Ops = {"ExecuteTransaction", "ExecuteScript", "GetAccounts", "DeployContract", "CreateAccount"}
  Faults = {"evict", "crash"}
  Serial = TRUE
  p1 = p1  p2 = p2  p3 = p3
  r1 = r1  r2 = r2
  t1 = t1  t2 = t2  t3 = t3
  d1 = d1  d2 = d2  d3 = d3
  c1 = c1  c2 = c2
INVARIANT
  ServesLog
PROPERTY
  NoHistoryLost
