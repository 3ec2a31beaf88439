SPECIFICATION Spec
CONSTANTS
  l1 = l1
  l2 = l2
  cfg = cfg
  req = req
  NoKey = NoKey
  Second <- DistinctSeconds
  MaxJobs = 2
  Lanes = {l1, l2}
  MaxParallel = 2
  BatchKeys = {cfg, NoKey}
  Requests = {req}
  Outcomes = {"success", "failed"}
  MaxCrashes = 0
  MaxRestarts = 0
  TornWrites = FALSE
  PidProbe = TRUE
  Polling = TRUE
INVARIANT TypeOK
INVARIANT ParentFollowsChildren
INVARIANT OneActiveJobPerConfig
INVARIANT NoLostWakeup
INVARIANT OneProcessPerLane
CHECK_DEADLOCK FALSE
