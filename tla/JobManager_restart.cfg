SPECIFICATION Spec
CONSTANTS
  l1 = l1
  l2 = l2
  cfg = cfg
  req = req
  NoKey = NoKey
  Second <- DistinctSeconds
  MaxJobs = 3
  Lanes = {l1}
  MaxParallel = 2
  BatchKeys = {NoKey}
  Requests = {}
  Outcomes = {"success"}
  MaxCrashes = 0
  MaxRestarts = 2
  TornWrites = FALSE
  PidProbe = TRUE
  Polling = FALSE
INVARIANT LaneExclusive
INVARIANT OneProcessPerJob
PROPERTY LaneFIFO
PROPERTY CancelIsFinal
CHECK_DEADLOCK FALSE
