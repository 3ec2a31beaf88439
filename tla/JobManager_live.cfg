SPECIFICATION LiveSpec
CONSTANTS
  l1 = l1
  l2 = l2
  cfg = cfg
  req = req
  NoKey = NoKey
  Second <- DistinctSeconds
  MaxJobs = 2
  Lanes = {l1}
  MaxParallel = 2
  BatchKeys = {NoKey}
  Requests = {}
  Outcomes = {"success"}
  MaxCrashes = 1
  MaxRestarts = 1
  TornWrites = FALSE
  PidProbe = TRUE
  Polling = FALSE
PROPERTY EveryJobEnds
PROPERTY EveryParentEnds
CHECK_DEADLOCK FALSE
