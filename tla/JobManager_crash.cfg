SPECIFICATION Spec
CONSTANTS
  l1 = l1
  l2 = l2
  cfg = cfg
  req = req
  NoKey = NoKey
  Second <- SharedSecond
  MaxJobs = 2
  Lanes = {l1, l2}
  MaxParallel = 1
  BatchKeys = {NoKey}
  Requests = {}
  Outcomes = {"success"}
  MaxCrashes = 1
  MaxRestarts = 0
  TornWrites = TRUE
  PidProbe = TRUE
  Polling = FALSE
INVARIANT SlotInvariant
INVARIANT WithinLimit
INVARIANT QueueExact
INVARIANT DurableWhenIdle
PROPERTY OutcomeIsFinal
PROPERTY RecordsImplementLanes
CHECK_DEADLOCK FALSE
SYMMETRY LaneSymmetry
