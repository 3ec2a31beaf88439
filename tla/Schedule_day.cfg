SPECIFICATION Spec
CONSTANTS
    Configs = {c1, c2}
    Threads = {t1, t2}
    Day = 2
    MaxTime = 3
    MaxJobs = 2
    MaxCalls = 2
    MaxCrashes = 1
INVARIANTS TypeOK SlotFiredOnce SwitchOffHolds NextRunFollowsSettings
CHECK_DEADLOCK FALSE
SYMMETRY Symmetry
