SPECIFICATION LiveSpec
CONSTANTS
    Configs = {c1, c2}
    Threads = {t1}
    Day = 2
    MaxTime = 3
    MaxJobs = 2
    MaxCalls = 1
    MaxCrashes = 1
PROPERTY NeverStuck
CHECK_DEADLOCK FALSE
