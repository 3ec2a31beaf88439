SPECIFICATION Spec
CONSTANTS
    Codes = {a}
    LastDay = 3
    BatchSize = 2
    Lookback = 1
    MaxRuns = 3
PROPERTY ResumeSkipsOnlyWhole
CHECK_DEADLOCK FALSE
