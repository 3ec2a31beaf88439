SPECIFICATION Spec
CONSTANTS
    Codes = {a}
    Current = {a}
    LastUnit = 4
    Kinds = {"period"}
    MaxRuns = 1
PROPERTY PeriodsAreCaughtUp
CHECK_DEADLOCK FALSE
