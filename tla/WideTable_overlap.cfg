SPECIFICATION Spec
CONSTANTS
    Writers = {batch, inline}
    Versions = {v1, v2}
    LastMonth = 2
    MaxRuns = 3
PROPERTY SwapTakesOwnTable
CHECK_DEADLOCK FALSE
