SPECIFICATION LiveSpec
CONSTANTS
    NumTasks = 3
    Incremental = {2}
    ContinueOnError = {TRUE, FALSE}
    MaxStops = 3
    MaxRetries = 1
    Interrupts = TRUE
INVARIANTS TypeOK StatusTellsTruth NothingLost StopsAtFirstFailure
PROPERTIES OneStopLosesNothing BatchEnds
CHECK_DEADLOCK FALSE
