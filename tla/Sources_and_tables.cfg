SPECIFICATION Spec
CONSTANTS
    a = a
    b = b
    None = None
    MaxCalls = 2
    Writer = a
    Versions = {v1, v2}
    LastMonth = 3
    MaxRuns = 5
    Viewers = {a, b}
    MaxDate = 2
    MaxChanges = 2
    MaxAttempts = 2
    Addresses <- TwoOfThem
    Retries = 1
    PageSize = 2
    MaxPages = 3
    MaxItems = 3
    Etfs <- TwoOfThem
    Datasets <- TwoOfThem
    Symbols <- TwoOfThem
    RateLimitRetries = 1
    NetworkRetries = 1
    MaxTasks = 2
    MaxLogins = 4
    Listed <- ThreeDays
    NewName <- OneRenamed
INVARIANT SuccessIsPublished RebuildKeepsTable SwapIsNeverBlocked AnswersAreTrue CheckedIsCurrent
PROPERTY ChangeArrivesBySwap
CHECK_DEADLOCK FALSE
