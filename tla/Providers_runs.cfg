SPECIFICATION Spec
CONSTANTS
    None = None
    v = v
    w = w
    Codes = {a, b}
    Symbols = {a, b}
    LastDay = 2
    BatchSize = 2
    MaxRuns = 2
    Specs <- TushareSpecs
    WindowDays = 1
    CodeBatch = 2
    RowLimit = 3
    Budget = 3
    Retries = 1
    Current = {a}
    LastUnit = 3
    BaoStockKinds = {"range", "day", "period"}
    ItemSets = {{a}, {a, b}}
    QmtKinds = {"calendar", "history", "snapshot"}
    QmtRuns = 3
    AKShareKinds = {"us_daily", "index", "concept_plain"}
    CircuitAt = 2
    YFinanceKinds = {"daily_kline", "corporate_actions", "group_daily", "fundamental"}
    EventDays = {2}
    Lookback = 1
INVARIANT NothingLostBehindCursor LogTellsTruth OnlyCompletedSessions
PROPERTY SuccessIsComplete SkippedIsWhole ListedCodesAreComplete
CHECK_DEADLOCK FALSE
