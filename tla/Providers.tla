-------------------------------- MODULE Providers -------------------------------
(* The registry of providers: a plan or a task names its provider, and that provider's runner
   does all the work of the process. The six runners share nothing but the shape of their work,
   so an instance has one of them, over its own tables. *)
EXTENDS Integers, FiniteSets

CONSTANTS
    None,                                                        \* what a variable out of use holds
    Codes, Symbols, LastDay, BatchSize, MaxRuns,                 \* of several runners
    Specs, WindowDays, CodeBatch, RowLimit, Budget, Retries,     \* Tushare
    Current, LastUnit, BaoStockKinds,                            \* BaoStock
    ItemSets, QmtKinds, QmtRuns,                                 \* QMT
    AKShareKinds, CircuitAt,                                     \* AKShare
    YFinanceKinds, EventDays,                                    \* yfinance
    Lookback                                                     \* AmazingData

ASSUME ProviderAssumption ==
    /\ IsFiniteSet(Codes) /\ IsFiniteSet(Symbols)
    /\ LastDay \in Nat \ {0} /\ LastUnit \in Nat \ {0} /\ BatchSize \in Nat \ {0}
    /\ Lookback \in Nat
    /\ \A s \in Specs : IsFiniteSet(s.variants)
    /\ WindowDays \in Nat /\ CodeBatch \in Nat \ {0} /\ RowLimit \in Nat
    /\ Current \subseteq Codes
    /\ BaoStockKinds \subseteq {"range", "day", "period"}
    /\ \A items \in ItemSets : IsFiniteSet(items)
    /\ QmtKinds \subseteq {"calendar", "history", "snapshot"}
    /\ AKShareKinds \subseteq {"us_daily", "concept_daily", "index", "us_plain", "concept_plain"}
    /\ YFinanceKinds \subseteq {"daily_kline", "corporate_actions", "group_daily", "fundamental"}

VARIABLES
    provider,
    today, table, log, run, runs,                         \* of all runners
    kind, leftOut, copy, cursor, layout,                  \* of several
    spec, local, cache, stops,                            \* Tushare, BaoStock
    task, hidden,                                         \* QMT
    outdated, directory,                                  \* AKShare
    closed, master, early,                                \* yfinance
    stale                                                 \* AmazingData

vars == <<provider, today, table, log, run, runs, kind, leftOut, copy, cursor, layout, spec, local,
          cache, stops, task, hidden, outdated, directory, closed, master, early, stale>>

Tushare == INSTANCE TushareSync
BaoStock == INSTANCE BaoStockSync WITH Kinds <- BaoStockKinds
Qmt == INSTANCE QmtSync WITH Kinds <- QmtKinds, MaxRuns <- QmtRuns
AKShare == INSTANCE AKShareSync WITH Kinds <- AKShareKinds
YFinance == INSTANCE YFinanceSync WITH Kinds <- YFinanceKinds
AmazingData == INSTANCE AmazingDataSync

Unused(x) == x = None

Init ==
    \/ /\ provider = "tushare" /\ Tushare!Init
       /\ Unused(log) /\ Unused(kind) /\ Unused(leftOut) /\ Unused(copy) /\ Unused(cursor)
       /\ Unused(layout) /\ Unused(task) /\ Unused(hidden) /\ Unused(outdated) /\ Unused(directory)
       /\ Unused(closed) /\ Unused(master) /\ Unused(early) /\ Unused(stale)
    \/ /\ provider = "baostock" /\ BaoStock!Init
       /\ Unused(leftOut) /\ Unused(copy) /\ Unused(cursor) /\ Unused(layout) /\ Unused(spec)
       /\ Unused(local) /\ Unused(cache) /\ Unused(task) /\ Unused(hidden) /\ Unused(outdated)
       /\ Unused(directory) /\ Unused(closed) /\ Unused(master) /\ Unused(early) /\ Unused(stale)
    \/ /\ provider = "qmt" /\ Qmt!Init
       /\ Unused(kind) /\ Unused(leftOut) /\ Unused(copy) /\ Unused(cursor) /\ Unused(spec)
       /\ Unused(local) /\ Unused(cache) /\ Unused(stops) /\ Unused(outdated) /\ Unused(directory)
       /\ Unused(closed) /\ Unused(master) /\ Unused(early) /\ Unused(stale)
    \/ /\ provider = "akshare" /\ AKShare!Init
       /\ Unused(layout) /\ Unused(spec) /\ Unused(local) /\ Unused(cache) /\ Unused(stops)
       /\ Unused(task) /\ Unused(hidden) /\ Unused(closed) /\ Unused(master) /\ Unused(early)
       /\ Unused(stale)
    \/ /\ provider = "yfinance" /\ YFinance!Init
       /\ Unused(spec) /\ Unused(local) /\ Unused(cache) /\ Unused(stops) /\ Unused(task)
       /\ Unused(hidden) /\ Unused(outdated) /\ Unused(directory) /\ Unused(stale)
    \/ /\ provider = "amazingdata" /\ AmazingData!Init
       /\ Unused(copy) /\ Unused(cursor) /\ Unused(layout) /\ Unused(spec) /\ Unused(local)
       /\ Unused(cache) /\ Unused(stops) /\ Unused(task) /\ Unused(hidden) /\ Unused(outdated)
       /\ Unused(directory) /\ Unused(closed) /\ Unused(master) /\ Unused(early)

Next ==
    \/ /\ provider = "tushare" /\ Tushare!Next
       /\ UNCHANGED <<provider, log, kind, leftOut, copy, cursor, layout, task, hidden, outdated,
                      directory, closed, master, early, stale>>
    \/ /\ provider = "baostock" /\ BaoStock!Next
       /\ UNCHANGED <<provider, leftOut, copy, cursor, layout, spec, local, cache, task, hidden,
                      outdated, directory, closed, master, early, stale>>
    \/ /\ provider = "qmt" /\ Qmt!Next
       /\ UNCHANGED <<provider, kind, leftOut, copy, cursor, spec, local, cache, stops, outdated,
                      directory, closed, master, early, stale>>
    \/ /\ provider = "akshare" /\ AKShare!Next
       /\ UNCHANGED <<provider, layout, spec, local, cache, stops, task, hidden, closed, master,
                      early, stale>>
    \/ /\ provider = "yfinance" /\ YFinance!Next
       /\ UNCHANGED <<provider, spec, local, cache, stops, task, hidden, outdated, directory, stale>>
    \/ /\ provider = "amazingdata" /\ AmazingData!Next
       /\ UNCHANGED <<provider, copy, cursor, layout, spec, local, cache, stops, task, hidden,
                      outdated, directory, closed, master, early>>

Spec == Init /\ [][Next]_vars

--------------------------------------------------------------------------------
(* What every provider promises. *)

\* Wherever a run was stopped, nothing is missing behind the position from which the next one
\* goes on (each provider's load_latest_cursor, or what stands for it).
NothingLostBehindCursor ==
    /\ provider = "tushare" => Tushare!ResumeLosesNothing
    /\ provider = "baostock" => BaoStock!RangeHasNoHole
    /\ provider = "qmt" => Qmt!CalendarHasNoHole
    /\ provider = "akshare" => AKShare!CursorLosesNothing
    /\ provider = "yfinance" => YFinance!CursorLosesNothing
    /\ provider = "amazingdata" => AmazingData!CursorLosesNothing

\* A success in the log of a provider that skips by it means that the rows are in the table
\* (has_successful_sync, has_successful_sync_today of BaoStock and QMT).
LogTellsTruth ==
    /\ provider = "baostock" => BaoStock!LogTellsTruth
    /\ provider = "qmt" => Qmt!LogTellsTruth

\* No row of a session still open is saved (latest_completed_us_session_date of yfinance).
OnlyCompletedSessions == provider = "yfinance" => YFinance!OnlyCompletedSessions

\* A success is logged only of a task, or a code, whose window is saved (run_sync_args,
\* _run_sync_job of the providers that report success as a whole).
SuccessIsComplete ==
    [][/\ provider = "tushare" => Tushare!SuccessIsComplete
       /\ provider = "akshare" => AKShare!SuccessIsComplete
       /\ provider = "yfinance" => YFinance!SuccessMeansHistory
       /\ provider = "amazingdata" => AmazingData!SuccessIsComplete]_vars

\* What is skipped because the table already has rows of it is whole (BaoStock's days,
\* AmazingData's factors).
SkippedIsWhole ==
    [][/\ provider = "baostock" => BaoStock!DaySkippedIsWhole
       /\ provider = "amazingdata" => AmazingData!SkippedFactorIsWhole]_vars

\* The cached universe of Tushare follows its source (_sync_universe_source).
ListedCodesAreComplete == [][provider = "tushare" => Tushare!ListedCodesAreComplete]_vars
================================================================================
