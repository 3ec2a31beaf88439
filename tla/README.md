# AlphaBlocksSyncData: a verification project

AlphaBlocksSyncData downloads market data from six providers (AmazingData, BaoStock,
Tushare, AKShare, QMT, yfinance) into ClickHouse. A FastAPI service accepts requests, keeps
sync configs and their schedules, and runs the work in child processes. Wide tables are
derived tables built from the synced ones.

The TLA+ modules here model both halves: the service, and what it promises of the work it has
accepted when requests overlap, processes die and it is restarted; and the work itself, each
provider's runner, and what its cursors, success logs and skips say of the rows it has saved when
requests fail, processes are killed and days go by. TLC checks the modules on small instances;
TLAPS proves nearly all of the
safety properties that the runs check, for every value of the constants.

How to run: `tlc -workers 2 -config Providers_runs.cfg MCProviders.tla` (section 4 names the module
and the configuration of each run), `tlapm ScheduleManagerProofs.tla` and likewise for the other seven proof
modules.

## 1. The system

| component | state | operations | talks to |
|---|---|---|---|
| Job manager, `service/job_manager.py` | records of parent and child jobs, a queue, `Popen` objects, restart set; all but the last two in files under `.service_state/` | submit, retry, cancel, dispatch, finish, refresh by readers, prepare for restart, load, watch orphans | starts child processes; called by the API and the scheduler |
| Task batch runner, `service/task_batch.py` | the results of one batch in memory and in a results file | run the tasks in order, skip on resumption, record, end | is a child process; the job manager reads its exit code and its file |
| Schedule manager, `service/schedule_manager.py` | a poller thread; the schedules live in the configs | poll, switch on and off, edit, stop | reads and writes configs, creates and cancels jobs |
| Sync config manager, `service/sync_config_manager.py` | configs in memory and in files, one lock | create, update, delete, update a schedule, note a started job | called by the API and the scheduler |
| HTTP API, `service/api.py` | none of its own | one handler per request, several of them combine managers | everything above |
| Table check state and watermark, `service/table_check_state.py`, `service/table_watermark.py` | a file per table, a table of cached dates | record an outcome, cache a newest date under the signature of the parts | written by batches and by the API |
| Wide tables, `wide_table_sync.py` | a state row and staging tables in ClickHouse | plan, build, swap | run by a batch or by the API |
| Provider runners, `providers/*/runner.py` with `specs.py`, `repository.py` | cursors, logs of successes, business tables | plan, skip, fetch, save, log, resume, migrate | run by a batch; each calls its provider object |
| Provider objects, `providers/*/provider.py`, `base.py` | sessions, caches, what earlier calls have taught | fetch with several ways, retries and repairs; list codes | remote services |
| Incremental cursors, `sync_core/`, `core/incremental.py` | none | compute the range still to fetch | used by runners |
| Registries, plans, configuration, table definitions | built once | look up | everywhere |

What is hard in it:

- **Concurrency.** Request threads, a watcher thread per child, polling readers and the schedule poller share
  the managers. Each method holds a lock, but handlers and the poller combine several methods and
  work on copies in between. Wide tables and check files are shared by processes.
- **Files behind memory.** A method that changes memory writes several files, one after the
  other. The service can die between any two of them, or inside one that is not atomic.
- **Processes outlive the service.** The next incarnation has a child's pid, not its `Popen` object.
- **Progress that is inferred.** Most runners keep no account of what they have done. They read it from the
  tables (the newest saved date, the presence of a row) or from a log of successes, and both can
  disagree with what was saved: an insertion of several batches is cut short, one cursor stands for several
  requests, a table is dropped while its log stays, a day is not over yet.
- **Statements without a transaction.** Migrations and rebuilds create, copy, exchange and drop tables in
  statements of their own.
- **Sources that half answer.** Pages from several addresses, parts that are tolerated to be missing, cached
  directories, sessions that expire.

What makes it correct: a provider never runs two children and the limit of parallel providers
holds; work starts in the order of submission; an accepted job reaches a final status, which is never
overwritten and tells the truth about its tasks; no task is lost or needlessly repeated; a schedule
fires once per slot, never stops by itself and stays off once switched off; nothing is missing behind
the position a run goes on from; what is logged as a success or skipped as done is saved; a wide table that is
built anew is published whole, and until then the old one is kept; an answer is what the source has, or the run is
told otherwise. `PROJECT.json` lists the hazards at their lines.

## 2. The service

### JobLanes: what is promised

One variable: each job is absent, waiting, active or done. A job starts only when its lane has no
active job and fewer than `MaxParallel` are active; a restart may put an active job back. Nothing
is said of memory, files or processes.

### JobManager: how it is done

| state | code |
|---|---|
| `job`, `top` | `_jobs`: records of the children and of the parents |
| `queue`, `handles`, `restarting` | `_queue`, `_processes`, `_restart_job_ids` |
| `diskJob`, `diskTop`, `diskQueue` | `jobs/<id>.json`, `job_queue.json` |
| `io` | writes and the `Popen` call that the holder of the lock still has to perform, in order |
| `kick` | some thread is in `_dispatch_next` |
| `pending` | what `cancel_pending_jobs` has listed and not yet cancelled |
| `phase`, `epoch` | the service is up, stopping or down; its incarnation |
| `live` | processes of the operating system |

One action stands for one method while it holds the lock: `CreateTaskBatchJob`,
`CreateRegisteredTaskJob`, `CancelParent`, `CancelChild`, `ListPendingJobs`, `DispatchSpawn`,
`DispatchFails`, `DispatchNone`, `Finish`, `RefreshRunningJob`, `RefreshParent`, `WatchOrphan`,
`PrepareForRestart`, `Exit`, `Crash`, `Load`. Memory changes at once, since nobody can look at it
before the lock is free; the file writes are put in `io` and `Flush` performs them one at a time, so a
crash falls between any two. With `TornWrites` it may also fall inside `_save_job`, which truncates
the file it rewrites. A child is a pair of a parent and a lane.

### TaskBatch: one child, from inside

One batch of one provider. `Spawn`, `ResumeSkip`, `StartTask`, `UpToDate`, `TaskSucceeds`,
`TaskFails`, `RecordResult` and `EndBatch` are the steps of `run_task_batch`, with a write of the
results file where the code has one; `Killed` and `Interrupted` stop it. `Finish`, `Requeue`, `Cancel` and
`RetryFailedTasks` are the job manager's answers, reduced to this one job. The history variables
count the work of each task (`worked`), and remember what the file has called done (`noted`), what
was done at all (`settled`) and what an interrupt ended (`broken`).

JobManager and TaskBatch overlap in the life of a child: what JobManager knows of a batch is an
outcome, what TaskBatch knows of the manager is that it starts, finishes, requeues and cancels.

### ScheduleManager: the configs, the poller and the requests

The configs with their schedules, the poller as a process with a snapshot and a program counter
(`PollStart`, `Repair`, `EnqueueCreate` / `EnqueueCoalesce` / `EnqueueFail`, `PollRecord`, `PollEnd`), and request
threads whose handlers are split where the code releases the config manager's lock (`SwitchOn` /
`SwitchedOn`, `Edit` / `Edited`, `SwitchOff` / `CancelPending` / `SwitchedOff`, `Run` / `RunCreate`,
`Delete` / `Deleted`). Time is a count of slots and a schedule a time of a day of `Day` slots; `NextRun` is
`compute_next_run_at` for a daily schedule. The job manager appears as one active job per config, which
is what JobManager establishes (`OneActiveJobPerConfig`).

### TableStatus: what the page of tables is told

Requests (`ReadParts`, `UseWatermark`, `WatermarkStale`, `QueryLatestDate`, `SaveWatermark`, `SaveFails`,
`EndRequest`) against a table that changes at any moment; the newest date is cached under the signature of the parts
that was read first. Beside them a task records how it ended: `StartTask`, `ReadState`, `WriteTemp`, `ReplaceFile`,
`RecordFails`, `EndTask`, `Killed` are the reading, the temporary file and the rename of `TableCheckStateStore.record`.

## 3. The providers and the tables

### The six runners

Each module has the days of a calendar, one business table as a set of rows (an item and a day), the cursor or the log the
provider goes by, and one process `run` with what it has left to do. A run may fail or be killed at every step, and is
started again with other arguments on the same or on a later day. Services answer past days fully unless the module's head
says otherwise, and today's rows as they like; what differs is what the runner makes of it.

| module | what is particular |
|---|---|
| TushareSync | No record of progress: the newest saved date is the cursor. `asked` is the day of a request: a row is `final` when it was asked for after its day. Tasks by code, by range, by slices and as snapshots (`Plan`), in several variants that share a cursor; responses cut at a row limit, a budget of requests per run, retries, and a universe of codes cached over the tasks of one process, whose source is fetched in one or several requests (`FetchSource`). |
| BaoStockSync | Requests decided one by one when their turn comes: the window after the cursor (`Effective`), rows already there (`HasTaskData`), a success in the log (`SucceededBefore`); ranges, days and quarters; rows are inserted in part. |
| QmtSync | A success log beside calendar, history and snapshot tasks. Opening the repository replaces a table of an older layout in separate statements (`DropOutdated`, `RecreateTable`, `TruncateLogs`). Rows are inserted in batches (`SaveRows`), oldest first. |
| AKShareSync | Passes over the items of a saved directory with a cursor per item in a table of its own, a circuit that opens after consecutive failures, failures collected and raised at the end, a migration by copy and exchange that leaves the cursors alone. |
| YFinanceSync | Symbols whose history ends on one day are asked for together and those left out once more, alone; windows end with the last completed session, which `LatestCompletedDate` computes from a date and a minute of New York and the state sees as the closing (`closed`) of a session at some moment; three sources of a cursor (`LatestCursor`) and two migrations. |
| AmazingDataSync, AmazingDataTasks | One runner over the tasks of `AmazingDataTasks`, where the runner's, the sync class's and the provider's view of each task is a record; tasks that behave alike are equal, so a run explores the distinct ones. Resumption by checkpoints, batches of factors, revisions within an overlap, errors that are raised, passed over or swallowed. |

### What stands between a runner and its service

- **AKShareSource**: a call has ways (SDK, web), a way has addresses, an address two routes; the object remembers which
  answered. Pages are requested one at a time, and an address may break off between any two.
- **YahooSource**: a fetch is put together from parts; some are tolerated to fail and noted in the diagnostics, a list
  that all tasks of a process share (an answer that cannot be normalised is tolerated for some of these parts only, `GoesOnWithout`); retries by kind of error; directories cached per process.
- **AmazingDataSession**: a session that expires at any time, one repeated login per guarded call (a market client needs a
  nested one for its calendar), clients bound to their session, a broken cache file put aside once.
- **AmazingDataUniverse**: how the list of codes of a task comes about: today's refresh or an older master, a history of
  daily lists of which the missing days are fetched, renamed codes of Beijing, the codes still missing from a table.

### WideTableSync

Writers that plan from the existing table and the latest state row, save the new signature (`SaveRunning`) before anything is
built, and execute a list of statements, one action each: `DropTable`, `CreateTable`, `TruncateTable`, `ListMonths`,
`InsertMonth` month by month or a single `InsertSelect`, which reads the source when it inserts, and the two renames of the
swap, `SetAside` and `PutInPlace`: ClickHouse does not take the RENAME of two tables as one, so a reader may look, another
run may act and the run may end between them. Any statement fails, and the process dies between any two. A batch and the inline
endpoint of the service are two writers without a lock between them.

Only a changed definition is built beside the table in use. The synchronisation of an unchanged one drops the published table
and refills it (`DropAndRefresh`, `wide_table_sync.py:606-609`): meanwhile readers find it missing, empty or partial, and when
the run dies they keep what there is. `RebuildKeepsTable` is about the former only.

### Composition

`Providers` is the registry: a process has one provider, chosen in the initial state, and works on that provider's
tables; the properties there say the same thing of each of them in its own terms. `MCProviders` gives it a finite instance.
`SourcesAndTables` does the same for the four sources, the wide tables (one writer) and the table status, and
`MCSourcesAndTables` gives that one its instance. The parts share no state in the code either, so the composition adds no
interleaving; it states one promise per kind of component.

`Lists` has the four operators that turn sets into the lists a plan is made of, and lists into one another (`ToSet`, `SetToSeq`,
`FlattenSeq`, and `Among`, the list comprehension of the runners). They are those of the community module SequencesExt, written as
recursive functions: the proofs reason about them through an instance, and the library's folds take an operator. `MCProviders`
has TLC compare the two on short lists, and `MCJobManager` compares `Kept` of JobManager, which ranks positions, with `SelectSeq`.

## 4. The runs

| run | module | instance | what it shows |
|---|---|---|---|
| JobManager_service | MCJobManager | 2 parents, 2 lanes, a config and a registered request, no restart, polling readers | types; a parent says what its children imply; one active job per config; no lost wakeup; one process per lane |
| JobManager_crash | MCJobManager | 2 parents of the same second, 2 lanes, room for one child, one crash, torn writes; lanes symmetric | the inductive invariant; the limit; the queue and the files are exact; outcomes are final; the records implement JobLanes |
| JobManager_restart | MCJobManager | 3 parents of one lane, 2 graceful restarts | lane exclusion, one process per job, FIFO, cancellations are final |
| JobManager_live | MCJobManager | 2 parents of one lane, a crash and a restart | every child and every parent ends |
| TaskBatch_runs | TaskBatch | 3 tasks, 3 stops, 1 retry, both values of `continue_on_error`, interrupts | all properties of a batch, with liveness |
| Schedule_day | MCScheduleManager | 2 configs, 2 request threads, 3 slots, 2 requests, 2 jobs, one end of the service; symmetric | slots fire once, switching off holds, next runs follow the settings |
| Schedule_live | MCScheduleManager | 2 configs, 1 thread, 1 request, one end of the service | a due schedule is moved on |
| Providers_runs | MCProviders | each runner with 2 codes, 2 days (BaoStock 3 units), 2 runs (QMT 3), every shape of task, every option | nothing lost behind a cursor; logs tell the truth; completed sessions only; a success is complete; what is skipped is whole; a success over the saved codes has them all |
| Sources_and_tables | MCSourcesAndTables | 2 addresses, 3 items on pages of 2, 2 calls; 2 parts and symbols, 2 tasks; 4 logins, 2 calls; 3 days of lists with a delisted, a new and a renamed code; a wide table of 2 definitions, 3 months and 5 runs; 2 requests, 2 changes, 2 attempts | answers are whole or told to be short; a success means a whole wide table, a rebuild keeps the table in use, leftovers never block a swap; dates shown are true |
| BaoStock_quarters, AmazingData_resume, WideTable_overlap | BaoStockSync, AmazingDataSync, WideTableSync | small | the divergences of section 7, each expected to be violated |

Why the bounds are enough.

*Service.* Two children of a lane and one of another suffice for a conflict in a lane, for the limit and for a later
entry that passes a blocked head; three children of one lane are the least for a requeue that may go before, between or
behind others. One crash falls at every point between two writes; the second restart reads what the first wrote. In a
batch three tasks give a task before, at and behind a failure or stop, and three stops are one more than the number
that changes what can be lost. For schedules a day of two slots and three time steps let a slot fire, be repeated after a
restart and be overtaken by a request that had computed it; two configs are needed for one that ends the poll of the
other.

*Providers.* A second run is what meets the traces of a first one that was cut short; two codes are the least for an item
that fails beside one that succeeds, a shared cursor that speaks for both, and a response that is cut between them; two
days are one that is over and one that is not, and every day may be the present one while a run goes on (`Tick`). QMT gets a
third run because a layout is replaced, left half done, and replaced again. BaoStock gets a third unit because the cursor, the
last completed quarter and the present one differ. The row limit and the request budget (3) are small enough to be reached and large enough
for a source task of two requests and a task behind it. TLC also compares `LatestCompletedDate` with its definition around 16:15
and midnight on each day of two weeks (`SessionsEnd`).

*Sources and tables.* Three items on pages of two give a full page, a short one and an exact end; the second call goes by
what the first one taught. Four logins let each of two calls meet an expired session, in its nested call too. Five runs of a wide
table leave every combination of leftovers behind: two killed rebuilds, and a run before, between and after them. Two
requests and two changes give the cache a signature that is stale when it is written.

Symmetry is used only where no liveness is checked. `CHECK_DEADLOCK` is off because a bounded instance stops when its
jobs, runs, requests or failures are used up.

Every property of a passing run is paired in `PROJECT.json` with a mutant, a plausible mistake in
one definition that makes it fail; the `Mutant...` operators stand beside what they replace. The properties of
MCProviders and SourcesAndTables are conjunctions over their parts, and the mutant breaks one of the parts.

### What the history variables allow

Some properties hold only up to a failure that the code does not exclude. They count those failures
rather than leave them out of the model:

- `SlotFiredOnce`: a slot fires again after the service ended between the creation of the job and
  the update of `next_run_at`, or after a request that computed its next run before the slot wrote
  it afterwards.
- `SwitchOffHolds`: the poll that had seen a schedule due creates one job after it was switched off
  or its config deleted. No poll creates a second one, and no stale copy switches it on again.
- `NextRunFollowsSettings`: `raced` marks configs edited while another thread was computing their
  next run. For those, the next run may follow the old settings until it has fired.
- `OneStopLosesNothing`: work recorded as done is repeated only after two stops.
- `NothingLost`: a task that an interrupt ended (`broken`) may not be offered to a retry.
- Tushare, `CursorSpeaksForAll`: an insertion that is cut short in the middle of a response, and a run cut short
  while several variants share one cursor, do leave rows behind the cursor that no run asks for.
- `leftOut` (AKShare, yfinance, AmazingData): days a caller's `begin_date` has passed over are behind the cursor afterwards.
- BaoStock, `stops`: a day whose insertion was cut short has rows and is skipped as existing.
- Tushare, `partial`: a source task that ended after some of its requests has saved codes of which the cached universe does not
  know; `ListedCodesAreComplete` is not claimed for such a process.
- QMT, `hidden`: a kill between the drop of a table and the clearing of the log leaves successes of an empty table.
- AmazingData: tasks whose provider swallows errors or passes over days are excluded from `SuccessIsComplete`, and
  the history of code lists from `CursorLosesNothing`: for them the properties do not hold.
- AmazingDataUniverse, `unread` and `passed`: a refresh of the master that failed today, daily lists that failed.
- RebuildKeepsTable: between the two renames there is no table under the published name; both are then whole under the
  helper names. It says nothing of runs without a swap.
- ChangeArrivesBySwap, `undone`: after a run that failed or was killed, the state row may name a definition the table does
  not have, and the next run of that definition drops the table.

### Fairness

- JobManager: `Flush` and `Load` are weakly fair (the thread holding the lock runs, the supervisor
  starts the service again), and so is the exit of a process. The actions that wait for the
  lock (dispatching, finishing, watching an orphan, exiting) are strongly fair: other requests may take the lock
  again and again, which disables them, and the lock is handed on in the end. No submission,
  cancellation, restart or crash is fair.
- TaskBatch: the process steps, the start and the finish are weakly fair; no stop or cancellation is.
- ScheduleManager: the poller's steps are weakly fair. `_scheduler_loop` catches what a poll raises and
  polls again. Jobs need not end.
- Providers, sources and tables: safety only. A run is a finite loop that anything may end.

## 5. What is proved

For every number of jobs, lanes, crashes, restarts, tasks, stops, retries, configs, requests, changes, definitions, months, codes,
days, pages, addresses, logins and runs, from the named assumptions on the constants (`CountAssumption`, `FlagAssumption`,
`LaneAssumption`, `OutcomeAssumption`, `BatchAssumption`, `ScheduleAssumption`, `ProviderAssumption`, `SourcesAssumption`) or those
in the statement of the theorem. Most say that sets are finite and bounds are numbers. `SourcesAssumption` says more: a listing of
AKShare fits in the 200 pages the code asks for, its addresses are some and differ, and the new name of a code has not been given
up in its turn (a chain of renames is followed by one step only).

| module | theorem | says |
|---|---|---|
| JobManagerProofs | `RecordsTyped` | the records in memory and on disk keep their types |
| | `SlotsKept` | `SlotInvariant` is an invariant |
| | `LanesExclusive`, `LimitKept` | a lane and all lanes stay within their limits in any mixture of memory and files |
| | `RecordsRefineLanes` | the records on disk implement JobLanes |
| | `FilesKept`, `RecordsDurable` | `FilesLag` is an invariant; `DurableWhenIdle` |
| JobRecordsProofs | `OutcomesKept`, `OutcomesWrittenOnce` | `OutcomeInvariant` and `WritesOnce` are invariants |
| | `OutcomesFinal`, `CancelsFinal` | `OutcomeIsFinal`; `CancelIsFinal` when writes are not torn |
| | `ProcessesUnique`, `LaneProcessesUnique` | `OneProcessPerJob` when the service never dies; `OneProcessPerLane` when it does not restart either |
| | `ParentsFollow`, `ConfigsHaveOneJob` | `ParentFollowsChildren`; `OneActiveJobPerConfig` |
| | `QueueKept`, `QueueIsExact`, `TypesHold` | `QueueInvariant` is an invariant; `QueueExact`; `TypeOK`, queues and pending writes included |
| | `WakeupsReach` | `NoLostWakeup` |
| | `LanesAreFIFO` | `LaneFIFO` when the service never dies abruptly, graceful restarts included |
| TaskBatchProofs | `BatchTyped`, `TruthTold`, `StopsTold`, `NoneLost` | types, `StatusTellsTruth`, `StopsAtFirstFailure`, `NothingLost` |
| | `OneStopIsSafe` | `OneStopLosesNothing` |
| ScheduleManagerProofs | `TypesHold`, `SlotsFireOnce`, `SwitchOffIsKept`, `NextRunIsOfSettings` | `TypeOK`, `SlotFiredOnce`, `SwitchOffHolds`, `NextRunFollowsSettings` |
| ProvidersProofs, TushareProofs | `InvariantHolds` | `ProvidersInvariant`, one invariant per runner |
| | `NothingIsLost` | `NothingLostBehindCursor` |
| | `LogIsTrue`, `NothingOpenIsSaved` | `LogTellsTruth` of BaoStock and QMT; `OnlyCompletedSessions` of yfinance |
| | `LatestSessionIsCompleted` | the session yfinance asks up to, by date and minute, is the last weekday whose close is over |
| | `SuccessesAreComplete`, `SkippedAreWhole` | `SuccessIsComplete`; `SkippedIsWhole`, action properties |
| | `ListedCodesSaved` | `ListedCodesAreComplete` of Tushare, an action property |
| SourcesAndTablesProofs, TablesProofs | `InvariantKept` | `PartsInvariant`, one invariant per part |
| | `SuccessesArePublished`, `RebuildsKeepTable`, `SwapsGoThrough` | `SuccessIsPublished`, `RebuildKeepsTable`, `SwapIsNeverBlocked`, for one writer |
| | `ChangesArriveBySwap` | `ChangeArrivesBySwap`, an action property |
| | `AnswersHold` | `AnswersAreTrue` of the four sources |
| | `CheckedHolds` | `CheckedIsCurrent` of the table status |

**Job manager.** Lane exclusion in memory is easy; the difficulty is that a restart reads records
that lag behind memory. A child started in memory while another of its lane is still active on disk
would break the lane after a crash. `SlotInvariant` says why this cannot be: a record on disk differs from memory only
while its write is pending (`DiskLags`), and then by one legal move of its life; whoever dispatches
holds the lock with `io` empty, so at that moment both agree. `Unborn`, `HandlesKnown` and
`DownKnowsNothing` exclude records nobody created. Each action is shown either quiet (it
adds no slot) or to be the one dispatch that adds a slot when there is room. The refinement follows
from the same facts: `Flush` and `Crash` are the only actions that change the records on disk, one
record at a time, and the difference that `DiskLags` allows is exactly a step of JobLanes.

What the records tell, in JobRecordsProofs, rests on these. For the queue, `Kept` selects by the rank of a position among those
that stay; `RankCounts` says the ranks have no gap (an injection of a finite set into one of its size), from which follows what a
selection lists and in which order. `QueueInvariant` says that the queue in memory lists each queued child once and nothing else,
and that the file lists nothing twice, however the two are out of step; with `FilesLag` the two agree when the lock is free. `Awake` is
`NoLostWakeup` without the condition on the lock: whoever frees a slot, adds or takes away work sets `kick` in the same step, and a
thread clears it only when nothing can start. `LaneInvariant` orders each lane behind the child of it that runs, in memory while the
service runs and in the file while it is down; it needs `SlotInvariant` (what is put back in front was alone in its lane) and that
no crash loses the last writes: after one, the file may still have the order that the last write was to replace.

**Runners.** Each runner has an invariant of the same shape. Types and phases (`..Typed`, `..Busy`, `..Window`) say that a phase
which handles a request has one. `..Answer` says what an answer at hand is worth: all the past days that were asked for, up to some
day. `..Saved` says that what is about to be logged, or to move a cursor, is in the table by now. Then the property itself can be
carried through each step. What makes it inductive differs:

- *BaoStock* inserts rows in part. `BSWholeDays` (all of a day or nothing, unless an insertion was cut) is what a skip of
  existing rows goes by; `BSFromStart` says that a range is planned from its first unit, so no request begins behind a hole.
- *QMT* logs successes of a table it may replace: `QMTruth` is `LogTellsTruth` without the exception of a log not yet truncated,
  and names the two phases in which the log speaks of a table that is gone. `QMLeft` says which rows of an answer are in the table
  while its batches are inserted.
- *AKShare* and *yfinance* have cursors in a table of their own. `AKProgress` (every item of a pass has failed, is still to come
  or is done) gives the success of a pass; `YFPending` the same for symbols without a history; `YFBefore` keeps the cursors
  that a plan was made by, since rows are saved while it is worked off; `AKCopied`, `YFCopied` say a migration exchanges a whole copy.
- *AmazingData* tells how a request follows the newest row (`ADDue`) and what an answer at hand has of it (`ADAnswered`,
  `ADWhole`); factors carry the days of their checkpoints (`ADFactors`), statements the days that were revised behind them.
- *Tushare* has no cursor but its newest row, shared by codes and variants, so the invariant speaks of the plan. `TUChain`: what
  a request asks for follows what is saved or was asked for before it. With one cursor that keeps `TUNoGap`, nothing missing
  behind it, whatever stops the run. With several variants, which the plan asks for one after the other, it does not; there
  `TUPromise` says that as long as nothing has stopped a task, what is missing behind a cursor is still to be asked for. `TUTask`
  is the same for the window of the task, and gives `SuccessIsComplete` when the plan is worked off. `TUBehind` is the cursor of a
  code seen over the universe known so far: learning of codes moves it back, never forward (`TUNarrower`). `TUUniverse` says that
  the universe cached in a process is the one saved, save while a source task is between its requests or after it failed there;
  with it a task worked off over the cached codes (`TUListedAll`) has those of the saved ones.

The plans are lists made of sets, so what they ask for is proved by induction, which is stated here in the form of sets: `Induction` says
that a set of numbers with 0 and the successor of each member has all of them, from the least element of its complement. It gives
the largest of some days (`LatestValue`), what `FlattenSeq` lists and in which order, what `Among` keeps, and that `SetToSeq`
lists every member of a finite set. `TURange`, `TUSlice`, `TUCodeCalls` and `TUSnapshot` then say what each plan asks for.

The attempt to prove two of these properties showed the model wrong, and it was mended: a row of Tushare counts as `final` by the
day it was asked for, not saved, and the next task of a process starts without the flag of a universe being resolved (a run
that failed while resolving left it set in the model; in the code it is a position in the program). What a `begin_date`
leaves out is now defined by that date alone.

**Task batch.** `StatusTellsTruth` and `StopsAtFirstFailure` become inductive with
`BatchInvariant`: the two counters agree with the results, the results are a prefix of the loop,
what any record says has happened, and a process belongs to a job that is active. `OneStopIsSafe`
needs `NotedIsKept`: with no stop so far the file has everything it has ever called done, and after
one stop it is in what the resumed process loaded or has found since.

**Schedule manager.** The count in `SlotFiredOnce` is not inductive: whether a slot fires again is decided by copies in
flight. `RepeatsOK` counts them as suspects: the repeats so far, with a poll that is about to repeat one, and requests whose next run has
passed, never exceed the ends of the service and the requests that were overdue when they wrote, each of which `OverdueOK` counts
at most once. `FiredOK` bounds the fired slots by the poller's time, `PollOK` and `CallsOK` say what the copies of the poller
and the requests are worth, `SettingsOK` and `OffOK` tie a schedule to its next run and its switch.

**Table status.** A date is cached under the signature read before it, so it belongs to that signature or a later one; the
invariant says this of a request in each of its steps and of the cache, and of the check file that file, temporary file and
recorder agree on the last success.

**Wide tables.** What a run may still do is a list of statements, so the invariant describes the list by the table it meets.
A rebuild is in one of four phases: `BeforeFilling` (a rest of `Rebuild`; the target untouched, the temporary tables absent
once dropped), `BeforeSwap` (what the temporary table has and the insertions ahead bring make the whole, `Filling`), `BetweenRenames`
(no target; the old and the new table under the helper names), `AfterSwap` (the target is whole). Other runs are in `BeforeRefill` or `Refilling`. With `StateTrue` (while a run may change the target, the
state row says it runs) the three invariants follow. `Undisturbed` is what `ChangeArrivesBySwap` needs besides: until a run has
been undone, a success on record is true of the table whose definition it names, so a plan that drops the target was made for its
own version. The theorems are about a single writer, which the code does not enforce: see section 7.

**Sources.** *AKShare*: `AKLeft` says that the ways left to a call are all that have not refused, and `AKUnderWay` the same of the
addresses of a way, with rows that are the pages asked for so far; hence a call is refused only when everything has refused, and
a listing that ends is whole, because a page that is not the last is full. `AKKnown` keeps what the provider has learnt: a
preferred address is one it has, and a directory that is kept is whole. *yfinance*: `YSNoted` says that whatever the fetch under
way, or one before it in the task, went without is in the diagnostics, through retries, symbols and the cache, until the outcome
of the task is told. *The session*: `SEClients` ties the clients to the login the process believes in, `SECounted` counts faults:
one that still stands, and the one an attempt was spent on, have been counted against the call, so a call refused as stale or broken
has met two. *The list of codes*: `UNLists` says that nothing before the newest day of the history is missing unless it was passed
over, and `UNFound` what a call has established at each of its steps; what is left is set algebra over days, names and renames.

Only model-checked: liveness (`EveryJobEnds`, `EveryParentEnds`, `BatchEnds`, `NeverStuck`), which needs ENABLED and is out of the
prover's reach, and the three runs of section 7 that show a violation. That the operators of `Lists` and `Kept` of JobManager
are those of SequencesExt is compared by TLC on short lists. Every safety property of a passing run is stated by a theorem.

## 6. What is not modelled

- Errors of the file system other than a crash inside a write, and errors of threads to start.
- The derived parent results file of the job manager, logs, error texts, commands.
- Within a batch: how parameters are built, and the exit code of a `SystemExit` raised by a task, which is taken to be
  neither 0 nor 2.
- Weekly and interval schedules, legacy schedule files except for the state they leave, validation.
- Two processes that record the outcome of one task of one table at once (they share the name of the temporary file), and
  two signatures of a table that happen to be equal: modification times have the resolution of a second.
- A check file or cache that cannot be read: `_read_path` (`table_check_state.py:103-108`) takes it for an empty one, so the last
  success would be forgotten. The name of the date's column, which a cached date is also compared by (`table_watermark.py:187-191`).
- Providers: the pacing of requests in time, the conversion of rows and of time zones, the choice of markets and periods. Tushare's
  `max_pages`, which ends a longer listing (`provider.py:194`), and the caller's `begin_date`, `limit` and `codes`; a task by code
  without codes asks by range, where the code may go by slices (`runner.py:415-420`). AKShare's cursors move back when
  a merge of their table keeps a later and smaller entry (`repository.py:423-434`); the runner then asks again for what it has. AmazingData's
  `etf_pcf`, `sync_calendar` and the dates the provider derives from a calendar; a message per ignored parameter. QMT's
  download into the terminal's cache. BaoStock's login. Directories a service itself gives in part. A clock that moves past
  midnight during a task is modelled (`Tick`) as far as the runner reads it again.
- The definitions of wide tables as text: a version stands for the signatures of a payload.
- Registries, table definitions, ClickHouse access, configuration, log redaction, command line tools: no state that
  changes, or input and output only.

## 7. Where the code and its documents differ

Shown by a run:

1. BaoStock's quarterly tables are not caught up: any row of a code counts as existing data for all its periods
   (`providers/baostock/specs.py:424`), while BAOSTOCK_RUNBOOK.md:205 says the run goes on with the quarter after the cursor.
   Run `BaoStock_quarters`.
2. AmazingData's minute bars: a success checkpoint survives the table it speaks of (`providers/amazingdata/runner.py:2522`), so a
   resumed run leaves out codes with hardly any row. The comment beside it excludes this. Run `AmazingData_resume`.
3. Two runs of one wide table use the same temporary table without a lock (`wide_table_sync.py:694`): one sets out to publish what
   the other has just dropped and created anew. Run `WideTable_overlap`.

Seen while modelling the service, without a run of their own:

- A running child is requeued and run again by a restart (`job_manager.py:1287`); RUNBOOK.md:302
  says it is marked `interrupted` and not run again (README.md:216 agrees with the code).
- A service that dies after `Popen` and before the record is saved starts the child a second time beside its first
  process; README.md:217-218 excludes it.
- `_save_job` rewrites the record in place; a crash inside it loses the job, since an unreadable file
  is skipped by the next load; README.md:215-216 keeps what has not run.
- A batch that is stopped twice repeats tasks that had succeeded: each resumption rewrites the
  results file from the start (`task_batch.py:103`); README.md:216-217.
- `set_enabled(False)` cancels the pending jobs before it writes the switch (`schedule_manager.py:79`), so the poller can leave a
  queued job behind (`tests/test_service_schedule_manager.py:95` expects the pending jobs to be gone).
- After an abrupt end a requeued child goes behind later work of its lane (`job_manager.py:1422`), although the docstring of
  `prepare_for_restart` says both restarts recover alike; a child that was being cancelled is declared cancelled by a
  reload while its process may still run, so that the lane starts another beside it (`:1201`); cancelling a child of an
  earlier incarnation does nothing (`:1046`); the log file of a child is opened outside the `try` that would record a
  failure (`:1475`); a crash between the writes of a registered parent and of its child leaves a parent that never ends
  (`:668`); a task ended by Ctrl-C is recorded as `pending`, which `retry_failed_tasks` does not offer
  (`task_batch.py:201`, `job_manager.py:400`).
- A check file says "running" for good after a kill.

Seen while modelling the providers:

- AmazingData: `sync_option_std_ctr_specs` compares with the newest listing date of the whole table, so a run with `--codes`
  makes later runs drop older contracts of every other code (`info.py:998`; RUNBOOK.md:236-246 lists the task among those that decide by
  their table); a day that fails in `fetch_hist_code_daily` is a hole for good once a later day has succeeded
  (`provider.py:521`); `_query_kline_with_variants` (`:961`) and the margin summary turn an error into an empty success; some
  dated information tasks compute their start from the table in spite of `--force`.
- AmazingData's list of codes: a `limit` on the missing codes starves the later ones when the first never get rows; a fallback
  to an older list is logged as a success; days before the first synced one are never fetched.
- BaoStock: a success without rows for the newest quarter is skipped for good once a later quarter is complete, while
  BAOSTOCK_RUNBOOK.md:207 says it is checked again.
- QMT: several markets share one calendar cursor, so one that failed is left behind by the others; `CalendarHasNoHole`
  speaks of a single one.
- AKShare: a short or empty page in the middle of a listing is accepted as its end, the total is not compared; the fallback to
  Sina drops the `hfq` adjustment; a directory fetched in part is a universe in part.
- Tushare: a source task that fails after some of its requests does not reach `_invalidate_universe_cache` (`runner.py:340`), so the
  tasks behind it in the process work on the list cached before, without the codes just saved.
- yfinance: runs that do not go through `run_registered_task` never drain the diagnostics.
- Wide tables: the swap is one RENAME of two tables, which is not atomic, though the test
  `test_run_wide_table_sync_rebuilds_with_atomic_table_swap` (tests/test_wide_table_sync.py:227) says so by its name; a run that ends
  between the renames leaves no table under the published name, and nothing renames the old one back. The synchronisation of an
  unchanged definition empties the table readers use (`wide_table_sync.py:606-609`).
- Wide tables: docs/wide-table-sync-implementation-handoff.md §7 says that a rebuild drops and recreates the table, the code
  swaps; the state row names the new definition before the table has it (`ChangeArrivesBySwap` therefore counts `undone`).
- `sync_core/task_logging.py:37` takes the date of a log entry when it is written, so a task that ends after midnight counts
  as done for the new day.

## 8. Plan

Done, the most important behaviour first: JobLanes, JobManager, TaskBatch, ScheduleManager; the six runners and their
composition; the sources; wide tables; table status; the proofs of section 5, one for every safety property of a passing run.

What is left, in order:

1. The service as a whole: JobManager, ScheduleManager and TaskBatch composed at the abstract level, so that a slot is
   followed to the end of its batch, with the proof that the composition keeps what each part promises.
2. The left-out operations of section 6: `etf_pcf`, weekly and interval schedules, concurrent records of one check file.
