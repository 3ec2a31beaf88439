---------------------------- MODULE AmazingDataSync ----------------------------
(* The AmazingData runner: one task goes through its codes. Most tasks read from the target table
   where a code has to go on; factors are collected over several codes and inserted together;
   listings go by checkpoints alone. A resumed run first leaves out codes already done.

   An insertion is one statement, except that of the status history, which is one for each month,
   oldest first. *)
EXTENDS AmazingDataTasks, Lists

CONSTANTS
    Codes,     \* codes of the universe
    LastDay,   \* the calendar is 1..LastDay
    BatchSize, \* FACTOR_SYNC_CODE_BATCH_SIZE
    Lookback,  \* HISTORICAL_REVISION_LOOKBACK_DAYS
    MaxRuns    \* bound: processes started

VARIABLES
    today,
    kind,    \* the task, one of Tasks
    table,   \* <<code, day>> saved; of a listing, the day of the snapshot
    stale,   \* rows of statements revised since they were saved
    log,     \* success checkpoints: [scope, on]
    run,     \* the process
    runs,
    leftOut  \* history: <<code, day>> that a caller's begin_date has passed over

vars == <<today, kind, table, stale, log, run, runs, leftOut>>

Days == 1..LastDay
Larger(a, b) == IF a > b THEN a ELSE b
Latest(S) == IF S = {} THEN 0 ELSE CHOOSE d \in S : \A e \in S : e <= d
Idle == [pc |-> "idle"]

Newest(c) == Latest({d \in Days : <<c, d>> \in table})

--------------------------------------------------------------------------------
(* The codes of a run. *)

\* The missing universe has the codes without a row. Tasks without codes ask for everything.
Universe(missing) ==
    IF missing /\ kind.run.codes THEN {c \in Codes : Newest(c) = 0} ELSE Codes

StartRun(begin, end, limit, missing, force, resume) ==
    LET listed == SetToSeq(Universe(missing))
    IN  /\ run.pc = "idle"
        /\ runs < MaxRuns
        /\ IF kind.run.dated THEN begin <= end /\ end <= today ELSE begin = 1 /\ end = today
        /\ run' = [pc |-> "filter", begin |-> begin, end |-> end, force |-> force, resume |-> resume,
                   todo |-> IF limit = 0 \/ listed = <<>> \/ ~kind.run.codes THEN listed
                            ELSE SubSeq(listed, 1, limit),
                   batch |-> {}, rows |-> {}]
        /\ runs' = runs + 1
        /\ UNCHANGED <<today, kind, table, stale, log, leftOut>>

Least(S) == CHOOSE d \in S : \A e \in S : d <= e

\* Of several codes the one that is furthest behind, if all have rows. The standard contracts of
\* options go by the newest row of the whole table.
LatestDate(codes) ==
    IF kind.sync.latest = "table" THEN Latest({x[2] : x \in table})
    ELSE Least({Newest(c) : c \in codes})

WholeWindow(codes) == LatestDate(codes) = 0 \/ (run.force /\ kind.sync.heedsForce)

\* Mutant: statements go on after the newest row, as bars do.
MutantSyncStart(codes) ==
    IF kind.sync.start = "present" THEN today
    ELSE IF WholeWindow(codes) THEN run.begin
    ELSE IF kind.sync.start = "newest" THEN LatestDate(codes)
    ELSE Larger(LatestDate(codes) + 1, run.begin)

\* The first day asked of the provider.
SyncStart(codes) ==
    IF kind.sync.start = "present" THEN today
    ELSE IF WholeWindow(codes) THEN run.begin
    ELSE CASE kind.sync.start = "newest" -> LatestDate(codes)
           [] kind.sync.start = "overlap" -> Larger(LatestDate(codes) - Lookback, run.begin)
           [] OTHER -> Larger(LatestDate(codes) + 1, run.begin)

\* What a checkpoint is kept for.
Scope(codes, first) ==
    IF ~kind.run.dated THEN [codes |-> codes, begin |-> 0, end |-> 0]
    ELSE IF kind.sync.scope = "window left" THEN [codes |-> codes, begin |-> first, end |-> run.end]
    ELSE [codes |-> codes, begin |-> run.begin, end |-> run.end]

Checkpoints(scope) == {e \in log : e.scope = scope}

\* Tasks driven by their target table disregard checkpoints, which outlive the table; those of
\* minute bars count while the table has a row of the code.
DoneBefore(c) ==
    LET checkpointed == Checkpoints(Scope({c}, run.begin)) # {}
    IN  CASE kind.resumes = "checkpoint" -> checkpointed
          [] kind.resumes = "never" -> FALSE
          [] OTHER -> Newest(c) > 0 /\ (Newest(c) >= run.end \/ checkpointed)

FilterForResume ==
    /\ run.pc = "filter"
    /\ run' = [run EXCEPT !.pc = "code",
                          !.todo = Among(@, {c \in Codes : ~(run.resume /\ DoneBefore(c))})]
    /\ UNCHANGED <<today, kind, table, stale, log, runs, leftOut>>

--------------------------------------------------------------------------------
(* One request after the other. *)

BatchLimit == IF kind.run.buffered THEN BatchSize ELSE 1
Full == Cardinality(run.batch) >= BatchLimit
Turn == run.pc = "code" /\ run.todo # <<>> /\ ~Full

\* The codes of the next request. Options that have a row are not asked for again.
Asked ==
    LET codes == IF kind.run.together THEN ToSet(run.todo) ELSE {Head(run.todo)}
    IN  IF kind.sync.onlyNew /\ ~run.force THEN {c \in codes : Newest(c) = 0} ELSE codes

Rest == IF kind.run.together THEN <<>> ELSE Tail(run.todo)

\* Mutant: the checkpoint of a factor counts without a look at its table.
MutantSucceededToday(codes) ==
    /\ ~run.force
    /\ kind.sync.skipsToday # "never"
    /\ [scope |-> Scope(codes, 0), on |-> today] \in log

SucceededToday(codes) ==
    /\ ~run.force
    /\ \/ kind.sync.skipsToday = "checkpoint"
       \/ kind.sync.skipsToday = "rows and checkpoint" /\ LatestDate(codes) > 0
    /\ [scope |-> Scope(codes, 0), on |-> today] \in log

\* The other tasks ask for an empty window.
WindowEmpty(codes) ==
    /\ kind.run.dated
    /\ kind.sync.emptyWindow = "skipped" \/ (kind.sync.emptyWindow = "asked if forced" /\ ~run.force)
    /\ SyncStart(codes) > run.end

Skipped == Asked = {} \/ SucceededToday(Asked) \/ WindowEmpty(Asked)

SkipCode ==
    /\ Turn
    /\ Skipped
    /\ run' = [run EXCEPT !.todo = Rest]
    /\ UNCHANGED <<today, kind, table, stale, log, runs, leftOut>>

Requesting == Turn /\ ~Skipped

\* Of the specifications of options rows up to the newest one known are left out here.
Answers ==
    LET first == SyncStart(Asked)
        fetched == Fetched(kind.fetch, Asked, first, IF kind.run.dated THEN run.end ELSE today, today)
    IN  IF kind.sync.start = "present" THEN {Asked \X {today}}
        ELSE {{x \in rows : x[2] >= first} : rows \in fetched}

\* Most tasks take an empty answer for a success.
Fetch(answer) ==
    /\ Requesting
    /\ kind.sync.emptyAnswer = "failure" => answer # {}
    /\ run' = [run EXCEPT !.todo = Rest, !.rows = @ \union answer,
                          !.batch = @ \union {[codes |-> Asked, first |-> SyncStart(Asked), on |-> today]}]
    /\ UNCHANGED <<today, kind, table, stale, log, runs, leftOut>>

\* A code that fails is logged and passed over; the task goes on, and succeeds.
FetchFails ==
    /\ Requesting
    /\ run' = IF "fetch" \in kind.run.raises THEN Idle ELSE [run EXCEPT !.todo = Rest]
    /\ UNCHANGED <<today, kind, table, stale, log, runs, leftOut>>

Saving == run.pc = "code" /\ run.batch # {} /\ (Full \/ run.todo = <<>>)

\* Listings have one day only. Of the standard contracts of options the rows older than the newest
\* one of any code are dropped as well.
PassedOver(entry) ==
    LET until == IF kind.sync.latest = "table" THEN entry.first ELSE run.begin
    IN  IF kind.sync.start = "present" THEN {}
        ELSE {row \in {x[1] : x \in run.rows} \X Days :
                 row[1] \in entry.codes /\ Newest(row[1]) < row[2] /\ row[2] < until}

\* What an insertion cut short has left stays.
SaveRows(part) ==
    /\ Saving
    /\ part \subseteq run.rows
    /\ IF kind.sync.insertion = "by month" THEN \A x \in part, y \in run.rows \ part : x[2] < y[2]
       ELSE part \in {{}, run.rows}
    /\ table' = table \union part
    /\ stale' = stale \ part
    /\ leftOut' = IF part = {} THEN leftOut ELSE leftOut \union UNION {PassedOver(e) : e \in run.batch}
    /\ run' = IF part = run.rows THEN [run EXCEPT !.pc = "log", !.rows = {}]
              ELSE IF "save" \in kind.run.raises THEN Idle
              ELSE [run EXCEPT !.rows = {}, !.batch = {}]
    /\ UNCHANGED <<today, kind, log, runs>>

Logged(entry) == run' = [run EXCEPT !.batch = @ \ {entry},
                                    !.pc = IF run.batch = {entry} THEN "code" ELSE "log"]

LogSuccess(entry) ==
    /\ run.pc = "log"
    /\ log' = log \union {[scope |-> Scope(entry.codes, entry.first), on |-> entry.on]}
    /\ Logged(entry)
    /\ UNCHANGED <<today, kind, table, stale, runs, leftOut>>

\* An error while the checkpoint is written is swallowed.
LogFails(entry) ==
    /\ run.pc = "log"
    /\ Logged(entry)
    /\ UNCHANGED <<today, kind, table, stale, log, runs, leftOut>>

FinishTask ==
    /\ run.pc = "code" /\ run.todo = <<>> /\ run.batch = {}
    /\ run' = Idle
    /\ UNCHANGED <<today, kind, table, stale, log, runs, leftOut>>

Killed ==
    /\ run.pc # "idle"
    /\ run' = Idle
    /\ UNCHANGED <<today, kind, table, stale, log, runs, leftOut>>

--------------------------------------------------------------------------------
(* Around the program. *)

\* An operator drops the table; the next run creates it again, the checkpoints stay.
DropTable ==
    /\ run.pc = "idle"
    /\ table # {}
    /\ table' = {} /\ stale' = {} /\ leftOut' = {}
    /\ UNCHANGED <<today, kind, log, run, runs>>

\* A company revises a statement. During the request for its code it counts as done after it.
Revise(row) ==
    /\ kind.sync.start = "overlap"
    /\ run.pc # "idle" => \A e \in run.batch : row[1] \notin e.codes
    /\ stale' = stale \union {row}
    /\ UNCHANGED <<today, kind, table, log, run, runs, leftOut>>

Tick == today < LastDay /\ today' = today + 1
        /\ UNCHANGED <<kind, table, stale, log, run, runs, leftOut>>

Init ==
    /\ today = 1
    /\ kind \in Tasks
    /\ table = {}
    /\ stale = {}
    /\ log = {}
    /\ run = Idle
    /\ runs = 0
    /\ leftOut = {}

Next ==
    \/ \E begin, end \in Days, limit \in {0, 1}, missing, force, resume \in BOOLEAN :
          StartRun(begin, end, limit, missing, force, resume)
    \/ FilterForResume
    \/ SkipCode
    \/ Requesting /\ \E answer \in Answers : Fetch(answer)
    \/ FetchFails
    \/ Saving /\ \E part \in SUBSET run.rows : SaveRows(part)
    \/ run.pc = "log" /\ \E entry \in run.batch : LogSuccess(entry)
    \/ run.pc = "log" /\ \E entry \in run.batch : LogFails(entry)
    \/ FinishTask
    \/ Killed
    \/ DropTable
    \/ \E row \in table : Revise(row)
    \/ Tick

Spec == Init /\ [][Next]_vars

--------------------------------------------------------------------------------
(* Properties. *)

\* Wherever runs were killed, failed or repeated, and the table dropped between them, the only
\* days missing before the newest row of a code are those a caller's begin_date has passed over
\* (_resolve_incremental_start_date, load_latest_*). The history of code lists has more holes:
\* those of days that failed.
CursorLosesNothing ==
    kind.sync.start # "present" /\ kind.fetch.errors \in {"raised", "emptied"} =>
        \A c \in Codes, d \in Days : d <= Newest(c) => <<c, d>> \in table \union leftOut

\* A success means that every past day of the window is saved of its codes, and that no statement
\* within the overlap before its newest row is behind a revision (_run_sync_job), where the
\* provider reports its errors. Of the standard contracts of options the rows older than the
\* newest one of any code are dropped.
SuccessIsComplete ==
    \A entry \in IF run.pc = "log" THEN run.batch ELSE {} :
        /\ LogSuccess(entry)
        /\ kind.fetch.errors = "raised"
        /\ kind.sync.start # "present" /\ kind.sync.latest = "codes"
        => \A c \in entry.codes, d \in run.begin..run.end - 1 :
               /\ <<c, d>> \in table \union leftOut
               /\ d >= Newest(c) - Lookback => <<c, d>> \notin stale

\* Factors skipped because they succeeded today are whole, also after their table was dropped
\* (_collect_factor_rows_for_code).
SkippedFactorIsWhole ==
    SkipCode /\ kind \in {AdjFactor, BackwardFactor} => \A c \in Asked, d \in Days : d < today => <<c, d>> \in table

\* A resumed run leaves out only codes whose minute bars are in the table, up to the day their
\* window was last completed (filter_code_list_for_resume).
ResumeSkipsOnlyWhole ==
    [][FilterForResume /\ kind = MinuteKline =>
         \A c \in ToSet(run.todo) \ ToSet(run'.todo) :
            \A e \in Checkpoints(Scope({c}, run.begin)), d \in run.begin..run.end :
               d < e.on => <<c, d>> \in table \union leftOut]_vars
================================================================================
