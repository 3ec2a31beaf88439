------------------------------- MODULE AKShareSync -----------------------------
(* The AKShare runner: one task goes through the items of a directory saved before. A history
   task keeps for each item, in a table of its own, the last day it has saved; a plain task asks
   for every item again. Opening the repository moves a table with outdated columns to a copy
   and exchanges the two; the cursors stay as they are.

   The answer for past days is whole; today's row may be missing. Rows of an answer are inserted
   oldest first, any number at a time. *)
EXTENDS Lists

CONSTANTS
    Symbols,   \* symbols or concepts that exist
    LastDay,   \* the calendar is 1..LastDay
    Kinds,     \* tasks explored: "us_daily", "concept_daily", "index", "us_plain", "concept_plain"
    CircuitAt, \* MAX_CONSECUTIVE_SYMBOL_FAILURES
    MaxRuns    \* bound: processes started

VARIABLES
    today,
    kind,      \* the task
    table,     \* <<item, day>> saved
    copy,      \* the migration table: [there, rows]
    outdated,  \* the table has columns of an earlier version
    cursor,    \* last day saved of each item; 0 stands for none
    directory, \* the latest snapshot of the directory: [day, items]
    log,       \* successes: [scope, on]
    run,       \* the process
    runs,
    leftOut    \* history: <<item, day>> that a caller's begin_date has passed over

vars == <<today, kind, table, copy, outdated, cursor, directory, log, run, runs, leftOut>>

Days == 1..LastDay
Larger(a, b) == IF a > b THEN a ELSE b
Latest(S) == IF S = {} THEN 0 ELSE CHOOSE d \in S : \A e \in S : e <= d
Idle == [pc |-> "idle"]
NoCopy == [there |-> FALSE, rows |-> {}]

HasCursor == kind \in {"us_daily", "concept_daily", "index"}
OfConcepts == kind \in {"concept_daily", "concept_plain"}
\* Statement or period types: a plain task goes through the items once for each.
Passes == IF HasCursor THEN 1 ELSE 2

--------------------------------------------------------------------------------
(* Opening the repository. *)

StartRun(task, begin, end, limit, force, goOn) ==
    /\ run.pc = "idle"
    /\ runs < MaxRuns
    /\ begin <= end
    /\ end <= today
    /\ run' = [pc |-> "tables", scope |-> [task |-> task, begin |-> begin, end |-> end, limit |-> limit],
               force |-> force, goOn |-> goOn, day |-> today, items |-> <<>>, todo |-> <<>>, rows |-> {},
               passes |-> Passes, succeeded |-> 0, failures |-> {}, consecutive |-> 0]
    /\ runs' = runs + 1
    /\ UNCHANGED <<today, kind, table, copy, outdated, cursor, directory, log, leftOut>>

MigrateNothing ==
    /\ run.pc = "tables"
    /\ ~outdated
    /\ run' = [run EXCEPT !.pc = "check"]
    /\ UNCHANGED <<today, kind, table, copy, outdated, cursor, directory, log, runs, leftOut>>

\* What a killed migration has left is dropped first.
CreateCopy ==
    /\ run.pc = "tables"
    /\ outdated
    /\ copy' = [there |-> TRUE, rows |-> {}]
    /\ run' = [run EXCEPT !.pc = "copy"]
    /\ UNCHANGED <<today, kind, table, outdated, cursor, directory, log, runs, leftOut>>

CopyRows(part) ==
    /\ run.pc = "copy"
    /\ part \subseteq table
    /\ copy' = [copy EXCEPT !.rows = part]
    /\ run' = [run EXCEPT !.pc = IF part = table THEN "exchange" ELSE "cut copy"]
    /\ UNCHANGED <<today, kind, table, outdated, cursor, directory, log, runs, leftOut>>

ExchangeTables ==
    /\ run.pc = "exchange"
    /\ table' = copy.rows
    /\ copy' = [copy EXCEPT !.rows = table]
    /\ outdated' = FALSE
    /\ run' = [run EXCEPT !.pc = "exchanged"]
    /\ UNCHANGED <<today, kind, cursor, directory, log, runs, leftOut>>

DropCopy ==
    /\ run.pc = "exchanged"
    /\ copy' = NoCopy
    /\ run' = [run EXCEPT !.pc = "check"]
    /\ UNCHANGED <<today, kind, table, outdated, cursor, directory, log, runs, leftOut>>

--------------------------------------------------------------------------------
(* The items of a task. *)

SkipSuccessfulToday ==
    /\ run.pc = "check"
    /\ ~run.force
    /\ [scope |-> run.scope, on |-> today] \in log
    /\ run' = Idle
    /\ UNCHANGED <<today, kind, table, copy, outdated, cursor, directory, log, runs, leftOut>>

Limited(items) == IF run.scope.limit = 0 THEN items ELSE SubSeq(items, 1, 1)

Today(snapshot) == IF snapshot.day = today THEN snapshot.items ELSE {}

\* Symbols come from the latest snapshot, concepts from today's; the indexes are fixed.
Resolved ==
    IF kind = "index" THEN Symbols
    ELSE IF OfConcepts THEN Today(directory)
    ELSE directory.items

Due == run.pc = "check" /\ (run.force \/ [scope |-> run.scope, on |-> today] \notin log)

Work(items) == run' = [run EXCEPT !.pc = "item", !.items = items, !.todo = items]

ResolveItems ==
    /\ Due
    /\ run.scope.task = "task"
    /\ Resolved # {}
    /\ Work(Limited(SetToSeq(Resolved)))
    /\ UNCHANGED <<today, kind, table, copy, outdated, cursor, directory, log, runs, leftOut>>

\* A directory is fetched and saved first. A directory of symbols is saved within the limit of
\* the task that needs it, one of concepts within the limit of its own task only.
\* An insertion cut short leaves a part of the snapshot.
FetchDirectory(part) ==
    LET listed == SetToSeq(Symbols)
        saved == IF OfConcepts /\ run.scope.task = "task" THEN listed ELSE Limited(listed)
    IN  /\ Due
        /\ run.scope.task = "directory" \/ Resolved = {}
        /\ part \subseteq ToSet(saved)
        /\ directory' = [day |-> today, items |-> part \union Today(directory)]
        /\ IF part # ToSet(saved) THEN run' = Idle
           ELSE IF run.scope.task = "task" THEN Work(Limited(saved))
           ELSE run' = [run EXCEPT !.pc = "log"]
        /\ UNCHANGED <<today, kind, table, copy, outdated, cursor, log, runs, leftOut>>

EffectiveStart(i) ==
    IF run.force \/ cursor[i] = 0 THEN run.scope.begin ELSE Larger(run.scope.begin, cursor[i] + 1)

Item == Head(run.todo)
Turn == run.pc = "item" /\ run.todo # <<>>

SkipItem ==
    /\ Turn
    /\ HasCursor
    /\ EffectiveStart(Item) > run.scope.end
    /\ run' = [run EXCEPT !.todo = Tail(@)]
    /\ UNCHANGED <<today, kind, table, copy, outdated, cursor, directory, log, runs, leftOut>>

Requesting == Turn /\ (HasCursor => EffectiveStart(Item) <= run.scope.end)

Answers ==
    LET asked == IF HasCursor THEN {Item} \X (EffectiveStart(Item)..run.scope.end) ELSE {}
    IN  {{x \in asked : x[2] < today}, asked}

Fetch(answer) ==
    /\ Requesting
    /\ run' = [run EXCEPT !.pc = "save", !.rows = answer]
    /\ UNCHANGED <<today, kind, table, copy, outdated, cursor, directory, log, runs, leftOut>>

SaveFrame(part) ==
    /\ run.pc = "save"
    /\ part \subseteq run.rows
    /\ \A x \in part, y \in run.rows \ part : x[2] < y[2]
    /\ table' = table \union part
    /\ run' = [run EXCEPT !.pc = IF part = run.rows THEN "cursor" ELSE "cut"]
    /\ UNCHANGED <<today, kind, copy, outdated, cursor, directory, log, runs, leftOut>>

ItemDone == run' = [run EXCEPT !.pc = "item", !.todo = Tail(@), !.rows = {},
                               !.succeeded = @ + 1, !.consecutive = 0]

\* Mutant: the cursor moves to the end of the window that was asked for.
MutantCursorToEnd ==
    /\ run.pc = "cursor"
    /\ cursor' = [cursor EXCEPT ![Item] = Larger(@, run.scope.end)]
    /\ leftOut' = leftOut \union
          {<<Item, d>> : d \in {e \in Days : cursor[Item] < e /\ e < run.scope.begin}}
    /\ ItemDone
    /\ UNCHANGED <<today, kind, table, copy, outdated, directory, log, runs>>

\* The table of cursors is read by its maximum, so a shorter run does not move a cursor back. A
\* merge of the table may: it keeps the entry written last. That is left out, since the runner
\* then only asks again for days it has.
UpsertTaskCursor ==
    /\ run.pc = "cursor"
    /\ LET newest == Latest({x[2] : x \in run.rows})
       IN  /\ cursor' = [cursor EXCEPT ![Item] = Larger(@, newest)]
           /\ leftOut' = leftOut \union
                 {<<Item, d>> : d \in {e \in Days : newest > 0 /\ cursor[Item] < e /\ e < run.scope.begin}}
    /\ ItemDone
    /\ UNCHANGED <<today, kind, table, copy, outdated, directory, log, runs>>

--------------------------------------------------------------------------------
(* Failures and ends. *)

\* run_sync_args logs the failure and raises it again.
TaskFails == run' = Idle

\* With continue_on_error an item that fails is passed over, until the circuit opens.
ItemFails ==
    /\ Requesting \/ run.pc \in {"save", "cut", "cursor"}
    /\ IF ~run.goOn \/ (kind # "index" /\ run.consecutive + 1 >= CircuitAt) THEN TaskFails
       ELSE run' = [run EXCEPT !.pc = "item", !.todo = Tail(@), !.rows = {},
                               !.failures = @ \union {Item}, !.consecutive = @ + 1]
    /\ UNCHANGED <<today, kind, table, copy, outdated, cursor, directory, log, runs, leftOut>>

AllFailed == run.failures # {} /\ run.succeeded = 0

RaiseIfAllFailed ==
    /\ run.pc = "item" /\ run.todo = <<>>
    /\ AllFailed
    /\ TaskFails
    /\ UNCHANGED <<today, kind, table, copy, outdated, cursor, directory, log, runs, leftOut>>

FinishPass ==
    /\ run.pc = "item" /\ run.todo = <<>>
    /\ ~AllFailed
    /\ run' = IF run.passes = 1 THEN [run EXCEPT !.pc = "log"]
              ELSE [run EXCEPT !.passes = @ - 1, !.todo = run.items,
                               !.succeeded = 0, !.failures = {}, !.consecutive = 0]
    /\ UNCHANGED <<today, kind, table, copy, outdated, cursor, directory, log, runs, leftOut>>

LogSuccess ==
    /\ run.pc = "log"
    /\ log' = log \union {[scope |-> run.scope, on |-> today]}
    /\ run' = Idle
    /\ UNCHANGED <<today, kind, table, copy, outdated, cursor, directory, runs, leftOut>>

\* A kill, or an error where none is caught: while tables are opened or items resolved, or the
\* log entry itself.
Killed ==
    /\ run.pc # "idle"
    /\ run' = Idle
    /\ UNCHANGED <<today, kind, table, copy, outdated, cursor, directory, log, runs, leftOut>>

\* A new version of the program removes columns.
Upgrade ==
    /\ run.pc = "idle"
    /\ ~outdated
    /\ outdated' = TRUE
    /\ UNCHANGED <<today, kind, table, copy, cursor, directory, log, run, runs, leftOut>>

Tick == today < LastDay /\ today' = today + 1
        /\ UNCHANGED <<kind, table, copy, outdated, cursor, directory, log, run, runs, leftOut>>

Init ==
    /\ today = 1
    /\ kind \in Kinds
    /\ table = {}
    /\ copy = NoCopy
    /\ outdated = FALSE
    /\ cursor = [i \in Symbols |-> 0]
    /\ directory = [day |-> 0, items |-> {}]
    /\ log = {}
    /\ run = Idle
    /\ runs = 0
    /\ leftOut = {}

Next ==
    \/ \E task \in {"task", "directory"}, begin, end \in Days, limit \in {0, 1}, force, goOn \in BOOLEAN :
          StartRun(task, begin, end, limit, force, goOn)
    \/ MigrateNothing
    \/ CreateCopy
    \/ run.pc = "copy" /\ \E part \in SUBSET table : CopyRows(part)
    \/ ExchangeTables
    \/ DropCopy
    \/ SkipSuccessfulToday
    \/ ResolveItems
    \/ Due /\ \E part \in (SUBSET Symbols) \ {{}} : FetchDirectory(part)
    \/ SkipItem
    \/ Requesting /\ \E answer \in Answers : Fetch(answer)
    \/ run.pc = "save" /\ \E part \in SUBSET run.rows : SaveFrame(part)
    \/ UpsertTaskCursor
    \/ ItemFails
    \/ RaiseIfAllFailed
    \/ FinishPass
    \/ LogSuccess
    \/ Killed
    \/ Upgrade
    \/ Tick

Spec == Init /\ [][Next]_vars

--------------------------------------------------------------------------------
(* Properties. *)

\* Whatever was killed, failed or migrated, the only days missing behind a cursor are those a
\* caller's begin_date has passed over (_effective_start, upsert_task_cursor).
CursorLosesNothing ==
    \A i \in Symbols, d \in Days : d <= cursor[i] => <<i, d>> \in table \union leftOut

\* A task that succeeds, although some items may have failed and been passed over, has every past
\* day of its window for each of the others, save those passed over before.
SuccessIsComplete ==
    LogSuccess /\ HasCursor =>
        \A i \in ToSet(run.items) \ run.failures, d \in run.scope.begin..run.scope.end :
            d < run.day => <<i, d>> \in table \union leftOut
================================================================================
