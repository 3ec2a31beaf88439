-------------------------------- MODULE QmtSync --------------------------------
(* The QMT runner: a task is expanded into one request per market or symbol. Opening the
   repository rebuilds a business table whose columns are outdated and then clears the log of
   successes, in separate statements.

   A calendar task resumes after the largest saved date; a history task asks for its whole window
   again each day; a snapshot task is done once it has any row. The answer for a past day is
   whole, of today any part may be missing. Windows start at the first day. An answer is inserted
   in batches in the order the service sent it, which is taken to be the oldest row first. *)
EXTENDS Lists

CONSTANTS
    ItemSets,  \* what a task may be expanded into: sets of markets or symbols
    LastDay,   \* the calendar is 1..LastDay
    Kinds,     \* kinds of task explored: "calendar", "history", "snapshot"
    MaxRuns    \* bound: processes started

VARIABLES
    today,
    task,    \* its kind and its items
    layout,  \* of the business table: "current", "outdated" or "absent"
    table,   \* <<item, day>> saved
    log,     \* successes: [scope, on], and when the answer came: asked, which is history
    run,     \* the process
    runs,
    hidden   \* history: a process died between the drop of the table and the clearing of the log

vars == <<today, task, layout, table, log, run, runs, hidden>>

Days == 1..LastDay
Latest(S) == IF S = {} THEN 0 ELSE CHOOSE d \in S : \A e \in S : e <= d
Idle == [pc |-> "idle"]

--------------------------------------------------------------------------------
(* Opening the repository. *)

\* The plan of expand_task_args is the same in every run.
Expand == SetToSeq(task.items)

Open(force, goOn, end) ==
    /\ run.pc = "idle"
    /\ runs < MaxRuns
    /\ end <= today
    /\ run' = [pc |-> "tables", todo |-> Expand, force |-> force, goOn |-> goOn, end |-> end,
               rows |-> {}, scope |-> <<>>, asked |-> 0]
    /\ runs' = runs + 1
    /\ UNCHANGED <<today, task, layout, table, log, hidden>>

\* A log table with outdated columns is dropped and created.
RecreateStateTable ==
    /\ run.pc = "tables"
    /\ log # {}
    /\ log' = {}
    /\ UNCHANGED <<today, task, layout, table, run, runs, hidden>>

CreateTables ==
    /\ run.pc = "tables"
    /\ layout # "outdated"
    /\ layout' = "current"
    /\ run' = [run EXCEPT !.pc = "next"]
    /\ UNCHANGED <<today, task, table, log, runs, hidden>>

DropOutdated ==
    /\ run.pc = "tables"
    /\ layout = "outdated"
    /\ layout' = "absent"
    /\ table' = {}
    /\ run' = [run EXCEPT !.pc = "dropped"]
    /\ UNCHANGED <<today, task, log, runs, hidden>>

\* Mutant: the log of successes outlives the rows of the table.
MutantKeepLog ==
    /\ run.pc = "dropped"
    /\ layout' = "current"
    /\ run' = [run EXCEPT !.pc = "next"]
    /\ UNCHANGED <<today, task, table, log, runs, hidden>>

RecreateTable ==
    /\ run.pc = "dropped"
    /\ layout' = "current"
    /\ run' = [run EXCEPT !.pc = "recreated"]
    /\ UNCHANGED <<today, task, table, log, runs, hidden>>

TruncateLogs ==
    /\ run.pc = "recreated"
    /\ log' = {}
    /\ run' = [run EXCEPT !.pc = "next"]
    /\ UNCHANGED <<today, task, layout, table, runs, hidden>>

--------------------------------------------------------------------------------
(* Requests. *)

Turn == run.pc = "next" /\ run.todo # <<>>

\* load_latest_cursor narrows by symbol only: the markets of a calendar share one cursor.
LatestCursor == Latest({d \in Days : \E i \in task.items : <<i, d>> \in table})

Effective ==
    [item |-> Head(run.todo),
     first |-> IF task.kind = "calendar" /\ ~run.force THEN LatestCursor + 1 ELSE 1,
     last |-> run.end]

NoWindow == Effective.first > Effective.last

SuccessToday == ~run.force /\ \E e \in log : e.scope = Effective /\ e.on = today

HasTaskData ==
    /\ ~run.force
    /\ task.kind = "snapshot"
    /\ \E d \in Days : <<Head(run.todo), d>> \in table

Skip ==
    /\ Turn
    /\ NoWindow \/ SuccessToday \/ HasTaskData
    /\ run' = [run EXCEPT !.todo = Tail(@)]
    /\ UNCHANGED <<today, task, layout, table, log, runs, hidden>>

Due == Turn /\ ~(NoWindow \/ SuccessToday \/ HasTaskData)

Answers(q) ==
    {({q.item} \X {d \in q.first..q.last : d < today}) \union late :
        late \in {{}, {q.item} \X {d \in {today} : d <= q.last}}}

Fetch(answer) ==
    /\ Due
    /\ run' = [run EXCEPT !.pc = "save", !.rows = answer, !.scope = Effective, !.asked = today]
    /\ UNCHANGED <<today, task, layout, table, log, runs, hidden>>

\* One batch of the rows left, up to some day.
SaveRows(upto) ==
    LET batch == {x \in run.rows : x[2] <= upto}
        rest == run.rows \ batch
    IN  /\ run.pc = "save"
        /\ batch = {} => rest = {}
        /\ table' = table \union batch
        /\ run' = [run EXCEPT !.pc = IF rest = {} THEN "log" ELSE "save", !.rows = rest]
        /\ UNCHANGED <<today, task, layout, log, runs, hidden>>

LogSuccess ==
    /\ run.pc = "log"
    /\ log' = log \union {[scope |-> run.scope, on |-> today, asked |-> run.asked]}
    /\ run' = [run EXCEPT !.pc = "next", !.todo = Tail(@)]
    /\ UNCHANGED <<today, task, layout, table, runs, hidden>>

RequestFails ==
    /\ Due \/ run.pc \in {"save", "log"}
    /\ run' = IF run.goOn THEN [run EXCEPT !.pc = "next", !.todo = Tail(@), !.rows = {}] ELSE Idle
    /\ UNCHANGED <<today, task, layout, table, log, runs, hidden>>

EndRun ==
    /\ run.pc = "next"
    /\ run.todo = <<>>
    /\ run' = Idle
    /\ UNCHANGED <<today, task, layout, table, log, runs, hidden>>

--------------------------------------------------------------------------------
(* The world. *)

Killed ==
    /\ run.pc # "idle"
    /\ run' = Idle
    /\ hidden' = (hidden \/ run.pc \in {"dropped", "recreated"})
    /\ UNCHANGED <<today, task, layout, table, log, runs>>

\* A new version of the program expects other columns.
Upgrade ==
    /\ run.pc = "idle"
    /\ layout = "current"
    /\ layout' = "outdated"
    /\ UNCHANGED <<today, task, table, log, run, runs, hidden>>

Tick == today < LastDay /\ today' = today + 1
        /\ UNCHANGED <<task, layout, table, log, run, runs, hidden>>

Init ==
    /\ today = 1
    /\ task \in [kind : Kinds, items : ItemSets]
    /\ layout = "absent"
    /\ table = {}
    /\ log = {}
    /\ run = Idle
    /\ runs = 0
    /\ hidden = FALSE

Next ==
    \/ \E force, goOn \in BOOLEAN, end \in Days : Open(force, goOn, end)
    \/ RecreateStateTable
    \/ CreateTables
    \/ DropOutdated
    \/ RecreateTable
    \/ TruncateLogs
    \/ Skip
    \/ Turn /\ \E answer \in Answers(Effective) : Fetch(answer)
    \/ \E upto \in Days : SaveRows(upto)
    \/ LogSuccess
    \/ RequestFails
    \/ EndRun
    \/ Killed
    \/ Upgrade
    \/ Tick

Spec == Init /\ [][Next]_vars

--------------------------------------------------------------------------------
(* Properties. *)

CalendarHasNoHole ==
    task.kind = "calendar" /\ Cardinality(task.items) = 1
    => \A i \in task.items, d \in Days : d < LatestCursor => <<i, d>> \in table

\* While a process works, what the log calls a success is in the table, also after the table
\* has been dropped and rebuilt, unless a process died in the middle of the rebuilding.
LogTellsTruth ==
    run.pc = "next" /\ ~hidden =>
        \A e \in log, d \in Days :
            e.scope.first <= d /\ d <= e.scope.last /\ d < e.asked => <<e.scope.item, d>> \in table
================================================================================
