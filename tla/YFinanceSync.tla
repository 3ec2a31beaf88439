------------------------------ MODULE YFinanceSync -----------------------------
(* The yfinance runner: symbols whose history ends on the same day are asked for together, and
   those Yahoo leaves out of an answer once more, alone. A window ends with the last completed
   session, and a cursor per symbol follows the rows saved.

   What Yahoo answers for a symbol has no hole; of a session that is still open there is a
   provisional row. Rows of an answer are inserted one symbol after the
   other, oldest first, any number at a time. A day of the state is a session, so weekends are not
   among them: LatestCompletedDate computes the last completed one from the calendar of New York. *)
EXTENDS Lists

CONSTANTS
    Symbols,   \* symbols, or benchmarks of the groups
    LastDay,   \* the calendar is 1..LastDay
    EventDays, \* days with a corporate action
    Kinds,     \* "daily_kline", "corporate_actions", "group_daily", "fundamental"
    BatchSize,
    MaxRuns    \* bound: processes started

VARIABLES
    today,
    closed,   \* it is past the CloseBuffer of today's session
    kind,
    table,    \* <<symbol, day>> saved
    copy,     \* the migration table: [there, rows]
    layout,   \* columns to remove: "fetched_at", "source" or "none"
    cursor,   \* the table of cursors; 0 stands for none
    master,   \* symbols in the latest snapshot of symbol_master
    log,      \* successes: [scope, on]
    run,
    runs,
    leftOut,  \* history: <<symbol, day>> that a caller's begin_date has passed over
    early     \* history: <<symbol, day>> saved while the session was open

vars == <<today, closed, kind, table, copy, layout, cursor, master, log, run, runs, leftOut, early>>

Days == 1..LastDay
Larger(a, b) == IF a > b THEN a ELSE b
Smaller(a, b) == IF a < b THEN a ELSE b
Latest(S) == IF S = {} THEN 0 ELSE CHOOSE d \in S : \A e \in S : e <= d
Idle == [pc |-> "idle"]
NoCopy == [there |-> FALSE, rows |-> {}]

OfSymbols == kind \in {"daily_kline", "corporate_actions"}

\* A date of New York by its number, where 0 is a Monday, and a time by the minutes of its day.
DayMinutes == 24 * 60
CloseBuffer == 16 * 60 + 15
Weekend(date) == date % 7 \in {5, 6}

\* The last date that is neither on a weekend nor before its close.
LatestCompletedDate(date, time) ==
    LET candidate == IF Weekend(date) \/ time < CloseBuffer THEN date - 1 ELSE date
    IN  IF Weekend(candidate) THEN candidate - ((candidate % 7) - 4) ELSE candidate

\* Mutant: the calendar day of New York, whether its session is over or not.
MutantLatestCompleted == today

LatestCompleted == IF closed THEN today ELSE today - 1

\* The cursor, or else what the business table holds.
LatestCursor(s) ==
    IF cursor[s] > 0 THEN cursor[s] ELSE Latest({d \in Days : <<s, d>> \in table})

Kept(rows) == IF kind = "corporate_actions" THEN {x \in rows : x[2] \in EventDays} ELSE rows

--------------------------------------------------------------------------------
(* Opening the repository. *)

StartRun(begin, end, limit, force, goOn) ==
    /\ run.pc = "idle"
    /\ runs < MaxRuns
    /\ begin <= Smaller(end, LatestCompleted)
    /\ run' = [pc |-> "tables", force |-> force, goOn |-> goOn,
               scope |-> [begin |-> begin, end |-> Smaller(end, LatestCompleted), limit |-> limit],
               codes |-> {}, todo |-> <<>>, rows |-> {}, before |-> [s \in Symbols |-> 0],
               unresolved |-> {}, inserted |-> FALSE]
    /\ runs' = runs + 1
    /\ UNCHANGED <<today, closed, kind, table, copy, layout, cursor, master, log, leftOut, early>>

DropSourceColumn ==
    /\ run.pc = "tables"
    /\ layout # "fetched_at"
    /\ layout' = "none"
    /\ run' = [run EXCEPT !.pc = "check"]
    /\ UNCHANGED <<today, closed, kind, table, copy, cursor, master, log, runs, leftOut, early>>

CreateCopy ==
    /\ run.pc = "tables"
    /\ layout = "fetched_at"
    /\ copy' = [there |-> TRUE, rows |-> {}]
    /\ run' = [run EXCEPT !.pc = "copy"]
    /\ UNCHANGED <<today, closed, kind, table, layout, cursor, master, log, runs, leftOut, early>>

CopyRows(part) ==
    /\ run.pc = "copy"
    /\ part \subseteq table
    /\ copy' = [copy EXCEPT !.rows = part]
    /\ run' = [run EXCEPT !.pc = IF part = table THEN "exchange" ELSE "cut copy"]
    /\ UNCHANGED <<today, closed, kind, table, layout, cursor, master, log, runs, leftOut, early>>

ExchangeTables ==
    /\ run.pc = "exchange"
    /\ table' = copy.rows
    /\ copy' = [copy EXCEPT !.rows = table]
    /\ layout' = "none"
    /\ run' = [run EXCEPT !.pc = "exchanged"]
    /\ UNCHANGED <<today, closed, kind, cursor, master, log, runs, leftOut, early>>

DropCopy ==
    /\ run.pc = "exchanged"
    /\ copy' = NoCopy
    /\ run' = [run EXCEPT !.pc = "check"]
    /\ UNCHANGED <<today, closed, kind, table, layout, cursor, master, log, runs, leftOut, early>>

--------------------------------------------------------------------------------
(* Requests to make. *)

SucceededToday == ~run.force /\ [scope |-> run.scope, on |-> today] \in log

SkipSuccessfulToday ==
    /\ run.pc = "check"
    /\ SucceededToday
    /\ run' = Idle
    /\ UNCHANGED <<today, closed, kind, table, copy, layout, cursor, master, log, runs, leftOut, early>>

EffectiveStart(s) ==
    IF run.force \/ LatestCursor(s) = 0 THEN run.scope.begin
    ELSE Larger(run.scope.begin, LatestCursor(s) + 1)

Request(codes, first, alone) == [codes |-> codes, first |-> first, alone |-> alone]
Alone(codes, first) ==
    LET order == SetToSeq(codes) IN [i \in DOMAIN order |-> Request({order[i]}, first, TRUE)]

Chunks(codes, first) ==
    LET order == SetToSeq(codes)
    IN  [k \in 1..((Len(order) + BatchSize - 1) \div BatchSize) |->
            Request({order[i] : i \in ((k - 1) * BatchSize + 1)..Smaller(Len(order), k * BatchSize)},
                    first, FALSE)]

\* Windows by their first day; a symbol that is up to date is in none.
Windows(codes) ==
    FlattenSeq([d \in 1..run.scope.end |-> Chunks({s \in codes : EffectiveStart(s) = d}, d)])

Limited(items) == IF run.scope.limit = 0 THEN items ELSE SubSeq(items, 1, 1)

Plan(codes) ==
    run' = [run EXCEPT
        !.pc = "request", !.codes = codes,
        !.before = [s \in Symbols |-> LatestCursor(s)],
        !.todo = CASE OfSymbols -> Windows(codes)
                   [] kind = "group_daily" ->
                        FlattenSeq([i \in 1..Cardinality(Symbols) |->
                            LET s == SetToSeq(Symbols)[i]
                            IN  IF EffectiveStart(s) > run.scope.end THEN <<>>
                                ELSE <<Request({s}, EffectiveStart(s), FALSE)>>])
                   [] OTHER -> Alone(codes, run.scope.begin)]

ResolveSymbols ==
    /\ run.pc = "check" /\ ~SucceededToday
    /\ kind = "group_daily" \/ master # {}
    /\ Plan(IF kind = "group_daily" THEN Symbols ELSE ToSet(Limited(SetToSeq(master))))
    /\ UNCHANGED <<today, closed, kind, table, copy, layout, cursor, master, log, runs, leftOut, early>>

\* Without a saved master one is fetched within the limit and saved, or a part of it.
FetchMaster(part) ==
    LET listed == ToSet(Limited(SetToSeq(Symbols)))
    IN  /\ run.pc = "check" /\ ~SucceededToday
        /\ kind # "group_daily" /\ master = {}
        /\ part \subseteq listed
        /\ master' = part
        /\ IF part = listed THEN Plan(listed) ELSE run' = Idle
        /\ UNCHANGED <<today, closed, kind, table, copy, layout, cursor, log, runs, leftOut, early>>

--------------------------------------------------------------------------------
(* One request. *)

Q == Head(run.todo)
Requesting == run.pc = "request" /\ run.todo # <<>>

\* Yahoo leaves any symbols out, and the last days.
Fetch(covered, last) ==
    /\ Requesting
    /\ covered \subseteq Q.codes
    /\ run' = [run EXCEPT !.pc = "save",
                          !.rows = IF kind = "fundamental" THEN covered \X {0}
                                   ELSE covered \X (Q.first..last)]
    /\ UNCHANGED <<today, closed, kind, table, copy, layout, cursor, master, log, runs, leftOut, early>>

PassedOver(codes) == {x \in codes \X Days : run.before[x[1]] < x[2] /\ x[2] < run.scope.begin}

SaveFrame(part) ==
    /\ run.pc = "save"
    /\ part \subseteq run.rows
    /\ \A x \in part, y \in run.rows \ part : x[1] = y[1] => x[2] < y[2]
    /\ table' = IF kind = "fundamental" THEN table ELSE table \union Kept(part)
    /\ leftOut' = leftOut \union PassedOver({x[1] : x \in Kept(part)})
    /\ early' = early \union {x \in part : ~closed /\ x[2] = today}
    /\ run' = [run EXCEPT !.pc = IF part = run.rows THEN "cursor" ELSE "cut",
                          !.inserted = @ \/ part # {}]
    /\ UNCHANGED <<today, closed, kind, copy, layout, cursor, master, log, runs>>

Covered == {x[1] : x \in run.rows}
NeverSeen(codes) == {s \in codes : run.before[s] = 0}

\* What is asked again alone: the missing symbols, or, when nothing at all came back, those
\* without a history.
ToRetry ==
    LET missing == Q.codes \ Covered
    IN  IF ~OfSymbols \/ Q.alone THEN {}
        ELSE IF Covered = {} THEN NeverSeen(missing)
        ELSE missing

UpdateTaskCursors ==
    /\ run.pc = "cursor"
    /\ IF kind = "fundamental" THEN UNCHANGED <<cursor, leftOut>>
       ELSE /\ cursor' = [s \in Symbols |-> Larger(cursor[s], Latest({x[2] : x \in {r \in run.rows : r[1] = s}}))]
            /\ leftOut' = leftOut \union PassedOver(Covered)
    /\ run' = [run EXCEPT !.pc = "request", !.rows = {},
                          !.todo = Alone(ToRetry, Q.first) \o Tail(@),
                          !.unresolved = @ \union (IF OfSymbols /\ Q.alone THEN NeverSeen(Q.codes \ Covered) ELSE {})]
    /\ UNCHANGED <<today, closed, kind, table, copy, layout, master, log, runs, early>>

\* A batch that fails is asked for symbol by symbol; a symbol that fails alone is passed over,
\* whatever continue_on_error says, and makes the task fail if it has no history.
RequestFails ==
    /\ Requesting \/ run.pc \in {"save", "cut", "cursor"}
    /\ LET rest == [run EXCEPT !.pc = "request", !.rows = {}, !.todo = Tail(@)]
       IN  run' = CASE OfSymbols /\ Q.alone ->
                          [rest EXCEPT !.unresolved = @ \union NeverSeen(Q.codes)]
                    [] OfSymbols /\ ~Q.alone /\ run.goOn ->
                          [rest EXCEPT !.todo = Alone(Q.codes, Q.first) \o @]
                    [] kind = "group_daily" /\ run.goOn -> rest
                    [] kind = "fundamental" /\ run.goOn ->
                          [rest EXCEPT !.unresolved = @ \union Q.codes]
                    [] OTHER -> Idle
    /\ UNCHANGED <<today, closed, kind, table, copy, layout, cursor, master, log, runs, leftOut, early>>

--------------------------------------------------------------------------------
(* Ends. *)

Worked == run.pc = "request" /\ run.todo = <<>>
Fails == run.unresolved # {} \/ (kind = "fundamental" /\ ~run.inserted)

FailTask ==
    /\ Worked
    /\ Fails
    /\ run' = Idle
    /\ UNCHANGED <<today, closed, kind, table, copy, layout, cursor, master, log, runs, leftOut, early>>

LogSuccess ==
    /\ Worked
    /\ ~Fails
    /\ log' = log \union {[scope |-> run.scope, on |-> today]}
    /\ run' = Idle
    /\ UNCHANGED <<today, closed, kind, table, copy, layout, cursor, master, runs, leftOut, early>>

Killed ==
    /\ run.pc # "idle"
    /\ run' = Idle
    /\ UNCHANGED <<today, closed, kind, table, copy, layout, cursor, master, log, runs, leftOut, early>>

\* A new version of the program removes columns.
Upgrade(old) ==
    /\ run.pc = "idle"
    /\ layout = "none"
    /\ layout' = old
    /\ UNCHANGED <<today, closed, kind, table, copy, cursor, master, log, run, runs, leftOut, early>>

Tick ==
    /\ IF closed THEN today < LastDay /\ today' = today + 1 /\ closed' = FALSE
       ELSE closed' = TRUE /\ UNCHANGED today
    /\ UNCHANGED <<kind, table, copy, layout, cursor, master, log, run, runs, leftOut, early>>

Init ==
    /\ today = 1
    /\ closed = FALSE
    /\ kind \in Kinds
    /\ table = {}
    /\ copy = NoCopy
    /\ layout = "none"
    /\ cursor = [s \in Symbols |-> 0]
    /\ master = {}
    /\ log = {}
    /\ run = Idle
    /\ runs = 0
    /\ leftOut = {}
    /\ early = {}

Next ==
    \/ \E begin, end \in Days, limit \in {0, 1}, force, goOn \in BOOLEAN : StartRun(begin, end, limit, force, goOn)
    \/ DropSourceColumn
    \/ CreateCopy
    \/ run.pc = "copy" /\ \E part \in SUBSET table : CopyRows(part)
    \/ ExchangeTables
    \/ DropCopy
    \/ SkipSuccessfulToday
    \/ ResolveSymbols
    \/ run.pc = "check" /\ \E part \in (SUBSET Symbols) \ {{}} : FetchMaster(part)
    \/ Requesting /\ \E covered \in SUBSET Q.codes, last \in Q.first..run.scope.end : Fetch(covered, last)
    \/ run.pc = "save" /\ \E part \in SUBSET run.rows : SaveFrame(part)
    \/ UpdateTaskCursors
    \/ RequestFails
    \/ FailTask
    \/ LogSuccess
    \/ Killed
    \/ \E old \in {"fetched_at", "source"} : Upgrade(old)
    \/ Tick

Spec == Init /\ [][Next]_vars

--------------------------------------------------------------------------------
(* Properties. *)

\* Whatever was killed, failed or left out by Yahoo, the only rows missing behind the cursor are
\* those a caller's begin_date has passed over (_update_task_cursors, load_latest_cursor).
CursorLosesNothing ==
    \A x \in Kept(Symbols \X Days) : x[2] <= cursor[x[1]] => x \in table \union leftOut

\* No row of a session that is still open is saved: the cursor would keep it for good
\* (_request_meta, latest_completed_us_session_date).
OnlyCompletedSessions == early = {}

\* A task of symbols that is logged as a success leaves none of them without any history.
SuccessMeansHistory ==
    LogSuccess /\ OfSymbols => \A s \in run.codes : LatestCursor(s) > 0 \/ run.before[s] > 0
================================================================================
