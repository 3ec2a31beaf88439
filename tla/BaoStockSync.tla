------------------------------ MODULE BaoStockSync -----------------------------
(* The BaoStock runner: one request per code, or one per day or period, each decided from
   what the tables hold when its turn comes: the largest saved date, the rows of the request
   itself, and the log of earlier successes.

   A unit is a day, or a quarter in the financial tasks. The answer for a past unit is whole; of
   the newest unit any codes may be missing, and what is answered is final. Rows of an answer
   are inserted oldest first, any number at a time. Requests of a code range start at the first unit. *)
EXTENDS Lists

CONSTANTS
    Codes,     \* the historical universe
    Current,   \* the current universe
    LastUnit,      \* units are 1..LastUnit
    Kinds,     \* kinds of task explored: "range", "day", "period"
    MaxRuns    \* bound: processes started

VARIABLES
    today,
    kind,    \* what identifies a request of the task
    table,   \* <<code, unit>> saved
    log,     \* successes: [scope, on], and when the answer came: asked, which is history
    run,     \* the process
    runs,
    stops    \* history: an insertion was cut short

vars == <<today, kind, table, log, run, runs, stops>>

Units == 1..LastUnit
Latest(S) == IF S = {} THEN 0 ELSE CHOOSE d \in S : \A e \in S : e <= d
Idle == [pc |-> "idle"]

--------------------------------------------------------------------------------
(* What the tables say. *)

LatestCursor(c) == Latest({u \in Units : <<c, u>> \in table})

\* The clauses of has_task_data_for_request: the quarterly tables have no request columns, so
\* only the code is left; a task by day without a code is identified by its day.
HasTaskData(q) ==
    CASE kind = "period" -> \E u \in Units : <<q.code, u>> \in table
      [] kind = "day"    -> \E c \in Codes : <<c, q.last>> \in table
      [] OTHER           -> FALSE

SucceededBefore(q) ==
    \E entry \in log : entry.scope = q /\ (q.last \in run.everlasting \/ entry.on = today)

ResolveCodes(mode) ==
    CASE mode = "current" -> Current
      [] mode = "historical" -> Codes
      [] mode = "missing" -> {c \in Codes : \A u \in Units : <<c, u>> \notin table}

--------------------------------------------------------------------------------
(* Plans. *)

Item(c, first, last) == [code |-> c, first |-> first, last |-> last]

LatestCompletedQuarter == today - 1

IncrementalPeriods(cursor) == [k \in 1..(LatestCompletedQuarter - cursor) |-> cursor + k]

FinancialItems(codes, force) ==
    LET order == SetToSeq(codes)
        cursor(c) == IF force THEN 0 ELSE LatestCursor(c)
    IN  FlattenSeq([i \in DOMAIN order |->
            LET periods == IncrementalPeriods(cursor(order[i]))
            IN  [k \in DOMAIN periods |-> Item(order[i], periods[k], periods[k])]])

CodeItems(codes, end) ==
    LET order == SetToSeq(codes) IN [i \in DOMAIN order |-> Item(order[i], 1, end)]

Plan(codes, end, force) ==
    CASE kind = "period" -> FinancialItems(codes, force)
      [] kind = "range"  -> CodeItems(codes, end)
      [] kind = "day"    -> <<Item("none", end, end)>>

\* resume holds for every period but the last completed one.
Everlasting(resume) ==
    IF kind = "period" THEN Units \ {LatestCompletedQuarter}
    ELSE IF resume THEN Units ELSE {}

\* History: the periods a run of a quarterly task should find saved or save.
CaughtUp(codes) == IF kind = "period" THEN codes \X (1..LatestCompletedQuarter - 1) ELSE {}

StartRun(mode, resume, force, goOn, end) ==
    /\ run.pc = "idle"
    /\ runs < MaxRuns
    /\ end <= today
    /\ run' = [pc |-> "next", todo |-> Plan(ResolveCodes(mode), end, force),
               everlasting |-> Everlasting(resume), force |-> force, goOn |-> goOn, rows |-> {}, asked |-> 0,
               wanted |-> CaughtUp(ResolveCodes(mode))]
    /\ runs' = runs + 1
    /\ UNCHANGED <<today, kind, table, log, stops>>

--------------------------------------------------------------------------------
(* One request. *)

Turn == run.pc = "next" /\ run.todo # <<>>

\* resolve_effective_request_meta: a range moves on to the unit after the cursor.
Effective ==
    LET q == Head(run.todo)
    IN  IF kind # "range" \/ run.force THEN q
        ELSE [q EXCEPT !.first = IF LatestCursor(q.code) + 1 > q.first
                                 THEN LatestCursor(q.code) + 1 ELSE q.first]

NoWindow == Effective.first > Effective.last
AlreadyThere == ~run.force /\ HasTaskData(Effective)
AlreadySuccess == ~run.force /\ SucceededBefore(Effective)

Skip == [run EXCEPT !.todo = Tail(@)]

SkipNoWindow == Turn /\ NoWindow /\ run' = Skip /\ UNCHANGED <<today, kind, table, log, runs, stops>>

SkipExisting ==
    /\ Turn /\ ~NoWindow /\ AlreadyThere
    /\ run' = Skip
    /\ UNCHANGED <<today, kind, table, log, runs, stops>>

SkipSuccessful ==
    /\ Turn /\ ~NoWindow /\ ~AlreadyThere /\ AlreadySuccess
    /\ run' = Skip
    /\ UNCHANGED <<today, kind, table, log, runs, stops>>

Newest == IF kind = "period" THEN today - 1 ELSE today

Answers(q) ==
    LET asked == (IF kind = "day" THEN Codes ELSE {q.code}) \X (q.first..q.last)
        whole == {x \in asked : x[2] < Newest}
        newest == {x \in asked : x[2] = Newest}
    IN  {whole, whole \union newest}

Due == Turn /\ ~NoWindow /\ ~AlreadyThere /\ ~AlreadySuccess

Fetch(answer) ==
    /\ Due
    /\ answer \in Answers(Effective)
    /\ run' = [run EXCEPT !.pc = "save", !.rows = answer, !.asked = today,
                          !.todo = <<Effective>> \o Tail(@)]
    /\ UNCHANGED <<today, kind, table, log, runs, stops>>

\* Whole, or up to some row: a kill or an error may follow.
SaveRows(part) ==
    /\ run.pc = "save"
    /\ part \subseteq run.rows
    /\ \A x \in part, y \in run.rows \ part : x[2] <= y[2]
    /\ table' = table \union part
    /\ run' = [run EXCEPT !.rows = @ \ part, !.pc = IF part = run.rows THEN "log" ELSE "cut"]
    /\ UNCHANGED <<today, kind, log, runs, stops>>

LogSuccess ==
    /\ run.pc = "log"
    /\ log' = log \union {[scope |-> Head(run.todo), on |-> today, asked |-> run.asked]}
    /\ run' = [run EXCEPT !.pc = "next", !.todo = Tail(@)]
    /\ UNCHANGED <<today, kind, table, runs, stops>>

CutShort == stops' = (stops \/ run.pc = "cut")

\* Fetch, insertion or the log entry fails: logged, and passed over with continue_on_error.
RequestFails ==
    /\ Due \/ run.pc \in {"save", "cut", "log"}
    /\ run' = IF run.goOn THEN [run EXCEPT !.pc = "next", !.todo = Tail(@), !.rows = {}, !.wanted = {}]
              ELSE Idle
    /\ CutShort
    /\ UNCHANGED <<today, kind, table, log, runs>>

EndRun ==
    /\ run.pc = "next"
    /\ run.todo = <<>>
    /\ run' = Idle
    /\ UNCHANGED <<today, kind, table, log, runs, stops>>

Killed ==
    /\ run.pc # "idle"
    /\ run' = Idle
    /\ CutShort
    /\ UNCHANGED <<today, kind, table, log, runs>>

Tick == today < LastUnit /\ today' = today + 1
        /\ UNCHANGED <<kind, table, log, run, runs, stops>>

Init ==
    /\ today = 1
    /\ kind \in Kinds
    /\ table = {}
    /\ log = {}
    /\ run = Idle
    /\ runs = 0
    /\ stops = FALSE

Next ==
    \/ \E mode \in {"current", "historical", "missing"}, resume, force, goOn \in BOOLEAN, end \in Units :
          StartRun(mode, resume, force, goOn, end)
    \/ SkipNoWindow
    \/ SkipExisting
    \/ SkipSuccessful
    \/ Turn /\ \E answer \in Answers(Effective) : Fetch(answer)
    \/ run.pc = "save" /\ \E part \in SUBSET run.rows : SaveRows(part)
    \/ LogSuccess
    \/ RequestFails
    \/ EndRun
    \/ Killed
    \/ Tick

Spec == Init /\ [][Next]_vars

--------------------------------------------------------------------------------
(* Properties. *)

\* Whatever stops a run and wherever, a code's rows have no hole before the largest saved date,
\* so the next run, which starts after it, misses nothing (tasks with a date range).
RangeHasNoHole ==
    kind = "range" => \A c \in Codes, u \in Units : u < LatestCursor(c) => <<c, u>> \in table

\* A logged success means that the rows the service had at the time are saved: an interrupted
\* or failing insertion is never logged as one.
LogTellsTruth ==
    \A e \in log, u \in Units :
        LET codes == IF kind = "day" THEN Codes ELSE {e.scope.code}
            whole == IF kind = "period" THEN e.asked - 1 ELSE e.asked
        IN  e.scope.first <= u /\ u <= e.scope.last /\ u < whole => codes \X {u} \subseteq table

\* A day that is skipped because it has rows has all of them, unless an insertion was cut short.
DaySkippedIsWhole ==
    SkipExisting /\ kind = "day" /\ ~stops => Codes \X {Head(run.todo).last} \subseteq table

\* A run of a quarterly task that nothing disturbs leaves every code with every period up to the
\* one before the last completed quarter (run_financial_incremental_task).
PeriodsAreCaughtUp ==
    [][EndRun /\ ~stops => run.wanted \subseteq table]_vars
================================================================================
