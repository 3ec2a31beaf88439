------------------------------- MODULE YahooSource -----------------------------
(* How the yfinance provider gets its answers, and how a task tells what it did without. A fetch is
   put together from parts, each a request of its own; some fetches go on without a part that
   fails and note it among the provider's diagnostics, which are one list for all tasks of a
   process and reach the log of the task that empties it. *)
EXTENDS Naturals, Sequences, Lists

CONSTANTS
    Etfs,             \* whose holdings make up the concepts
    Datasets,         \* of the analysts' estimates, the price targets last
    Symbols,          \* of a fundamental task, in order
    RateLimitRetries,
    NetworkRetries,
    MaxTasks          \* bound: tasks of a process

VARIABLES
    activeOnly,  \* sync.yfinance.active_symbols_only
    cache,       \* "finance database", "nasdaq" and "other": "unknown", "empty" or "rows"
    diagnostics, \* <<task, symbol, part>>
    call,        \* the fetch under way
    run,         \* the task
    calls        \* tasks started

vars == <<activeOnly, cache, diagnostics, call, run, calls>>

Idle == [pc |-> "idle"]
Directory == {"nasdaq", "other"}
Master == Directory \union {"finance database"}

--------------------------------------------------------------------------------
(* What is fetched. `tolerated`: parts it goes on without; `parsed`: those of which an answer
   that cannot be normalised is a failure of the part and not of the fetch; `needed`: of each of
   these sets, a part must have rows; `notesEmpty`: a part without rows is noted like one that
   failed. *)

Errors == {"rate limit", "malformed", "other"}

Plain ==
    [parts |-> <<"rows">>, tolerated |-> {}, parsed |-> {}, needed |-> {}, notesEmpty |-> FALSE]

FetchDaily == Plain
FetchCorporateActions == FetchDaily
FetchGroupDaily == FetchDaily
FetchFinancialMetrics == Plain
FetchEarningsCalendar == Plain
FetchInsiderTransactions == Plain
FetchFinancialStatement == [Plain EXCEPT !.parts = <<"annual", "quarterly">>]
FetchInstitutionalHolders == [Plain EXCEPT !.parts = <<"institution", "mutual fund">>]
FetchAnalystEstimates ==
    [Plain EXCEPT !.parts = Datasets, !.tolerated = ToSet(Datasets), !.parsed = {Datasets[Len(Datasets)]}]

FetchConceptMembership ==
    [parts |-> Etfs, tolerated |-> ToSet(Etfs), parsed |-> ToSet(Etfs), needed |-> {ToSet(Etfs)},
     notesEmpty |-> TRUE]

FetchSymbolMaster ==
    IF activeOnly
    THEN [Plain EXCEPT !.parts = <<"finance database", "nasdaq", "other">>,
                       !.tolerated = {"finance database"}, !.parsed = {"finance database"},
                       !.needed = {Directory}]
    ELSE [Plain EXCEPT !.parts = <<"finance database">>]

\* When no classified listing is stored: of one without sector and industry there is no membership.
FetchIndustryMembership == [FetchSymbolMaster EXCEPT !.needed = @ \union {{"finance database"}}]

FundamentalTasks ==
    {FetchFinancialStatement, FetchFinancialMetrics, FetchEarningsCalendar, FetchAnalystEstimates,
     FetchInstitutionalHolders, FetchInsiderTransactions}

SnapshotTasks == {FetchConceptMembership, FetchSymbolMaster, FetchIndustryMembership}

--------------------------------------------------------------------------------
(* A task. *)

Begin(request, symbol) ==
    [pc |-> "asking", request |-> request, symbol |-> symbol, todo |-> request.parts,
     attempts |-> 0, rows |-> {}, lost |-> {}]

\* What earlier tasks have left is dropped.
StartTask(request, symbols) ==
    /\ run.pc = "idle"
    /\ calls < MaxTasks
    /\ calls' = calls + 1
    /\ diagnostics' = {}
    /\ run' = [pc |-> "running", todo |-> symbols, request |-> request, lost |-> {}, failed |-> FALSE,
               fundamental |-> request \in FundamentalTasks]
    /\ call' = Begin(request, Head(symbols))
    /\ UNCHANGED <<activeOnly, cache>>

Note(parts) == diagnostics' = diagnostics \union ({calls} \X {call.symbol} \X parts)

Asking == call.pc = "asking" /\ call.todo # <<>>
Part == Head(call.todo)
PartDone(rows, lost) ==
    [call EXCEPT !.todo = Tail(@), !.attempts = 0, !.rows = @ \union rows, !.lost = @ \union lost]

\* Both directories are kept once both were read, if there is a row in them.
Remembered(c) ==
    IF Part = "finance database"
    THEN [cache EXCEPT ![Part] = IF Part \in c.rows THEN "rows" ELSE "empty"]
    ELSE IF Part = "other" /\ c.rows \intersect Directory # {}
    THEN [part \in Master |->
             IF part \in Directory THEN IF part \in c.rows THEN "rows" ELSE "empty" ELSE cache[part]]
    ELSE cache

PartAnswers(some) ==
    LET rows == IF some THEN {Part} ELSE {}
        lost == IF ~some /\ call.request.notesEmpty THEN {Part} ELSE {}
    IN  /\ Asking
        /\ Part \in Master => cache[Part] = "unknown"
        /\ call' = PartDone(rows, lost)
        /\ cache' = Remembered(call')
        /\ Note(lost)
        /\ UNCHANGED <<activeOnly, run, calls>>

ReadCache ==
    /\ Asking
    /\ Part \in Master
    /\ cache[Part] # "unknown"
    /\ call' = PartDone(IF cache[Part] = "rows" THEN {Part} ELSE {}, {})
    /\ UNCHANGED <<activeOnly, cache, diagnostics, run, calls>>

\* Yahoo is asked again after a rate limit only, a directory when it cannot be read, and
\* FinanceDatabase never; nobody after an answer that cannot be normalised.
RetriesAfter(error) ==
    CASE Part = "finance database" \/ error = "malformed" -> 0
      [] Part \in Directory /\ error # "malformed" -> NetworkRetries
      [] OTHER -> IF error = "rate limit" THEN RateLimitRetries ELSE 0

GoesOnWithout(error) ==
    /\ Part \in call.request.tolerated
    /\ error = "malformed" => Part \in call.request.parsed

PartFails(error) ==
    /\ Asking
    /\ Part \in Master => cache[Part] = "unknown"
    /\ IF call.attempts < RetriesAfter(error)
       THEN /\ call' = [call EXCEPT !.attempts = @ + 1]
            /\ UNCHANGED diagnostics
       ELSE IF GoesOnWithout(error)
       THEN /\ call' = PartDone({}, {Part})
            /\ Note({Part})
       ELSE /\ call' = [call EXCEPT !.pc = "refused"]
            /\ UNCHANGED diagnostics
    /\ UNCHANGED <<activeOnly, cache, run, calls>>

Outcome(c) ==
    IF \/ \E parts \in c.request.needed : parts \intersect c.rows = {}
       \/ c.rows = {} /\ c.lost # {}
    THEN "refused" ELSE "answered"

PutTogether ==
    /\ call.pc = "asking"
    /\ call.todo = <<>>
    /\ call' = [call EXCEPT !.pc = Outcome(call)]
    /\ UNCHANGED <<activeOnly, cache, diagnostics, run, calls>>

\* A fundamental task goes on with the next symbol, and notes a symbol without data and one refused.
FetchDone ==
    LET refused == call.pc = "refused"
        goesOn == Len(run.todo) > 1 /\ (run.fundamental \/ ~refused)
    IN  /\ call.pc \in {"answered", "refused"}
        /\ run' = [run EXCEPT !.pc = IF goesOn THEN "running" ELSE "ended",
                              !.todo = Tail(@),
                              !.failed = @ \/ refused,
                              !.lost = @ \union ({call.symbol} \X (call.lost \union IF refused THEN {"all"} ELSE {}))]
        /\ call' = IF goesOn THEN Begin(run.request, run.todo[2]) ELSE Idle
        /\ Note(IF run.fundamental /\ refused THEN {"all"} ELSE {})
        /\ UNCHANGED <<activeOnly, cache, calls>>

\* Mutant: a task that has raised leaves its diagnostics where they are.
MutantReported(r) == IF r.failed THEN {} ELSE diagnostics

Reported(r) == diagnostics

\* The diagnostics are written to the log however the task has ended.
EndTask ==
    /\ run.pc = "ended"
    /\ run' = [pc |-> "told", failed |-> run.failed, lost |-> run.lost, fundamental |-> run.fundamental,
               told |-> Reported(run)]
    /\ diagnostics' = {}
    /\ UNCHANGED <<activeOnly, cache, call, calls>>

NextTask ==
    /\ run.pc = "told"
    /\ run' = Idle
    /\ UNCHANGED <<activeOnly, cache, diagnostics, call, calls>>

Init ==
    /\ activeOnly \in BOOLEAN
    /\ cache = [part \in Master |-> "unknown"]
    /\ diagnostics = {}
    /\ call = Idle
    /\ run = Idle
    /\ calls = 0

Next ==
    \/ \E request \in FundamentalTasks : StartTask(request, Symbols)
    \/ \E request \in SnapshotTasks \union {FetchDaily} : StartTask(request, <<"all">>)
    \/ \E some \in BOOLEAN : PartAnswers(some)
    \/ ReadCache
    \/ \E error \in Errors : PartFails(error)
    \/ PutTogether
    \/ FetchDone
    \/ EndTask
    \/ NextTask

Spec == Init /\ [][Next]_vars

--------------------------------------------------------------------------------
(* Properties. *)

\* The log of a task names every part it went without, also of symbols before the one that
\* failed, and when the task itself has failed; and it names nothing of another task's
\* (run_registered_task and drain_diagnostics).
LossIsReported ==
    run.pc = "told" =>
        /\ \A x \in run.lost :
              \/ <<calls, x[1], x[2]>> \in run.told
              \/ run.failed /\ ~run.fundamental /\ x[2] = "all"
        /\ \A x \in run.told : x[1] = calls
================================================================================
