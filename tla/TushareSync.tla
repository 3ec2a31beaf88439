------------------------------ MODULE TushareSync ------------------------------
(* The Tushare runner: one process works through a batch of tasks, a task through a plan of
   requests, and the rows of each response are saved before the next request is made. There is
   no record of progress: where to resume is the largest date among the saved rows.

   `table` holds the rows of one task whose request mode is chosen once, `local` the codes in
   its universe source. A row of a past day is final; a row of today may be missing or early.
   Rows of one response are inserted in batches, in the order the service sent them: all at
   once, or first those of some one day. Plans ask from the first day to a day that has come.

   Left out: begin_date, limit and codes of the caller, and max_pages, which ends a listing of
   more pages than that (query_all). A task by code that finds no codes and does not need them
   asks by range, also where the code would go by slices. *)
EXTENDS Lists

CONSTANTS
    Codes,       \* securities
    LastDay,     \* the calendar is 1..LastDay
    Specs,       \* tasks explored: [mode, variants, required], where a variant is a combination
                 \* of parameters, as freq = week, month
    WindowDays,  \* window_days; 0 asks for the whole range at once
    CodeBatch,   \* codes in one request of a snapshot
    RowLimit,    \* rows after which the service cuts a response of several codes
    Budget,      \* max_requests_per_run
    Retries,     \* attempts after the first
    MaxRuns      \* bound: processes started

VARIABLES
    today,
    spec,    \* the task: its mode, its variants, whether a code is required
    table,   \* what is saved of each variant, code and day
    local,   \* codes in the saved universe source
    cache,   \* universe_cache of the process; empty stands for no entry
    run,     \* the process
    runs,    \* processes started so far
    stops    \* history: what has cut a run of the task short

vars == <<today, spec, table, local, cache, run, runs, stops>>

Days == 1..LastDay
Least(a, b) == IF a < b THEN a ELSE b
Latest(S) == IF S = {} THEN 0 ELSE CHOOSE d \in S : \A e \in S : e <= d

Options == {o \in [resume : BOOLEAN, force : BOOLEAN, goOn : BOOLEAN] : ~(o.resume /\ o.force)}
Idle == [pc |-> "idle"]

--------------------------------------------------------------------------------
(* Cursors and plans. *)

LatestCursor(codes) ==
    Latest({d \in Days : \E v \in spec.variants, c \in codes : table[v, c, d] # "none"})

AtEnd(cursor) ==
    /\ ~run.opts.force
    /\ cursor > run.end \/ (run.opts.resume /\ cursor > 0 /\ cursor >= run.end)

Begin(cursor) == IF run.opts.force \/ cursor = 0 THEN 1 ELSE cursor

DateWindows(first, last) ==
    IF WindowDays = 0 THEN <<first..last>>
    ELSE [k \in 1..((last - first) \div WindowDays + 1) |->
            (first + (k - 1) * WindowDays)..Least(last, first + k * WindowDays - 1)]

CursorValues(first, last) == [k \in 1..(last - first + 1) |-> {first + k - 1}]

ParamVariants == SetToSeq(spec.variants)

Call(v, codes, days) == [of |-> "task", variant |-> v, codes |-> codes, days |-> days]

\* Every element of s combined with every element of t, s outside.
Product(s, t, Op(_, _)) ==
    FlattenSeq([i \in DOMAIN s |-> [j \in DOMAIN t |-> Op(s[i], t[j])]])

RangeCalls(codes) ==
    LET cursor == LatestCursor(codes)
    IN  IF AtEnd(cursor) THEN <<>>
        ELSE Product(ParamVariants, DateWindows(Begin(cursor), run.end),
                     LAMBDA v, days : Call(v, codes, days))

SliceCalls ==
    LET cursor == LatestCursor(Codes)
    IN  IF AtEnd(cursor) THEN <<>>
        ELSE Product(CursorValues(Begin(cursor), run.end), ParamVariants,
                     LAMBDA days, v : Call(v, Codes, days))

CodeCalls(codes) ==
    LET order == SetToSeq(codes)
    IN  FlattenSeq([i \in DOMAIN order |-> RangeCalls({order[i]})])

CodeBatches(codes) ==
    LET order == SetToSeq(codes)
    IN  [k \in 1..((Len(order) - 1) \div CodeBatch + 1) |->
            {order[i] : i \in ((k - 1) * CodeBatch + 1)..Least(Len(order), k * CodeBatch)}]

SnapshotCalls(codes) ==
    Product(ParamVariants, CodeBatches(codes), LAMBDA v, cs : Call(v, cs, Days))

SourceCalls == <<[of |-> "source"]>>

NeedsCodes == spec.mode \in {"code_range", "snapshot"}

Batches == {<<"task">>} \union IF NeedsCodes THEN {<<"task", "source", "task">>} ELSE {}

ExecuteTask(codes) ==
    CASE spec.mode = "code_range" /\ codes # {} -> CodeCalls(codes)
      [] spec.mode = "snapshot" -> SnapshotCalls(codes)
      [] spec.mode = "date_slice" -> SliceCalls
      [] OTHER -> RangeCalls(Codes)

--------------------------------------------------------------------------------
(* One process. *)

StartRun(batch, opts, end) ==
    /\ run.pc = "idle"
    /\ runs < MaxRuns
    /\ end <= today
    /\ run' = [pc |-> "task", tasks |-> batch, opts |-> opts, end |-> end, day |-> today,
               codes |-> {}, calls |-> <<>>, rows |-> {}, resolving |-> FALSE,
               failed |-> FALSE, used |-> 0, tries |-> 0, asked |-> today, partial |-> FALSE]
    /\ runs' = runs + 1
    /\ cache' = {}
    /\ UNCHANGED <<today, spec, table, local, stops>>

Work(codes) ==
    run' = [run EXCEPT !.pc = "fetch", !.codes = codes, !.calls = ExecuteTask(codes),
                       !.resolving = FALSE, !.day = today, !.rows = {}]

\* The universe comes from the cache, else from the saved source, else the source is synced first.
BeginTask ==
    /\ run.pc = "task"
    /\ \/ /\ Head(run.tasks) = "source"
          /\ run' = [run EXCEPT !.pc = "fetch", !.calls = SourceCalls]
          /\ UNCHANGED cache
       \/ /\ Head(run.tasks) = "task"
          /\ ~NeedsCodes
          /\ Work(Codes)
          /\ UNCHANGED cache
       \/ /\ Head(run.tasks) = "task"
          /\ NeedsCodes
          /\ cache \union local # {}
          /\ cache' = IF cache = {} THEN local ELSE cache
          /\ Work(cache')
       \/ /\ Head(run.tasks) = "task"
          /\ NeedsCodes
          /\ cache \union local = {}
          /\ run' = [run EXCEPT !.pc = "fetch", !.calls = SourceCalls, !.resolving = TRUE]
          /\ UNCHANGED cache
    /\ UNCHANGED <<today, spec, table, local, runs, stops>>

NextTask(r) ==
    IF Len(r.tasks) = 1 THEN Idle
    ELSE [r EXCEPT !.pc = "task", !.tasks = Tail(@), !.calls = <<>>, !.rows = {},
                   !.resolving = FALSE, !.failed = FALSE, !.tries = 0]

\* run_sync_args logs the failure and raises it again; run_config_file goes on or ends.
TaskFails == run' = IF run.opts.goOn THEN NextTask(run) ELSE Idle

CutShort(kind) ==
    stops' = IF Head(run.calls).of = "source" THEN stops
             ELSE stops \union {kind} \union (IF run.pc = "more" THEN {"mid response"} ELSE {})

\* An error raised by the request or by the insertion at hand.
Raise(kind) ==
    /\ CutShort(kind)
    /\ IF run.resolving
       THEN run' = [run EXCEPT !.pc = "resolve", !.calls = <<>>, !.rows = {}, !.tries = 0]
       ELSE IF kind = "row" /\ spec.mode = "code_range" /\ run.opts.goOn
               /\ Head(run.calls).of = "task" /\ run.codes # {}
       THEN run' = [run EXCEPT !.pc = "fetch", !.rows = {}, !.failed = TRUE, !.tries = 0,
                               !.calls = Among(@, {q \in ToSet(@) : q.codes # Head(@).codes})]
       ELSE IF kind = "budget" THEN run' = Idle
       ELSE TaskFails
    /\ UNCHANGED <<today, spec, table, local, cache, runs>>

--------------------------------------------------------------------------------
(* Requests. *)

Past(q) == {<<q.variant, c, d>> : c \in q.codes, d \in {e \in q.days : e < today}}
Todays(q) == {<<q.variant, c, today>> : c \in IF today \in q.days THEN q.codes ELSE {}}

\* The service cuts a snapshot of several codes at its limit.
Responses(q) ==
    {rows \in {Past(q) \union early : early \in SUBSET Todays(q)} :
        \/ spec.mode # "snapshot"
        \/ Cardinality(q.codes) = 1
        \/ Cardinality(rows) < RowLimit}
    \union IF spec.mode = "snapshot" /\ Cardinality(q.codes) > 1
           THEN {rows \in SUBSET (Past(q) \union Todays(q)) : Cardinality(rows) = RowLimit}
           ELSE {}

PerCode(q) == LET order == SetToSeq(q.codes)
              IN  [i \in DOMAIN order |-> [q EXCEPT !.codes = {order[i]}]]

Requesting == run.pc = "fetch" /\ run.calls # <<>>

FetchRows(response) ==
    LET q == Head(run.calls)
        full == spec.mode = "snapshot" /\ Cardinality(q.codes) > 1
                /\ Cardinality(response) >= RowLimit
    IN  /\ Requesting
        /\ q.of = "task"
        /\ run.used < Budget
        /\ response \in Responses(q)
        /\ run' = [run EXCEPT
             !.used = @ + 1, !.tries = 0, !.asked = today,
             !.pc = IF full \/ response = {} THEN "fetch" ELSE "save",
             !.rows = IF full THEN {} ELSE response,
             !.calls = IF full THEN PerCode(q) \o Tail(@)
                       ELSE IF response = {} THEN Tail(@) ELSE @]
        /\ UNCHANGED <<today, spec, table, local, cache, runs, stops>>

\* One request of a universe source, as for the listed or the delisted codes, saved in the same
\* step: `more` are to follow. History: run.partial, a source task has saved only some of them.
FetchSource(listed, more) ==
    /\ Requesting
    /\ Head(run.calls).of = "source"
    /\ run.used < Budget
    /\ local \subseteq listed
    /\ local' = listed
    /\ run' = [run EXCEPT !.used = @ + 1, !.tries = 0,
                          !.calls = IF more THEN @ ELSE <<>>,
                          !.pc = IF run.resolving /\ ~more THEN "resolve" ELSE "fetch",
                          !.partial = IF run.resolving THEN @ ELSE more]
    /\ UNCHANGED <<today, spec, table, cache, runs, stops>>

RequestFails ==
    /\ Requesting
    /\ run.used < Budget
    /\ \/ /\ run.tries < Retries
          /\ run' = [run EXCEPT !.used = @ + 1, !.tries = @ + 1]
          /\ UNCHANGED <<today, spec, table, local, cache, runs, stops>>
       \/ /\ run.tries = Retries
          /\ Raise("api")

BudgetExceeded == Requesting /\ run.used = Budget /\ Raise("budget")

\* A row without its business key, or an insertion that fails.
RowFails ==
    /\ Requesting \/ run.pc \in {"save", "more"}
    /\ Raise("row")

InsertBatches == {run.rows} \union {{x \in run.rows : x[3] = d} : d \in {x[3] : x \in run.rows}}

SaveRows(part) ==
    /\ run.pc \in {"save", "more"}
    /\ part \in InsertBatches
    /\ table' = [x \in DOMAIN table |->
                    IF x \notin part THEN table[x]
                    ELSE IF x[3] < run.asked THEN "final" ELSE "early"]
    /\ LET rest == run.rows \ part
       IN  run' = [run EXCEPT !.rows = rest,
                              !.pc = IF rest = {} THEN "fetch" ELSE "more",
                              !.calls = IF rest = {} THEN Tail(@) ELSE @]
    /\ UNCHANGED <<today, spec, local, cache, runs, stops>>

\* The source has been read again, in whole, in part or not at all: the result is cached as it is.
ResolveUniverse ==
    /\ run.pc = "resolve"
    /\ cache' = local
    /\ IF local = {} /\ (spec.required \/ spec.mode = "snapshot") THEN TaskFails
       ELSE Work(local)
    /\ UNCHANGED <<today, spec, table, local, runs, stops>>

--------------------------------------------------------------------------------
(* Ends. *)

\* Mutant: the cached universe outlives a new sync of its source.
MutantKeepCache ==
    /\ run.pc = "fetch"
    /\ run.calls = <<>>
    /\ ~run.failed
    /\ run' = NextTask(run)
    /\ UNCHANGED <<today, spec, table, local, cache, runs, stops>>

FinishTask ==
    /\ run.pc = "fetch"
    /\ run.calls = <<>>
    /\ ~run.failed
    /\ run' = NextTask(run)
    /\ cache' = IF Head(run.tasks) = "source" THEN {} ELSE cache
    /\ UNCHANGED <<today, spec, table, local, runs, stops>>

FinishWithFailedCodes ==
    /\ run.pc = "fetch"
    /\ run.calls = <<>>
    /\ run.failed
    /\ TaskFails
    /\ UNCHANGED <<today, spec, table, local, cache, runs, stops>>

Killed ==
    /\ run.pc # "idle"
    /\ run' = Idle
    /\ stops' = IF run.pc \in {"fetch", "save", "more"} /\ run.calls # <<>> /\ Head(run.calls).of = "task"
                THEN stops \union {"kill"} \union (IF run.pc = "more" THEN {"mid response"} ELSE {})
                ELSE stops
    /\ UNCHANGED <<today, spec, table, local, cache, runs>>

Tick == today < LastDay /\ today' = today + 1
        /\ UNCHANGED <<spec, table, local, cache, run, runs, stops>>

Init ==
    /\ today = 1
    /\ spec \in Specs
    /\ table = [x \in spec.variants \X Codes \X Days |-> "none"]
    /\ local = {}
    /\ cache = {}
    /\ run = Idle
    /\ runs = 0
    /\ stops = {}

Next ==
    \/ \E b \in Batches, o \in Options, e \in Days : StartRun(b, o, e)
    \/ BeginTask
    \/ run.pc = "fetch" /\ run.calls # <<>> /\ Head(run.calls).of = "task"
       /\ \E rows \in Responses(Head(run.calls)) : FetchRows(rows)
    \/ \E listed \in SUBSET Codes, more \in BOOLEAN : FetchSource(listed, more)
    \/ RequestFails
    \/ BudgetExceeded
    \/ RowFails
    \/ run.pc \in {"save", "more"} /\ \E part \in InsertBatches : SaveRows(part)
    \/ ResolveUniverse
    \/ FinishTask
    \/ FinishWithFailedCodes
    \/ Killed
    \/ Tick

Spec == Init /\ [][Next]_vars

--------------------------------------------------------------------------------
(* Properties. *)

\* The codes one cursor stands for.
CursorScope(c) == IF NeedsCodes THEN {c} ELSE Codes

GapFree ==
    \A v \in spec.variants, c \in Codes, d \in Days :
        d < LatestCursor(CursorScope(c)) => table[v, c, d] = "final"

\* Rows may only be trusted behind the cursor if no batch of a response was lost, and if the
\* order of the requests lets one cursor stand for all variants.
CursorSpeaksForAll ==
    /\ "mid response" \notin stops
    /\ stops = {} \/ spec.mode = "date_slice" \/ Cardinality(spec.variants) = 1

\* However runs are cut short between requests, nothing before the resume position is missing
\* or left as it was while its day was not over (the resume of load_latest_cursor(s)).
ResumeLosesNothing ==
    run.pc = "idle" /\ spec.mode # "snapshot" /\ CursorSpeaksForAll => GapFree

\* A task that is logged as a success has every row of its window, save that a resumed task
\* does not look at the last day again.
SuccessIsComplete ==
    /\ FinishTask
    /\ Head(run.tasks) = "task"
    /\ CursorSpeaksForAll
    => \A v \in spec.variants, c \in IF run.codes = {} THEN Codes ELSE run.codes, d \in Days :
             d <= run.end /\ d < run.day /\ (run.opts.resume => d < run.end)
             => table[v, c, d] = "final"

\* A task over the saved universe that is logged as a success has the rows of every code saved
\* there, of those too that a source task of the same process has added between two such tasks
\* (_invalidate_universe_cache), unless that task ended with a part of its lists.
ListedCodesAreComplete ==
    /\ FinishTask
    /\ Head(run.tasks) = "task"
    /\ NeedsCodes
    /\ CursorSpeaksForAll
    /\ ~run.partial
    => \A v \in spec.variants, c \in local, d \in Days :
             d <= run.end /\ d < run.day /\ (run.opts.resume => d < run.end)
             => table[v, c, d] = "final"
================================================================================
