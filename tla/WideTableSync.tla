------------------------------ MODULE WideTableSync ----------------------------
(* Wide tables: a payload defines a table as a query, and a run publishes it. A task batch and
   the inline endpoint of the service may run the same wide table, each in a process of its own
   and without a lock between them; both go by the latest row of the state table.

   A payload's version stands for its two signatures. The rows of a month of the source are
   inserted at once. A statement of ClickHouse takes effect whole or not at all, except for the
   RENAME of two tables, which is two renames: a reader may look and the run may end between
   them. *)
EXTENDS Integers, Sequences

CONSTANTS
    Writers,   \* the processes that may run the wide table
    Versions,  \* definitions of the table
    LastMonth, \* the source holds the months 1..source, up to this one
    MaxRuns    \* bound: runs started

VARIABLES
    catalog, \* what readers and writers find under the three names
    state,   \* the latest row of the state table; `listed` is history
    source,
    writer,
    runs,
    undone   \* history: a run ended otherwise than with success

vars == <<catalog, state, source, writer, runs, undone>>

WideTableMetadata == [version : Versions, valid : BOOLEAN, monthly : BOOLEAN, onItself : BOOLEAN]

Names == {"target", "tmp", "old"}
Absent == [layout |-> "absent", rows |-> {}]
Exists(name) == catalog[name] # Absent
Idle == [pc |-> "idle"]

--------------------------------------------------------------------------------
(* The statements of a run. *)

Drop(name) == <<[op |-> "drop", on |-> name]>>
Create(name) == <<[op |-> "create", on |-> name]>>
Truncate(name) == <<[op |-> "truncate", on |-> name]>>
Fill(name) == <<[op |-> "list", on |-> name], [op |-> "select", on |-> name]>>
Swap == <<[op |-> "backup", on |-> "target"], [op |-> "publish", on |-> "tmp"]>>

FullRefresh(name) == Create(name) \o Truncate(name) \o Fill(name)

\* Mutants: a swap before the new table is filled; one that a leftover table can block.
MutantSwapFirst == Drop("tmp") \o Drop("old") \o Create("tmp") \o Swap \o Fill("target") \o Drop("old")
MutantKeepOld == Drop("tmp") \o FullRefresh("tmp") \o Swap \o Drop("old")

Rebuild == Drop("tmp") \o Drop("old") \o FullRefresh("tmp") \o Swap \o Drop("old")

\* Mutant: a table is refilled without being created anew.
MutantRefreshOnly == FullRefresh("target")

DropAndRefresh == Drop("target") \o FullRefresh("target")

InsertByMonth(name) == [m \in 1..source |-> [op |-> "insert", on |-> name, month |-> m]]

\* Mutant: a changed definition is synced like an unchanged one.
MutantPlanAction(spec) ==
    CASE ~spec.valid -> "invalid"
      [] spec.valid /\ ~Exists("target") -> "create_and_sync"
      [] OTHER -> "sync"

PlanAction(spec) ==
    CASE ~spec.valid -> "invalid"
      [] spec.valid /\ ~Exists("target") -> "create_and_sync"
      [] spec.valid /\ Exists("target") /\ state.version # spec.version -> "rebuild"
      [] OTHER -> "sync"

--------------------------------------------------------------------------------
(* A run. *)

\* The lookups are read once, when the run begins.
Begin(w, spec) ==
    /\ writer[w].pc = "idle"
    /\ runs < MaxRuns
    /\ runs' = runs + 1
    /\ writer' = [writer EXCEPT ![w] =
         [pc |-> IF spec.valid THEN "planned" ELSE "failed", spec |-> spec, action |-> PlanAction(spec),
          todo |-> <<>>, swaps |-> FALSE, listed |-> 0, before |-> catalog["target"]]]
    /\ UNCHANGED <<catalog, state, source, undone>>

\* The new signatures are on record before the table has them.
SaveRunning(w) ==
    /\ writer[w].pc = "planned"
    /\ state' = [version |-> writer[w].spec.version, status |-> "running", listed |-> 0]
    /\ writer' = [writer EXCEPT ![w].pc = "saved"]
    /\ UNCHANGED <<catalog, source, runs, undone>>

ExecutePlan(w) ==
    LET swaps == writer[w].action = "rebuild" /\ Exists("target")
    IN  /\ writer[w].pc = "saved"
        /\ ~writer[w].spec.onItself
        /\ writer' = [writer EXCEPT ![w].pc = "execute", ![w].swaps = swaps,
                                    ![w].before = catalog["target"],
                                    ![w].todo = IF swaps THEN Rebuild ELSE DropAndRefresh]
        /\ UNCHANGED <<catalog, state, source, runs, undone>>

Executing(w, op) ==
    /\ writer[w].pc = "execute"
    /\ writer[w].todo # <<>>
    /\ Head(writer[w].todo).op = op

On(w) == Head(writer[w].todo).on
Done(w) == writer' = [writer EXCEPT ![w].todo = Tail(@)]

DropTable(w) ==
    /\ Executing(w, "drop")
    /\ catalog' = [catalog EXCEPT ![On(w)] = Absent]
    /\ Done(w)
    /\ UNCHANGED <<state, source, runs, undone>>

CreateTable(w) ==
    /\ Executing(w, "create")
    /\ catalog' = IF Exists(On(w)) THEN catalog
                  ELSE [catalog EXCEPT ![On(w)] = [layout |-> writer[w].spec.version, rows |-> {}]]
    /\ Done(w)
    /\ UNCHANGED <<state, source, runs, undone>>

TruncateTable(w) ==
    /\ Executing(w, "truncate")
    /\ Exists(On(w))
    /\ catalog' = [catalog EXCEPT ![On(w)].rows = {}]
    /\ Done(w)
    /\ UNCHANGED <<state, source, runs, undone>>

\* The months are those the source has now. Without months, or without a column to tell them
\* by, the insertion is a single one.
ListMonths(w) ==
    /\ Executing(w, "list")
    /\ IF writer[w].spec.monthly /\ source > 0
       THEN writer' = [writer EXCEPT ![w].listed = source,
                                     ![w].todo = InsertByMonth(On(w)) \o Tail(Tail(@))]
       ELSE Done(w)
    /\ UNCHANGED <<catalog, state, source, runs, undone>>

Rows(w, months) == {writer[w].spec.version} \X months

InsertMonth(w) ==
    /\ Executing(w, "insert")
    /\ Exists(On(w))
    /\ catalog' = [catalog EXCEPT ![On(w)].rows = @ \union Rows(w, {Head(writer[w].todo).month})]
    /\ Done(w)
    /\ UNCHANGED <<state, source, runs, undone>>

\* The source is read by the insertion itself.
InsertSelect(w) ==
    /\ Executing(w, "select")
    /\ Exists(On(w))
    /\ catalog' = [catalog EXCEPT ![On(w)].rows = @ \union Rows(w, 1..source)]
    /\ writer' = [writer EXCEPT ![w].listed = source, ![w].todo = Tail(@)]
    /\ UNCHANGED <<state, source, runs, undone>>

CanSetAside == Exists("target") /\ ~Exists("old")
CanPutInPlace == Exists("tmp") /\ ~Exists("target")

\* The two renames of the swap. When the second fails, the first is not taken back.
SetAside(w) ==
    /\ Executing(w, "backup")
    /\ CanSetAside
    /\ catalog' = [catalog EXCEPT !["old"] = catalog["target"], !["target"] = Absent]
    /\ Done(w)
    /\ UNCHANGED <<state, source, runs, undone>>

PutInPlace(w) ==
    /\ Executing(w, "publish")
    /\ CanPutInPlace
    /\ catalog' = [catalog EXCEPT !["target"] = catalog["tmp"], !["tmp"] = Absent]
    /\ Done(w)
    /\ UNCHANGED <<state, source, runs, undone>>

\* Any statement may fail, and the refusal to overwrite the base table is a failure.
StatementFails(w) ==
    /\ writer[w].pc \in {"saved", "execute"}
    /\ writer' = [writer EXCEPT ![w].pc = "failed"]
    /\ UNCHANGED <<catalog, state, source, runs, undone>>

SaveEnd(w) ==
    /\ \/ writer[w].pc = "failed"
       \/ writer[w].pc = "execute" /\ writer[w].todo = <<>>
    /\ state' = [version |-> writer[w].spec.version,
                 status |-> IF writer[w].pc = "failed" THEN "failed" ELSE "success",
                 listed |-> writer[w].listed]
    /\ writer' = [writer EXCEPT ![w] = Idle]
    /\ undone' = (undone \/ writer[w].pc = "failed")
    /\ UNCHANGED <<catalog, source, runs>>

\* The process dies, or the state table cannot be written.
Killed(w) ==
    /\ writer[w].pc # "idle"
    /\ writer' = [writer EXCEPT ![w] = Idle]
    /\ undone' = TRUE
    /\ UNCHANGED <<catalog, state, source, runs>>

SourceGrows ==
    /\ source < LastMonth
    /\ source' = source + 1
    /\ UNCHANGED <<catalog, state, writer, runs, undone>>

Init ==
    /\ catalog = [n \in Names |-> Absent]
    /\ state = [version |-> "none", status |-> "none", listed |-> 0]
    /\ source = 0
    /\ writer = [w \in Writers |-> Idle]
    /\ runs = 0
    /\ undone = FALSE

Next ==
    \/ \E w \in Writers, spec \in WideTableMetadata : Begin(w, spec)
    \/ \E w \in Writers :
          \/ SaveRunning(w)
          \/ ExecutePlan(w)
          \/ DropTable(w)
          \/ CreateTable(w)
          \/ TruncateTable(w)
          \/ ListMonths(w)
          \/ InsertMonth(w)
          \/ InsertSelect(w)
          \/ SetAside(w)
          \/ PutInPlace(w)
          \/ StatementFails(w)
          \/ SaveEnd(w)
          \/ Killed(w)
    \/ SourceGrows

Spec == Init /\ [][Next]_vars

--------------------------------------------------------------------------------
(* Properties. They hold when runs do not overlap, with one writer: two of them fill and swap
   the same temporary table. *)

Whole(version, listed) == [layout |-> version, rows |-> {version} \X (1..listed)]

\* When the state table says success, readers find the table of that version with every month
\* the run listed, whatever earlier runs left behind (run_wide_table_sync_payloads_with_clickhouse).
SuccessIsPublished ==
    state.status = "success" => catalog["target"] = Whole(state.version, state.listed)

\* While a table is rebuilt beside the one in use, or after such a rebuild has failed, readers
\* find the table as it was before or whole in the new version, or, between the two renames, none:
\* then both are there, whole, under the helper names (_rebuild_target_table). A run without a
\* swap, which an unchanged definition gets too, drops and refills the table readers have.
RebuildKeepsTable ==
    \A w \in Writers :
        writer[w].pc \in {"execute", "failed"} /\ writer[w].swaps =>
            LET before == writer[w].before
                after == Whole(writer[w].spec.version, writer[w].listed)
            IN  \/ catalog["target"] \in {before, after}
                \/ /\ catalog["target"] = Absent
                   /\ catalog["old"] = before /\ catalog["tmp"] = after

\* Temporary tables that a killed rebuild has left never stand in the way of the swap.
SwapIsNeverBlocked ==
    \A w \in Writers :
        /\ Executing(w, "backup") => CanSetAside /\ Exists("tmp")
        /\ Executing(w, "publish") => CanPutInPlace

\* A swap sets out with the table its own run has filled (_rebuild_target_table).
SwapTakesOwnTable ==
    [][\A w \in Writers :
          SetAside(w) /\ Exists("tmp")
          => catalog["tmp"] = Whole(writer[w].spec.version, writer[w].listed)]_vars

DropOfOwnVersion ==
    \A w \in Writers :
        DropTable(w) /\ On(w) = "target" /\ Exists("target") /\ ~undone
        => catalog["target"].layout = writer[w].spec.version

\* As long as every run succeeds, only a run of the definition it was built from drops the
\* published table: a changed definition arrives by a swap (plan_wide_table_sync).
ChangeArrivesBySwap == [][DropOfOwnVersion]_vars
================================================================================
