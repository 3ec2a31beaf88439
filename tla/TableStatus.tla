------------------------------- MODULE TableStatus -----------------------------
(* What the page of tables is told: how far each table goes, and how its last synchronisation
   ended. Requests run concurrently, beside the tasks that change the table. The newest
   date is kept with a signature of the table's parts, so that only a table that has changed is
   asked for it; the outcome of a task is kept in a file of its own, one task writing it at
   a time. One table is modelled.

   A change gives the table a new signature and some newest date, 0 standing for no data. *)
EXTENDS Naturals, Sequences

CONSTANTS
    Requests,
    MaxDate,
    MaxChanges, MaxAttempts \* bounds

VARIABLES
    past,      \* the newest date under each signature so far, the present one last
    watermark, \* the cached [signature, date]
    request,
    file,      \* [status, success]: the last outcome, and the attempt that last succeeded
    temp,
    recorder,
    attempts,
    succeeded  \* history: the last attempt whose success was put into the file

vars == <<past, watermark, request, file, temp, recorder, attempts, succeeded>>

Idle == [pc |-> "idle"]
NoMark == [signature |-> 0, date |-> 0]
Signature == Len(past)
LatestDate == past[Signature]

Change(date) ==
    /\ Signature < MaxChanges
    /\ past' = Append(past, date)
    /\ UNCHANGED <<watermark, request, file, temp, recorder, attempts, succeeded>>

--------------------------------------------------------------------------------
(* A request. *)

StepTo(r, next) ==
    /\ request' = [request EXCEPT ![r] = next]
    /\ UNCHANGED <<past, file, temp, recorder, attempts, succeeded>>

ReadParts(r) ==
    /\ request[r].pc = "idle"
    /\ StepTo(r, [pc |-> "load", signature |-> Signature, data |-> LatestDate > 0])
    /\ UNCHANGED watermark

Shown(r, date) == [pc |-> "shown", signature |-> request[r].signature, date |-> date]

Current(r) == watermark.signature = request[r].signature

\* The name of the date's column is compared too (is_current_watermark): here it never changes.
UseWatermark(r) ==
    /\ request[r].pc = "load"
    /\ Current(r)
    /\ StepTo(r, Shown(r, watermark.date))
    /\ UNCHANGED watermark

\* Without access to the cache nothing is saved later either.
WatermarkStale(r, reachable) ==
    /\ request[r].pc = "load"
    /\ reachable => ~Current(r)
    /\ StepTo(r, [request[r] EXCEPT !.pc = IF reachable THEN "query" ELSE "query only"])
    /\ UNCHANGED watermark

\* A table that had no data is not asked.
QueryLatestDate(r) ==
    LET date == IF request[r].data THEN LatestDate ELSE 0
    IN  /\ request[r].pc \in {"query", "query only"}
        /\ StepTo(r, IF request[r].pc = "query only" THEN Shown(r, date)
                     ELSE [pc |-> "save", signature |-> request[r].signature, date |-> date])
        /\ UNCHANGED watermark

\* Mutant: the mark is kept under the signature the table has when it is saved.
MutantMark(r) == [signature |-> Signature, date |-> request[r].date]

Mark(r) == [signature |-> request[r].signature, date |-> request[r].date]

SaveWatermark(r) ==
    /\ request[r].pc = "save"
    /\ watermark' = Mark(r)
    /\ StepTo(r, Shown(r, request[r].date))

SaveFails(r) ==
    /\ request[r].pc = "save"
    /\ StepTo(r, Shown(r, request[r].date))
    /\ UNCHANGED watermark

\* Also when ClickHouse refuses one of the queries.
EndRequest(r) ==
    /\ request[r].pc # "idle"
    /\ StepTo(r, Idle)
    /\ UNCHANGED watermark

--------------------------------------------------------------------------------
(* The task that synchronises the table records that it runs, and how it has ended. *)

RecorderTo(next) ==
    /\ recorder' = next
    /\ UNCHANGED <<past, watermark, request>>

Record(attempt, status) == [pc |-> "read", attempt |-> attempt, status |-> status, success |-> 0]

\* A table that is up to date is recorded without an attempt to synchronise it.
StartTask(status) ==
    /\ recorder.pc = "idle"
    /\ attempts < MaxAttempts
    /\ status \in {"running", "skipped"}
    /\ attempts' = attempts + 1
    /\ RecorderTo(Record(attempts + 1, status))
    /\ UNCHANGED <<file, temp, succeeded>>

\* A file that cannot be read counts as an empty one (_read_path) and its success would be
\* forgotten; such errors are left out.
ReadState ==
    /\ recorder.pc = "read"
    /\ RecorderTo([recorder EXCEPT !.pc = "write", !.success = file.success])
    /\ UNCHANGED <<file, temp, attempts, succeeded>>

Succeeds == recorder.status \in {"success", "skipped"}

WriteTemp ==
    /\ recorder.pc = "write"
    /\ temp' = [status |-> IF Succeeds THEN "success" ELSE recorder.status,
                success |-> IF Succeeds THEN recorder.attempt ELSE recorder.success]
    /\ RecorderTo([recorder EXCEPT !.pc = "replace"])
    /\ UNCHANGED <<file, attempts, succeeded>>

AfterRecord == IF recorder.status = "running" THEN [recorder EXCEPT !.pc = "task"] ELSE Idle

ReplaceFile ==
    /\ recorder.pc = "replace"
    /\ file' = temp
    /\ succeeded' = IF Succeeds THEN recorder.attempt ELSE succeeded
    /\ RecorderTo(AfterRecord)
    /\ UNCHANGED <<temp, attempts>>

\* An error here is no error of the task.
RecordFails ==
    /\ recorder.pc \in {"write", "replace"}
    /\ RecorderTo(AfterRecord)
    /\ UNCHANGED <<file, temp, attempts, succeeded>>

EndTask(status) ==
    /\ recorder.pc = "task"
    /\ status \in {"success", "failed"}
    /\ RecorderTo(Record(recorder.attempt, status))
    /\ UNCHANGED <<file, temp, attempts, succeeded>>

Killed ==
    /\ recorder.pc # "idle"
    /\ RecorderTo(Idle)
    /\ UNCHANGED <<file, temp, attempts, succeeded>>

--------------------------------------------------------------------------------
Init ==
    /\ past \in {<<date>> : date \in 0..MaxDate}
    /\ watermark = NoMark
    /\ request = [r \in Requests |-> Idle]
    /\ file = [status |-> "none", success |-> 0]
    /\ temp = file
    /\ recorder = Idle
    /\ attempts = 0
    /\ succeeded = 0

Next ==
    \/ \E date \in 0..MaxDate : Change(date)
    \/ \E r \in Requests :
          \/ ReadParts(r)
          \/ UseWatermark(r)
          \/ \E reachable \in BOOLEAN : WatermarkStale(r, reachable)
          \/ QueryLatestDate(r)
          \/ SaveWatermark(r)
          \/ SaveFails(r)
          \/ EndRequest(r)
    \/ \E status \in {"running", "skipped"} : StartTask(status)
    \/ ReadState
    \/ WriteTemp
    \/ ReplaceFile
    \/ RecordFails
    \/ \E status \in {"success", "failed"} : EndTask(status)
    \/ Killed

Spec == Init /\ [][Next]_vars

--------------------------------------------------------------------------------
(* Properties. *)

\* The newest date of the table at some time since it had that signature.
Since(signature) == {past[i] : i \in signature..Signature}

\* The cached date of a table that has not changed is the table's; and a date that is shown was the
\* table's at some time during the request, whatever other requests have saved meanwhile
\* (is_current_watermark, sync_table_status).
DatesAreTrue ==
    /\ watermark.signature = Signature => watermark.date = LatestDate
    /\ \A r \in Requests : request[r].pc = "shown" => request[r].date \in Since(request[r].signature)

\* The file keeps the last success that was recorded, whichever attempts have failed or were
\* killed since, in the middle of a record too (TableCheckStateStore.record).
SuccessIsKept == file.success = succeeded

CheckedIsCurrent == DatesAreTrue /\ SuccessIsKept
================================================================================
