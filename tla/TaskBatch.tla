------------------------------- MODULE TaskBatch -------------------------------
(***************************************************************************)
(* service/task_batch.py: the process that runs the tasks of one provider  *)
(* one after the other and records each result in a file, with the part    *)
(* of service/job_manager.py that reads that file: the job's final status, *)
(* the requeue that lets an interrupted batch continue, and the retry of   *)
(* what failed.                                                            *)
(*                                                                         *)
(* Abstractions.                                                           *)
(*  - Tasks are numbered in the order of the batch.  Only enabled tasks    *)
(*    reach the process (create_task_batch_job), so the "disabled" branch  *)
(*    is left out.  Task identifiers are unique in a batch.                *)
(*  - The results file is replaced atomically: it is a value, as is the    *)
(*    record of the job, whose own writes are modelled in JobManager.      *)
(*  - A task's work is one step, between its start and its record: a stop  *)
(*    in between leaves work done that no file mentions.                   *)
(*  - failed and completed are only compared with zero.                    *)
(***************************************************************************)
EXTENDS Integers, FiniteSets

CONSTANTS
    NumTasks,         \* tasks of the batch as submitted
    Incremental,      \* tasks whose date_mode may find them up to date
    ContinueOnError,  \* the values continue_on_error may have
    MaxStops,         \* bound: times the process is stopped before it ends
    MaxRetries,       \* bound: calls of retry_failed_tasks
    Interrupts        \* may a BaseException (Ctrl-C, SystemExit) reach a task?

Tasks == 1..NumTasks

ASSUME BatchAssumption ==
    /\ NumTasks \in Nat \ {0} /\ Incremental \subseteq Tasks
    /\ ContinueOnError \subseteq BOOLEAN /\ Interrupts \in BOOLEAN
    /\ MaxStops \in Nat /\ MaxRetries \in Nat

Done     == {"success", "skipped"}
Recorded == Done \union {"failed", "pending"}
Results  == [Tasks -> Recorded \union {"none"}]
Terminal == {"success", "partial_success", "failed", "cancelled"}
Finished == {"success", "partial_success", "failed"}
Files    == [status : {"none", "running"} \union Finished, tasks : Results]
Nothing  == [t \in Tasks |-> "none"]
NoFile   == [status |-> "none", tasks |-> Nothing]

VARIABLES
    todo,       \* the payload's tasks
    continue,   \* payload["continue_on_error"]
    resume,     \* payload["resume_after_restart"]
    status,     \* the child's job record
    pc,         \* the process: "none", at the loop's head, in a task, before the
                \* write of its result, after a break, or gone with an exit code
    code,       \* that exit code
    previous,   \* previous_results, as far as they are skipped
    results,    \* results
    failed,     \* failed > 0
    completed,  \* completed > 0
    file,       \* the results file
    worked,     \* history: times the work of each task was done
    noted,      \* history: tasks this batch's file has called done
    settled,    \* history: tasks done at least once, in this batch or before a retry
    broken,     \* history: tasks a BaseException has ended
    stops, retries

process == <<pc, code, previous, results, failed, completed>>
payload == <<todo, continue, resume>>
history == <<worked, noted, settled, broken>>
vars    == <<payload, status, process, file, history, stops, retries>>

TypeOK ==
    /\ todo \subseteq Tasks /\ continue \in BOOLEAN /\ resume \in BOOLEAN
    /\ status \in {"queued", "running", "cancelling"} \union Terminal
    /\ pc \in {"none", "next", "task", "write", "break", "gone"}
    /\ code \in {0, 1, 2}
    /\ previous \in [Tasks -> Done \union {"none"}]
    /\ results \in Results
    /\ failed \in BOOLEAN /\ completed \in BOOLEAN
    /\ file \in Files
    /\ worked \in [Tasks -> Nat] /\ noted \subseteq Tasks /\ settled \subseteq Tasks
    /\ broken \subseteq Tasks
    /\ stops \in 0..MaxStops /\ retries \in 0..MaxRetries

-------------------------------------------------------------------------------
(* Helpers *)

DoneIn(rs) == {t \in Tasks : rs[t] \in Done}

\* The loop has come to t.
Reaches(t) ==
    /\ t \in todo /\ results[t] = "none"
    /\ \A u \in todo : u < t => results[u] # "none"

\* Mutants: a task that was up to date is forgotten; every recorded task is skipped.
MutantSuccessOnly(rs) == [t \in Tasks |-> IF rs[t] = "success" THEN rs[t] ELSE "none"]
MutantSkipRecorded(rs) == [t \in Tasks |-> IF rs[t] # "none" THEN "skipped" ELSE "none"]

\* _load_previous_results: what a resumed run will not execute again.
SkippedOnResume(rs) == [t \in Tasks |-> IF rs[t] \in Done THEN rs[t] ELSE "none"]

\* _write_results
Write(rs, st) ==
    /\ file' = [status |-> st, tasks |-> rs]
    /\ noted' = noted \union DoneIn(rs)

\* _aggregate_parent_results_locked, once the child has ended.
Aggregated(t) == IF file.tasks[t] = "none" THEN "not_run" ELSE file.tasks[t]

\* The tasks retry_failed_tasks selects.
Retryable == {t \in todo : Aggregated(t) \in {"failed", "not_run"}}

\* Mutant: a failure hides what succeeded.
MutantNoPartial == IF failed THEN 1 ELSE 0

\* The return code at the end of run_task_batch.
ReturnCode == IF ~failed THEN 0 ELSE IF completed THEN 2 ELSE 1

\* Mutant: another spelling.
MutantStatusOf(c) == CASE c = 0 -> "success" [] c = 2 -> "partial" [] OTHER -> "failed"

\* The status of the results file that goes with a return code.
StatusOf(c) == CASE c = 0 -> "success" [] c = 2 -> "partial_success" [] OTHER -> "failed"

-------------------------------------------------------------------------------
(* The process *)

\* _dispatch_next starts the process, which reads its payload.
Spawn ==
    /\ status = "queued"
    /\ status' = "running" /\ pc' = "next" /\ code' = 0
    /\ previous' = IF resume THEN SkippedOnResume(file.tasks) ELSE Nothing
    /\ results' = Nothing /\ failed' = FALSE /\ completed' = FALSE
    /\ UNCHANGED <<payload, file, history, stops, retries>>

\* Popen fails.
SpawnFails ==
    /\ status = "queued"
    /\ status' = "failed"
    /\ UNCHANGED <<payload, process, file, history, stops, retries>>

\* A task an earlier run of this batch completed keeps its record.
ResumeSkip(t) ==
    /\ pc = "next" /\ Reaches(t) /\ previous[t] # "none"
    /\ results' = [results EXCEPT ![t] = previous[t]]
    /\ completed' = TRUE
    /\ Write(results', "running")
    /\ UNCHANGED <<payload, status, pc, code, previous, failed, worked, settled,
                   broken, stops, retries>>

StartTask(t) ==
    /\ pc = "next" /\ Reaches(t) /\ previous[t] = "none"
    /\ pc' = "task"
    /\ UNCHANGED <<payload, status, code, previous, results, failed, completed,
                   file, history, stops, retries>>

\* _resolve_incremental_parameters finds nothing newer to fetch.
UpToDate(t) ==
    /\ pc = "task" /\ Reaches(t) /\ t \in Incremental
    /\ pc' = "next"
    /\ results' = [results EXCEPT ![t] = "skipped"]
    /\ completed' = TRUE
    /\ settled' = settled \union {t}
    /\ Write(results', "running")
    /\ UNCHANGED <<payload, status, code, previous, failed, worked, broken, stops, retries>>

TaskSucceeds(t) ==
    /\ pc = "task" /\ Reaches(t)
    /\ pc' = "write"
    /\ results' = [results EXCEPT ![t] = "success"]
    /\ completed' = TRUE
    /\ worked' = [worked EXCEPT ![t] = @ + 1]
    /\ settled' = settled \union {t}
    /\ UNCHANGED <<payload, status, code, previous, failed, file, noted, broken,
                   stops, retries>>

\* The task, or anything it needs, raises an Exception.
TaskFails(t) ==
    /\ pc = "task" /\ Reaches(t)
    /\ pc' = "write"
    /\ results' = [results EXCEPT ![t] = "failed"]
    /\ failed' = TRUE
    /\ UNCHANGED <<payload, status, code, previous, completed, file, history,
                   stops, retries>>

\* Mutant: the loop always goes on.
MutantNoBreak == "next"

\* The break that may follow a failure.
AfterResult == IF failed /\ ~continue THEN "break" ELSE "next"

\* The finally clause.
RecordResult ==
    /\ pc = "write"
    /\ Write(results, "running")
    /\ pc' = AfterResult
    /\ UNCHANGED <<payload, status, code, previous, results, failed, completed,
                   worked, settled, broken, stops, retries>>

\* A BaseException that is no Exception (Ctrl-C reaches the processes of the service)
\* leaves the task: the finally clause writes the result as it stands, and the process
\* ends with a code other than 0 and 2.
Interrupted(t) ==
    /\ Interrupts /\ stops < MaxStops
    /\ pc = "task" /\ Reaches(t)
    /\ results' = [results EXCEPT ![t] = "pending"]
    /\ Write(results', "running")
    /\ pc' = "gone" /\ code' = 1
    /\ broken' = broken \union {t}
    /\ stops' = stops + 1
    /\ UNCHANGED <<payload, status, previous, failed, completed, worked, settled,
                   retries>>

\* The end of run_task_batch.
EndBatch ==
    /\ \/ pc = "break"
       \/ pc = "next" /\ \A t \in todo : results[t] # "none"
    /\ Write(results, StatusOf(ReturnCode))
    /\ pc' = "gone" /\ code' = ReturnCode
    /\ UNCHANGED <<payload, status, previous, results, failed, completed, worked,
                   settled, broken, stops, retries>>

-------------------------------------------------------------------------------
(* What happens to the process, and the job manager's answers *)

\* The process is killed, or terminated by a cancellation.
Killed ==
    /\ pc \in {"next", "task", "write", "break"}
    /\ status = "running" => stops < MaxStops
    /\ pc' = "gone" /\ code' = 1
    /\ stops' = IF status = "running" THEN stops + 1 ELSE stops
    /\ UNCHANGED <<payload, status, previous, results, failed, completed, file,
                   history, retries>>

\* Mutant: a job being cancelled is not finished by its exit.
MutantRunningOnly == pc = "gone" /\ status = "running"

Ended == pc = "gone" /\ status \in {"running", "cancelling"}

\* _finish_executable_locked
Finish ==
    /\ Ended
    /\ status' = IF status = "cancelling" THEN "cancelled" ELSE StatusOf(code)
    /\ pc' = "none"
    /\ UNCHANGED <<payload, code, previous, results, failed, completed, file,
                   history, stops, retries>>

\* A graceful restart has stopped the process, or the process of a service that died
\* has ended, in whatever state: the job is queued again, to be resumed.
Requeue ==
    /\ status = "running" /\ stops < MaxStops
    /\ status' = "queued" /\ resume' = TRUE
    /\ pc' = "none"
    /\ stops' = stops + 1
    /\ UNCHANGED <<todo, continue, code, previous, results, failed, completed, file, history, retries>>

\* cancel_job
Cancel ==
    /\ status \in {"queued", "running"}
    /\ status' = IF status = "queued" THEN "cancelled" ELSE "cancelling"
    /\ UNCHANGED <<payload, process, file, history, stops, retries>>

\* retry_failed_tasks: a new batch, with a results file of its own.
RetryFailedTasks ==
    /\ status \in Terminal /\ Retryable # {} /\ retries < MaxRetries
    /\ retries' = retries + 1
    /\ todo' = Retryable /\ resume' = FALSE /\ status' = "queued"
    /\ file' = NoFile /\ noted' = {}
    /\ UNCHANGED <<continue, process, worked, settled, broken, stops>>

-------------------------------------------------------------------------------
Init ==
    /\ todo = Tasks /\ continue \in ContinueOnError /\ resume = FALSE
    /\ status = "queued"
    /\ pc = "none" /\ code = 0 /\ previous = Nothing /\ results = Nothing
    /\ failed = FALSE /\ completed = FALSE
    /\ file = NoFile
    /\ worked = [t \in Tasks |-> 0] /\ noted = {} /\ settled = {}
    /\ broken = {}
    /\ stops = 0 /\ retries = 0

ProcessStep ==
    \/ \E t \in Tasks : ResumeSkip(t)
    \/ \E t \in Tasks : StartTask(t)
    \/ \E t \in Tasks : UpToDate(t)
    \/ \E t \in Tasks : TaskSucceeds(t)
    \/ \E t \in Tasks : TaskFails(t)
    \/ RecordResult
    \/ EndBatch

Next ==
    \/ Spawn \/ SpawnFails
    \/ ProcessStep
    \/ \E t \in Tasks : Interrupted(t)
    \/ Killed \/ Finish \/ Requeue \/ Cancel \/ RetryFailedTasks

Spec == Init /\ [][Next]_vars

\* The job manager starts what is queued and notices what has ended (JobManager); the
\* process runs and each task ends.  Nothing has to stop it.
Fairness == WF_vars(Spawn) /\ WF_vars(ProcessStep) /\ WF_vars(Finish)

LiveSpec == Spec /\ Fairness

-------------------------------------------------------------------------------
(* Properties *)

\* What a final status promises of the tasks the results rs record.
Promised(st, rs) ==
    CASE st = "success"         -> \A t \in todo : rs[t] \in Done
      [] st = "partial_success" -> /\ \E t \in todo : rs[t] \in Done
                                  /\ \E t \in todo : rs[t] = "failed"
      [] OTHER                  -> TRUE

\* The status a job ends with, and the one its results file ends with, agree with the
\* task records a reader finds there, whatever was skipped by a resumed run: a success
\* has no task undone, a partial success has both kinds, a batch that ended failed by
\* itself has none done.
StatusTellsTruth ==
    /\ Promised(file.status, file.tasks)
    /\ file.status = "failed" => DoneIn(file.tasks) = {}
    /\ file.status \in Finished /\ continue => \A t \in todo : file.tasks[t] # "none"
    /\ status \in {"success", "partial_success"} => file.status = status

\* No task is lost: when a batch has ended, each task submitted has been done, is
\* offered to retry_failed_tasks, or was ended by a BaseException.
NothingLost ==
    status \in Terminal => Tasks = settled \union Retryable \union broken

\* Without continue_on_error nothing runs behind a failure, resumed or not.
StopsAtFirstFailure ==
    ~continue => \A t, u \in Tasks : t < u /\ results[t] = "failed" => results[u] = "none"

\* The work of a task the results file has called done is repeated only after the
\* process has been stopped twice: one stop loses nothing that was recorded.
OneStopLosesNothing ==
    [][\A t \in noted : worked'[t] > worked[t] => stops >= 2]_vars

\* Strengthenings that make the invariants above inductive.  The counters say what the
\* results say; the results of a process are a prefix of its tasks, and what any record
\* says has happened; a process belongs to a job that is running or being cancelled.
CountersAgree ==
    /\ failed <=> \E t \in Tasks : results[t] = "failed"
    /\ completed <=> \E t \in Tasks : results[t] \in Done
ResultsFollowLoop ==
    pc # "none" =>
        /\ \A t \in Tasks : results[t] # "none" => t \in todo
        /\ \A t \in todo, u \in Tasks : t < u /\ results[u] # "none" => results[t] # "none"
        /\ pc # "gone" => \A t \in Tasks : results[t] # "pending"
        /\ pc \in {"next", "task"} /\ ~continue => ~failed
        /\ pc = "break" => failed /\ ~continue
        /\ pc = "gone" /\ code # 1 => file.status = StatusOf(code)
RecordsHappened ==
    \A t \in Tasks :
        /\ previous[t] # "none" => t \in settled
        /\ results[t] \in Done \/ file.tasks[t] \in Done => t \in settled
        /\ results[t] = "pending" \/ file.tasks[t] = "pending" => t \in broken
        /\ t \in todo \union settled \union broken
ProcessBelongs == pc # "none" <=> status \in {"running", "cancelling"}
BatchInvariant ==
    /\ CountersAgree /\ ResultsFollowLoop /\ RecordsHappened /\ ProcessBelongs
    /\ StatusTellsTruth /\ StopsAtFirstFailure

\* What one stop cannot take away: the file, or what a resumed process has loaded of it
\* and has found since, holds everything the file has ever called done.
NotedIsKept ==
    /\ pc = "task" => \A t \in Tasks : Reaches(t) => previous[t] = "none"
    /\ pc # "none" /\ stops <= 1 => noted \subseteq DoneIn(previous) \union DoneIn(results)
    /\ pc # "none" /\ stops = 0 => previous = Nothing
    /\ status = "queued" /\ stops <= 1 => noted \subseteq DoneIn(file.tasks)
    /\ status = "queued" /\ stops <= 1 => resume \/ file = NoFile
    /\ stops = 0 => noted \subseteq DoneIn(file.tasks)
    /\ status = "queued" /\ stops = 0 => file = NoFile

\* Every batch ends, and so does every retry of it.
BatchEnds == status = "queued" ~> status \in Terminal
=============================================================================
