--------------------------- MODULE TaskBatchProofs ---------------------------
EXTENDS TaskBatch, TLAPS

USE DEF Tasks, payload, process, history

\* Every step keeps the types of the variables.
LEMMA TypeStep ==
  ASSUME TypeOK, [Next]_vars PROVE TypeOK'
<1>. USE BatchAssumption DEF TypeOK, Files, Results, Recorded, Done, Finished, Terminal
<1>1. ASSUME Spawn PROVE TypeOK'
  BY <1>1 DEF Spawn, SkippedOnResume, Nothing
<1>2. ASSUME SpawnFails PROVE TypeOK'
  BY <1>2 DEF SpawnFails
<1>3. ASSUME NEW t \in Tasks, ResumeSkip(t) PROVE TypeOK'
  BY <1>3 DEF ResumeSkip, Write, DoneIn
<1>4. ASSUME NEW t \in Tasks, StartTask(t) PROVE TypeOK'
  BY <1>4 DEF StartTask
<1>5. ASSUME NEW t \in Tasks, UpToDate(t) PROVE TypeOK'
  BY <1>5 DEF UpToDate, Write, DoneIn
<1>6. ASSUME NEW t \in Tasks, TaskSucceeds(t) PROVE TypeOK'
  BY <1>6 DEF TaskSucceeds
<1>7. ASSUME NEW t \in Tasks, TaskFails(t) PROVE TypeOK'
  BY <1>7 DEF TaskFails
<1>8. ASSUME RecordResult PROVE TypeOK'
  BY <1>8 DEF RecordResult, Write, DoneIn, AfterResult
<1>9. ASSUME EndBatch PROVE TypeOK'
  BY <1>9 DEF EndBatch, Write, DoneIn, ReturnCode, StatusOf
<1>10. ASSUME NEW t \in Tasks, Interrupted(t) PROVE TypeOK'
  <2>1. results' \in Results
    BY <1>10 DEF Interrupted
  <2>2. file' \in Files
    BY <1>10, <2>1 DEF Interrupted, Write
  <2>3. stops' \in 0..MaxStops
    BY <1>10 DEF Interrupted
  <2>4. broken' \subseteq Tasks
    BY <1>10 DEF Interrupted
  <2>5. noted' \subseteq Tasks
    BY <1>10 DEF Interrupted, Write, DoneIn
  <2>. HIDE DEF Results, Files
  <2>. QED BY <1>10, <2>1, <2>2, <2>3, <2>4, <2>5 DEF Interrupted
<1>11. ASSUME Killed PROVE TypeOK'
  BY <1>11 DEF Killed
<1>12. ASSUME Finish PROVE TypeOK'
  BY <1>12 DEF Finish, Ended, StatusOf
<1>13. ASSUME Requeue PROVE TypeOK'
  BY <1>13 DEF Requeue
<1>14. ASSUME Cancel PROVE TypeOK'
  BY <1>14 DEF Cancel
<1>15. ASSUME RetryFailedTasks PROVE TypeOK'
  <2>1. Nothing \in Results
    BY DEF Nothing
  <2>2. file' \in Files
    BY <1>15, <2>1 DEF RetryFailedTasks, NoFile
  <2>3. todo' \subseteq Tasks
    BY <1>15 DEF RetryFailedTasks, Retryable
  <2>4. retries' \in 0..MaxRetries
    BY <1>15 DEF RetryFailedTasks
  <2>. HIDE DEF Results, Files
  <2>. QED BY <1>15, <2>2, <2>3, <2>4 DEF RetryFailedTasks
<1>16. ASSUME UNCHANGED vars PROVE TypeOK'
  BY <1>16 DEF vars
<1>. QED
  BY <1>1, <1>2, <1>3, <1>4, <1>5, <1>6, <1>7, <1>8, <1>9, <1>10, <1>11, <1>12, <1>13,
       <1>14, <1>15, <1>16 DEF Next, ProcessStep

\* The counters keep saying what the results say.
LEMMA CountersStep ==
  ASSUME TypeOK, BatchInvariant, [Next]_vars PROVE CountersAgree'
<1>. USE DEF TypeOK, Files, Results, Recorded, Done, Finished, Terminal, BatchInvariant,
     CountersAgree, Reaches
<1>1. ASSUME Spawn PROVE CountersAgree'
  BY <1>1 DEF Spawn, SkippedOnResume, Nothing
<1>2. ASSUME SpawnFails PROVE CountersAgree'
  BY <1>2 DEF SpawnFails
<1>3. ASSUME NEW t \in Tasks, ResumeSkip(t) PROVE CountersAgree'
  BY <1>3 DEF ResumeSkip, Write
<1>4. ASSUME NEW t \in Tasks, StartTask(t) PROVE CountersAgree'
  BY <1>4 DEF StartTask
<1>5. ASSUME NEW t \in Tasks, UpToDate(t) PROVE CountersAgree'
  BY <1>5 DEF UpToDate, Write
<1>6. ASSUME NEW t \in Tasks, TaskSucceeds(t) PROVE CountersAgree'
  BY <1>6 DEF TaskSucceeds
<1>7. ASSUME NEW t \in Tasks, TaskFails(t) PROVE CountersAgree'
  BY <1>7 DEF TaskFails
<1>8. ASSUME RecordResult PROVE CountersAgree'
  BY <1>8 DEF RecordResult, Write, AfterResult
<1>9. ASSUME EndBatch PROVE CountersAgree'
  BY <1>9 DEF EndBatch, Write, ReturnCode, StatusOf
<1>10. ASSUME NEW t \in Tasks, Interrupted(t) PROVE CountersAgree'
  BY <1>10 DEF Interrupted, Write
<1>11. ASSUME Killed PROVE CountersAgree'
  BY <1>11 DEF Killed
<1>12. ASSUME Finish PROVE CountersAgree'
  BY <1>12 DEF Finish, Ended, StatusOf
<1>13. ASSUME Requeue PROVE CountersAgree'
  BY <1>13 DEF Requeue
<1>14. ASSUME Cancel PROVE CountersAgree'
  BY <1>14 DEF Cancel
<1>15. ASSUME RetryFailedTasks PROVE CountersAgree'
  BY <1>15 DEF RetryFailedTasks, Retryable, NoFile, Nothing, Aggregated
<1>16. ASSUME UNCHANGED vars PROVE CountersAgree'
  BY <1>16 DEF vars
<1>. QED
  BY <1>1, <1>2, <1>3, <1>4, <1>5, <1>6, <1>7, <1>8, <1>9, <1>10, <1>11, <1>12, <1>13,
       <1>14, <1>15, <1>16 DEF Next, ProcessStep

\* The results stay a prefix of the loop's tasks.
LEMMA LoopStep ==
  ASSUME TypeOK, BatchInvariant, [Next]_vars PROVE ResultsFollowLoop'
<1>. USE DEF TypeOK, Files, Results, Recorded, Done, Finished, Terminal, BatchInvariant,
     CountersAgree, ProcessBelongs, ResultsFollowLoop, Reaches
<1>1. ASSUME Spawn PROVE ResultsFollowLoop'
  BY <1>1 DEF Spawn, SkippedOnResume, Nothing
<1>2. ASSUME SpawnFails PROVE ResultsFollowLoop'
  BY <1>2 DEF SpawnFails
<1>3. ASSUME NEW t \in Tasks, ResumeSkip(t) PROVE ResultsFollowLoop'
  BY <1>3 DEF ResumeSkip, Write
<1>4. ASSUME NEW t \in Tasks, StartTask(t) PROVE ResultsFollowLoop'
  BY <1>4 DEF StartTask
<1>5. ASSUME NEW t \in Tasks, UpToDate(t) PROVE ResultsFollowLoop'
  BY <1>5 DEF UpToDate, Write
<1>6. ASSUME NEW t \in Tasks, TaskSucceeds(t) PROVE ResultsFollowLoop'
  BY <1>6 DEF TaskSucceeds
<1>7. ASSUME NEW t \in Tasks, TaskFails(t) PROVE ResultsFollowLoop'
  BY <1>7 DEF TaskFails
<1>8. ASSUME RecordResult PROVE ResultsFollowLoop'
  BY <1>8 DEF RecordResult, Write, AfterResult
<1>9. ASSUME EndBatch PROVE ResultsFollowLoop'
  BY <1>9 DEF EndBatch, Write, ReturnCode, StatusOf
<1>10. ASSUME NEW t \in Tasks, Interrupted(t) PROVE ResultsFollowLoop'
  BY <1>10 DEF Interrupted, Write
<1>11. ASSUME Killed PROVE ResultsFollowLoop'
  BY <1>11 DEF Killed
<1>12. ASSUME Finish PROVE ResultsFollowLoop'
  BY <1>12 DEF Finish, Ended, StatusOf
<1>13. ASSUME Requeue PROVE ResultsFollowLoop'
  BY <1>13 DEF Requeue
<1>14. ASSUME Cancel PROVE ResultsFollowLoop'
  BY <1>14 DEF Cancel
<1>15. ASSUME RetryFailedTasks PROVE ResultsFollowLoop'
  BY <1>15 DEF RetryFailedTasks, Retryable, NoFile, Nothing, Aggregated
<1>16. ASSUME UNCHANGED vars PROVE ResultsFollowLoop'
  BY <1>16 DEF vars
<1>. QED
  BY <1>1, <1>2, <1>3, <1>4, <1>5, <1>6, <1>7, <1>8, <1>9, <1>10, <1>11, <1>12, <1>13,
       <1>14, <1>15, <1>16 DEF Next, ProcessStep

\* Records keep telling what has happened.
LEMMA HappenedStep ==
  ASSUME TypeOK, BatchInvariant, [Next]_vars PROVE RecordsHappened'
<1>. USE DEF TypeOK, Files, Results, Recorded, Done, Finished, Terminal, BatchInvariant,
     RecordsHappened, Reaches
<1>1. ASSUME Spawn PROVE RecordsHappened'
  BY <1>1 DEF Spawn, SkippedOnResume, Nothing
<1>2. ASSUME SpawnFails PROVE RecordsHappened'
  BY <1>2 DEF SpawnFails
<1>3. ASSUME NEW t \in Tasks, ResumeSkip(t) PROVE RecordsHappened'
  BY <1>3 DEF ResumeSkip, Write
<1>4. ASSUME NEW t \in Tasks, StartTask(t) PROVE RecordsHappened'
  BY <1>4 DEF StartTask
<1>5. ASSUME NEW t \in Tasks, UpToDate(t) PROVE RecordsHappened'
  BY <1>5 DEF UpToDate, Write
<1>6. ASSUME NEW t \in Tasks, TaskSucceeds(t) PROVE RecordsHappened'
  BY <1>6 DEF TaskSucceeds
<1>7. ASSUME NEW t \in Tasks, TaskFails(t) PROVE RecordsHappened'
  BY <1>7 DEF TaskFails
<1>8. ASSUME RecordResult PROVE RecordsHappened'
  BY <1>8 DEF RecordResult, Write, AfterResult
<1>9. ASSUME EndBatch PROVE RecordsHappened'
  BY <1>9 DEF EndBatch, Write, ReturnCode, StatusOf
<1>10. ASSUME NEW t \in Tasks, Interrupted(t) PROVE RecordsHappened'
  BY <1>10 DEF Interrupted, Write
<1>11. ASSUME Killed PROVE RecordsHappened'
  BY <1>11 DEF Killed
<1>12. ASSUME Finish PROVE RecordsHappened'
  BY <1>12 DEF Finish, Ended, StatusOf
<1>13. ASSUME Requeue PROVE RecordsHappened'
  BY <1>13 DEF Requeue
<1>14. ASSUME Cancel PROVE RecordsHappened'
  BY <1>14 DEF Cancel
<1>15. ASSUME RetryFailedTasks PROVE RecordsHappened'
  BY <1>15 DEF RetryFailedTasks, Retryable, NoFile, Nothing, Aggregated
<1>16. ASSUME UNCHANGED vars PROVE RecordsHappened'
  BY <1>16 DEF vars
<1>. QED
  BY <1>1, <1>2, <1>3, <1>4, <1>5, <1>6, <1>7, <1>8, <1>9, <1>10, <1>11, <1>12, <1>13,
       <1>14, <1>15, <1>16 DEF Next, ProcessStep

\* A process keeps belonging to an active job.
LEMMA BelongsStep ==
  ASSUME TypeOK, BatchInvariant, [Next]_vars PROVE ProcessBelongs'
<1>. USE DEF TypeOK, Files, Results, Recorded, Done, Finished, Terminal, BatchInvariant,
     ProcessBelongs, ResultsFollowLoop
<1>1. ASSUME Spawn PROVE ProcessBelongs'
  BY <1>1 DEF Spawn, SkippedOnResume, Nothing
<1>2. ASSUME SpawnFails PROVE ProcessBelongs'
  BY <1>2 DEF SpawnFails
<1>3. ASSUME NEW t \in Tasks, ResumeSkip(t) PROVE ProcessBelongs'
  BY <1>3 DEF ResumeSkip, Write
<1>4. ASSUME NEW t \in Tasks, StartTask(t) PROVE ProcessBelongs'
  BY <1>4 DEF StartTask
<1>5. ASSUME NEW t \in Tasks, UpToDate(t) PROVE ProcessBelongs'
  BY <1>5 DEF UpToDate, Write
<1>6. ASSUME NEW t \in Tasks, TaskSucceeds(t) PROVE ProcessBelongs'
  BY <1>6 DEF TaskSucceeds
<1>7. ASSUME NEW t \in Tasks, TaskFails(t) PROVE ProcessBelongs'
  BY <1>7 DEF TaskFails
<1>8. ASSUME RecordResult PROVE ProcessBelongs'
  BY <1>8 DEF RecordResult, Write, AfterResult
<1>9. ASSUME EndBatch PROVE ProcessBelongs'
  BY <1>9 DEF EndBatch, Write, ReturnCode, StatusOf
<1>10. ASSUME NEW t \in Tasks, Interrupted(t) PROVE ProcessBelongs'
  BY <1>10 DEF Interrupted, Write
<1>11. ASSUME Killed PROVE ProcessBelongs'
  BY <1>11 DEF Killed
<1>12. ASSUME Finish PROVE ProcessBelongs'
  BY <1>12 DEF Finish, Ended, StatusOf
<1>13. ASSUME Requeue PROVE ProcessBelongs'
  BY <1>13 DEF Requeue
<1>14. ASSUME Cancel PROVE ProcessBelongs'
  BY <1>14 DEF Cancel
<1>15. ASSUME RetryFailedTasks PROVE ProcessBelongs'
  BY <1>15 DEF RetryFailedTasks, Retryable, NoFile, Nothing, Aggregated
<1>16. ASSUME UNCHANGED vars PROVE ProcessBelongs'
  BY <1>16 DEF vars
<1>. QED
  BY <1>1, <1>2, <1>3, <1>4, <1>5, <1>6, <1>7, <1>8, <1>9, <1>10, <1>11, <1>12, <1>13,
       <1>14, <1>15, <1>16 DEF Next, ProcessStep

\* The final statuses keep telling the truth.
LEMMA TruthStep ==
  ASSUME TypeOK, BatchInvariant, [Next]_vars PROVE StatusTellsTruth'
<1>. USE DEF TypeOK, Files, Results, Recorded, Done, Finished, Terminal, BatchInvariant,
     CountersAgree, ProcessBelongs, ResultsFollowLoop, StatusTellsTruth, Promised, DoneIn,
     StatusOf
<1>1. ASSUME Spawn PROVE StatusTellsTruth'
  BY <1>1 DEF Spawn, SkippedOnResume, Nothing
<1>2. ASSUME SpawnFails PROVE StatusTellsTruth'
  BY <1>2 DEF SpawnFails
<1>3. ASSUME NEW t \in Tasks, ResumeSkip(t) PROVE StatusTellsTruth'
  BY <1>3 DEF ResumeSkip, Write
<1>4. ASSUME NEW t \in Tasks, StartTask(t) PROVE StatusTellsTruth'
  BY <1>4 DEF StartTask
<1>5. ASSUME NEW t \in Tasks, UpToDate(t) PROVE StatusTellsTruth'
  BY <1>5 DEF UpToDate, Write
<1>6. ASSUME NEW t \in Tasks, TaskSucceeds(t) PROVE StatusTellsTruth'
  BY <1>6 DEF TaskSucceeds
<1>7. ASSUME NEW t \in Tasks, TaskFails(t) PROVE StatusTellsTruth'
  BY <1>7 DEF TaskFails
<1>8. ASSUME RecordResult PROVE StatusTellsTruth'
  BY <1>8 DEF RecordResult, Write, AfterResult
<1>9. ASSUME EndBatch PROVE StatusTellsTruth'
  BY <1>9 DEF EndBatch, Write, ReturnCode, StatusOf
<1>10. ASSUME NEW t \in Tasks, Interrupted(t) PROVE StatusTellsTruth'
  BY <1>10 DEF Interrupted, Write
<1>11. ASSUME Killed PROVE StatusTellsTruth'
  BY <1>11 DEF Killed
<1>12. ASSUME Finish PROVE StatusTellsTruth'
  BY <1>12 DEF Finish, Ended, StatusOf
<1>13. ASSUME Requeue PROVE StatusTellsTruth'
  BY <1>13 DEF Requeue
<1>14. ASSUME Cancel PROVE StatusTellsTruth'
  BY <1>14 DEF Cancel
<1>15. ASSUME RetryFailedTasks PROVE StatusTellsTruth'
  BY <1>15 DEF RetryFailedTasks, Retryable, NoFile, Nothing, Aggregated
<1>16. ASSUME UNCHANGED vars PROVE StatusTellsTruth'
  BY <1>16 DEF vars
<1>. QED
  BY <1>1, <1>2, <1>3, <1>4, <1>5, <1>6, <1>7, <1>8, <1>9, <1>10, <1>11, <1>12, <1>13,
       <1>14, <1>15, <1>16 DEF Next, ProcessStep

\* Nothing is recorded behind a failure.
LEMMA StopsStep ==
  ASSUME TypeOK, BatchInvariant, [Next]_vars PROVE StopsAtFirstFailure'
<1>. USE DEF TypeOK, Files, Results, Recorded, Done, Finished, Terminal, BatchInvariant,
     CountersAgree, ResultsFollowLoop, StopsAtFirstFailure, Reaches
<1>1. ASSUME Spawn PROVE StopsAtFirstFailure'
  BY <1>1 DEF Spawn, SkippedOnResume, Nothing
<1>2. ASSUME SpawnFails PROVE StopsAtFirstFailure'
  BY <1>2 DEF SpawnFails
<1>3. ASSUME NEW t \in Tasks, ResumeSkip(t) PROVE StopsAtFirstFailure'
  BY <1>3 DEF ResumeSkip, Write
<1>4. ASSUME NEW t \in Tasks, StartTask(t) PROVE StopsAtFirstFailure'
  BY <1>4 DEF StartTask
<1>5. ASSUME NEW t \in Tasks, UpToDate(t) PROVE StopsAtFirstFailure'
  BY <1>5 DEF UpToDate, Write
<1>6. ASSUME NEW t \in Tasks, TaskSucceeds(t) PROVE StopsAtFirstFailure'
  BY <1>6 DEF TaskSucceeds
<1>7. ASSUME NEW t \in Tasks, TaskFails(t) PROVE StopsAtFirstFailure'
  BY <1>7 DEF TaskFails
<1>8. ASSUME RecordResult PROVE StopsAtFirstFailure'
  BY <1>8 DEF RecordResult, Write, AfterResult
<1>9. ASSUME EndBatch PROVE StopsAtFirstFailure'
  BY <1>9 DEF EndBatch, Write, ReturnCode, StatusOf
<1>10. ASSUME NEW t \in Tasks, Interrupted(t) PROVE StopsAtFirstFailure'
  BY <1>10 DEF Interrupted, Write
<1>11. ASSUME Killed PROVE StopsAtFirstFailure'
  BY <1>11 DEF Killed
<1>12. ASSUME Finish PROVE StopsAtFirstFailure'
  BY <1>12 DEF Finish, Ended, StatusOf
<1>13. ASSUME Requeue PROVE StopsAtFirstFailure'
  BY <1>13 DEF Requeue
<1>14. ASSUME Cancel PROVE StopsAtFirstFailure'
  BY <1>14 DEF Cancel
<1>15. ASSUME RetryFailedTasks PROVE StopsAtFirstFailure'
  BY <1>15 DEF RetryFailedTasks, Retryable, NoFile, Nothing, Aggregated
<1>16. ASSUME UNCHANGED vars PROVE StopsAtFirstFailure'
  BY <1>16 DEF vars
<1>. QED
  BY <1>1, <1>2, <1>3, <1>4, <1>5, <1>6, <1>7, <1>8, <1>9, <1>10, <1>11, <1>12, <1>13,
       <1>14, <1>15, <1>16 DEF Next, ProcessStep

\* A batch without a results file has nothing done.
LEMMA NothingDone ==
  NoFile.tasks = Nothing /\ DoneIn(Nothing) = {} /\ SkippedOnResume(Nothing) = Nothing
BY DEF NoFile, Nothing, DoneIn, Done, SkippedOnResume

\* A write adds to what the file has called done nothing that the results do not hold.
LEMMA WriteKeeps ==
  ASSUME TypeOK, NotedIsKept, pc # "none", NEW st, Write(results', st),
         DoneIn(results) \subseteq DoneIn(results')
  PROVE  /\ stops <= 1 => noted' \subseteq DoneIn(previous) \union DoneIn(results')
         /\ stops = 0 => noted' \subseteq DoneIn(file.tasks')
<1>1. noted' = noted \union DoneIn(results') /\ file.tasks' = results'
  BY DEF Write
<1>2. stops <= 1 => noted \subseteq DoneIn(previous) \union DoneIn(results)
  BY DEF NotedIsKept
<1>3. stops = 0 => DoneIn(previous) = {}
  BY DEF NotedIsKept, DoneIn, Nothing, Done
<1>4. stops = 0 => stops <= 1
  BY DEF TypeOK
<1>. QED BY <1>1, <1>2, <1>3, <1>4

\* Setting the result of a task that has none forgets nothing done.
LEMMA SettingKeeps ==
  ASSUME TypeOK, NEW t \in Tasks, NEW r, Reaches(t), results' = [results EXCEPT ![t] = r]
  PROVE  DoneIn(results) \subseteq DoneIn(results')
BY DEF TypeOK, Results, DoneIn, Done, Reaches

\* What one stop cannot take away is kept.
LEMMA KeptStep ==
  ASSUME TypeOK, BatchInvariant, NotedIsKept, [Next]_vars PROVE NotedIsKept'
<1>. USE DEF BatchInvariant, ProcessBelongs, NotedIsKept
<1>1. ASSUME Spawn PROVE NotedIsKept'
  <2>1. CASE resume
    <3>1. DoneIn(previous') = DoneIn(file.tasks)
      BY <1>1, <2>1 DEF Spawn, SkippedOnResume, DoneIn, Done
    <3>2. stops = 0 => previous' = Nothing
      BY <1>1, <2>1, NothingDone DEF Spawn
    <3>. QED BY <1>1, <3>1, <3>2 DEF Spawn, TypeOK
  <2>2. CASE ~resume
    <3>1. previous' = Nothing
      BY <1>1, <2>2 DEF Spawn
    <3>2. stops <= 1 => noted = {}
      BY <1>1, <2>2, NothingDone DEF Spawn
    <3>. QED BY <1>1, <3>1, <3>2, NothingDone DEF Spawn, TypeOK
  <2>. QED BY <2>1, <2>2
<1>2. ASSUME SpawnFails PROVE NotedIsKept'
  BY <1>2 DEF SpawnFails, TypeOK
<1>3. ASSUME NEW t \in Tasks, ResumeSkip(t) PROVE NotedIsKept'
  BY <1>3, WriteKeeps, SettingKeeps DEF ResumeSkip, TypeOK
<1>4. ASSUME NEW t \in Tasks, StartTask(t) PROVE NotedIsKept'
  <2>1. \A u \in Tasks : Reaches(u)' => u = t
    BY <1>4 DEF StartTask, Reaches, TypeOK
  <2>. QED BY <1>4, <2>1 DEF StartTask, TypeOK, DoneIn
<1>5. ASSUME NEW t \in Tasks, UpToDate(t) PROVE NotedIsKept'
  BY <1>5, WriteKeeps, SettingKeeps DEF UpToDate, TypeOK
<1>6. ASSUME NEW t \in Tasks, TaskSucceeds(t) PROVE NotedIsKept'
  BY <1>6, SettingKeeps DEF TaskSucceeds, TypeOK, DoneIn
<1>7. ASSUME NEW t \in Tasks, TaskFails(t) PROVE NotedIsKept'
  BY <1>7, SettingKeeps DEF TaskFails, TypeOK, DoneIn
<1>8. ASSUME RecordResult PROVE NotedIsKept'
  BY <1>8, WriteKeeps DEF RecordResult, AfterResult, TypeOK
<1>9. ASSUME EndBatch PROVE NotedIsKept'
  BY <1>9, WriteKeeps DEF EndBatch, TypeOK
<1>10. ASSUME NEW t \in Tasks, Interrupted(t) PROVE NotedIsKept'
  <2>1. Write(results', "running") /\ pc = "task" /\ pc' = "gone" /\ previous' = previous
        /\ status' = status
    BY <1>10 DEF Interrupted
  <2>2. stops' = stops + 1 /\ stops \in Nat
    BY <1>10 DEF Interrupted, TypeOK
  <2>3. DoneIn(results) \subseteq DoneIn(results')
    BY <1>10, SettingKeeps DEF Interrupted
  <2>4. stops <= 1 => noted' \subseteq DoneIn(previous) \union DoneIn(results')
    BY <2>1, <2>3, WriteKeeps
  <2>5. DoneIn(previous)' = DoneIn(previous') /\ DoneIn(results)' = DoneIn(results')
    BY DEF DoneIn
  <2>6. stops' # 0 /\ (stops' <= 1 => stops <= 1)
    BY <2>2
  <2>. QED BY <2>1, <2>4, <2>5, <2>6
<1>11. ASSUME Killed PROVE NotedIsKept'
  BY <1>11 DEF Killed, TypeOK, DoneIn
<1>12. ASSUME Finish PROVE NotedIsKept'
  BY <1>12 DEF Finish, Ended, StatusOf, TypeOK, DoneIn
<1>13. ASSUME Requeue PROVE NotedIsKept'
  BY <1>13 DEF Requeue, TypeOK, DoneIn
<1>14. ASSUME Cancel PROVE NotedIsKept'
  BY <1>14 DEF Cancel, TypeOK, DoneIn, Reaches
<1>15. ASSUME RetryFailedTasks PROVE NotedIsKept'
  BY <1>15 DEF RetryFailedTasks, TypeOK, Terminal
<1>16. ASSUME UNCHANGED vars PROVE NotedIsKept'
  BY <1>16 DEF vars, Reaches, DoneIn
<1>. QED
  BY <1>1, <1>2, <1>3, <1>4, <1>5, <1>6, <1>7, <1>8, <1>9, <1>10, <1>11, <1>12, <1>13,
     <1>14, <1>15, <1>16 DEF Next, ProcessStep

-------------------------------------------------------------------------------
(* The theorems *)

\* Every variable keeps its type.
THEOREM BatchTyped == Spec => []TypeOK
<1>1. Init => TypeOK
  <2>1. Nothing \in Results /\ Nothing \in [Tasks -> Done \union {"none"}]
    BY DEF Nothing, Results, Recorded
  <2>2. NoFile \in Files
    BY <2>1 DEF NoFile, Files
  <2>3. Init => continue \in BOOLEAN
    BY BatchAssumption DEF Init
  <2>4. 0 \in 0..MaxStops /\ 0 \in 0..MaxRetries
    BY BatchAssumption
  <2>5. ASSUME Init PROVE worked \in [Tasks -> Nat]
    BY <2>5 DEF Init
  <2>6. ASSUME Init PROVE status \in {"queued", "running", "cancelling"} \union Terminal
    BY <2>6 DEF Init
  <2>7. ASSUME Init PROVE results \in Results /\ previous \in [Tasks -> Done \union {"none"}] /\ file \in Files
    BY <2>7, <2>1, <2>2 DEF Init
  <2>. HIDE DEF Tasks
  <2>. QED BY <2>3, <2>4, <2>5, <2>6, <2>7 DEF Init, TypeOK
<1>. QED BY <1>1, TypeStep, PTL DEF Spec

\* The inductive invariant of the batch.
THEOREM BatchKept == Spec => []BatchInvariant
<1>1. Init => BatchInvariant
  BY DEF Init, BatchInvariant, CountersAgree, ResultsFollowLoop, RecordsHappened,
         ProcessBelongs, StatusTellsTruth, StopsAtFirstFailure, Promised, NoFile, Nothing,
         Done, DoneIn, Finished
<1>2. TypeOK /\ BatchInvariant /\ [Next]_vars => BatchInvariant'
  BY CountersStep, LoopStep, HappenedStep, BelongsStep, TruthStep, StopsStep
     DEF BatchInvariant
<1>. QED BY <1>1, <1>2, BatchTyped, PTL DEF Spec

\* The final statuses tell the truth about the task records (run_task_batch and
\* _finish_executable_locked).
THEOREM TruthTold == Spec => []StatusTellsTruth
BY BatchKept, PTL DEF BatchInvariant

\* Without continue_on_error nothing runs behind a failure.
THEOREM StopsTold == Spec => []StopsAtFirstFailure
BY BatchKept, PTL DEF BatchInvariant

\* No task is lost by stops, resumes, cancellations and retries (retry_failed_tasks).
THEOREM NoneLost == Spec => []NothingLost
<1>1. TypeOK /\ BatchInvariant => NothingLost
  BY DEF BatchInvariant, RecordsHappened, NothingLost, Retryable, Aggregated, TypeOK,
         Files, Results, Recorded
<1>. QED BY <1>1, BatchTyped, BatchKept, PTL

\* One stop loses nothing that was recorded: the work of a task the file has called
\* done is repeated only after two stops.
THEOREM OneStopIsSafe == Spec => OneStopLosesNothing
<1>1. Init => NotedIsKept
  BY DEF Init, NotedIsKept
<1>2. Spec => []NotedIsKept
  BY <1>1, KeptStep, BatchTyped, BatchKept, PTL DEF Spec
<1>3. ASSUME TypeOK, NotedIsKept, [Next]_vars
      PROVE  [\A t \in noted : worked'[t] > worked[t] => stops >= 2]_vars
  <2>1. ASSUME NEW t \in noted, worked'[t] > worked[t] PROVE stops >= 2
    <3>0. t \in Tasks /\ worked[t] \in Nat
      BY <1>3 DEF TypeOK
    <3>1. worked' # worked
      BY <2>1, <3>0
    <3>2. PICK u \in Tasks : TaskSucceeds(u)
      BY <1>3, <3>1
         DEF Next, ProcessStep, vars, Spawn, SpawnFails, ResumeSkip, StartTask, UpToDate,
             TaskFails, RecordResult, EndBatch, Interrupted, Killed, Finish, Requeue,
             Cancel, RetryFailedTasks
    <3>3. u = t
      BY <2>1, <3>2, <1>3 DEF TaskSucceeds, TypeOK
    <3>4. t \notin DoneIn(results) /\ t \notin DoneIn(previous)
      <4>1. pc = "task" /\ Reaches(t)
        BY <3>2, <3>3 DEF TaskSucceeds
      <4>2. results[t] = "none" /\ previous[t] = "none"
        BY <4>1, <3>0, <1>3 DEF NotedIsKept, Reaches
      <4>. QED BY <4>2 DEF DoneIn, Done
    <3>5. pc # "none"
      BY <3>2 DEF TaskSucceeds
    <3>. QED BY <3>4, <3>5, <2>1, <1>3 DEF NotedIsKept, TypeOK
  <2>. QED BY <2>1
<1>. QED BY <1>2, <1>3, BatchTyped, PTL DEF Spec, OneStopLosesNothing
=============================================================================
