------------------------------ MODULE JobManager ------------------------------
(***************************************************************************)
(* service/job_manager.py: the background job manager with one FIFO lane   *)
(* per provider.  A parent job groups one child job per provider lane; a   *)
(* child runs as an operating system process; job records and the queue    *)
(* are files, re-read when the service starts again.                       *)
(*                                                                         *)
(* Abstractions.                                                           *)
(*  - A child is <<parent, lane>>: one child per provider, as grouped by   *)
(*    create_task_batch_job.  Identifiers, commands, logs, error texts and *)
(*    the parent's aggregated results file are left out.                   *)
(*  - A method changes memory while it holds the lock and performs its     *)
(*    file writes and its Popen one by one.  Memory cannot be observed     *)
(*    until the lock is released, so an action changes it at once and puts *)
(*    the effects in `io`; Flush performs them in order, and a crash may   *)
(*    fall between any two.  No locked action starts while `io` is not     *)
(*    empty.                                                               *)
(*  - A pid is the incarnation of the service that spawned the process     *)
(*    (`epoch`); one incarnation spawns a child at most once.              *)
(***************************************************************************)
EXTENDS Integers, Sequences, FiniteSets, SequencesExt

CONSTANTS
    MaxJobs,      \* bound: parent jobs created in a behaviour
    Second,       \* Second[p]: the second in which parent p is created
    Lanes,        \* providers, each a lane
    MaxParallel,  \* max_parallel_providers
    BatchKeys,    \* sync configs a batch may belong to, or NoKey for an ad hoc batch
    Requests,     \* task and parameters of a registered-task request
    NoKey,
    Outcomes,     \* statuses _status_from_return_code gives an exited child
    MaxCrashes,   \* bound: abrupt deaths of the service
    MaxRestarts,  \* bound: graceful restarts
    TornWrites,   \* may a crash leave a record that was being written empty?
    PidProbe,     \* Linux: can a recorded process be looked up?
    Polling       \* do readers refresh job records?

Parents  == 1..MaxJobs
Children == Parents \X Lanes
Epochs   == 1..(1 + MaxCrashes + MaxRestarts)
Lane(c)  == c[2]

ASSUME CountAssumption ==
    /\ MaxJobs \in Nat /\ MaxCrashes \in Nat /\ MaxRestarts \in Nat
    /\ MaxParallel \in Nat \ {0}
    /\ Second \in [Parents -> Nat]
ASSUME FlagAssumption ==
    TornWrites \in BOOLEAN /\ PidProbe \in BOOLEAN /\ Polling \in BOOLEAN
ASSUME LaneAssumption == IsFiniteSet(Lanes)
ASSUME OutcomeAssumption == Outcomes \subseteq {"success", "partial_success", "failed"}

ProcessActive == {"running", "cancelling"}
Active        == {"queued"} \union ProcessActive
Terminal      == {"success", "partial_success", "failed", "cancelled", "interrupted"}
Status        == {"absent"} \union Active \union Terminal
Configs       == BatchKeys \ {NoKey}

JobRecord ==
    [status : Status, started : BOOLEAN, pid : {0} \union Epochs, resume : BOOLEAN]
TopRecord ==
    [status : Status, started : BOOLEAN, kind : {"none", "batch", "registered"},
     key : BatchKeys \union Requests \union {NoKey}, lanes : SUBSET Lanes]

NoJob  == [status |-> "absent", started |-> FALSE, pid |-> 0, resume |-> FALSE]
NoTop  == [status |-> "absent", started |-> FALSE, kind |-> "none",
           key |-> NoKey, lanes |-> {}]
NewJob == [NoJob EXCEPT !.status = "queued"]

SaveJob(c) == [op |-> "job", c |-> c]
SaveTop(p) == [op |-> "top", p |-> p]
SpawnOf(c) == [op |-> "spawn", c |-> c]
SaveQueue  == [op |-> "queue"]
Effects    == {SaveJob(c) : c \in Children} \union {SaveTop(p) : p \in Parents}
                \union {SpawnOf(c) : c \in Children} \union {SaveQueue}

VARIABLES
    made,        \* parents created so far
    job,         \* self._jobs: child records in memory
    top,         \* self._jobs: parent records in memory
    queue,       \* self._queue
    handles,     \* self._processes: children with a Popen object
    restarting,  \* self._restart_job_ids
    pending,     \* parents cancel_pending_jobs has listed and not yet cancelled
    phase,       \* "up", "stopping" (self._shutting_down) or "down"
    kick,        \* a thread is inside _dispatch_next
    io,          \* effects the holder of the lock still has to perform
    diskJob,     \* jobs/<id>.json of the children
    diskTop,     \* jobs/<id>.json of the parents
    diskQueue,   \* job_queue.json
    live,        \* processes that have not exited, as <<child, epoch>>
    epoch, crashes, restarts

memory  == <<job, top, queue, handles, restarting, pending, kick>>
disk    == <<diskJob, diskTop, diskQueue>>
history == <<made, epoch, crashes, restarts>>
vars    == <<memory, disk, history, phase, io, live>>

\* Everything but the two queues.
RecordTypes ==
    /\ made \in 0..MaxJobs
    /\ job \in [Children -> JobRecord] /\ diskJob \in [Children -> JobRecord]
    /\ top \in [Parents -> TopRecord]  /\ diskTop \in [Parents -> TopRecord]
    /\ handles \subseteq Children      /\ restarting \subseteq Children
    /\ pending \subseteq Parents
    /\ phase \in {"up", "stopping", "down"}
    /\ kick \in BOOLEAN
    /\ io \in Seq(Effects)
    /\ live \subseteq (Children \X Epochs)
    /\ epoch \in Epochs /\ crashes \in 0..MaxCrashes /\ restarts \in 0..MaxRestarts

TypeOK == RecordTypes /\ queue \in Seq(Children) /\ diskQueue \in Seq(Children)

-------------------------------------------------------------------------------
(* Helpers *)

\* The lists that hold each element of a finite set once.
Orders(S) == {s \in [1..Cardinality(S) -> S] : \A x \in S : \E i \in DOMAIN s : s[i] = x}

\* How many of the positions D are not after i.
Rank(D, i) == Cardinality({j \in D : j <= i})

\* The elements of the list s that are in S, in their order.
Kept(s, S) ==
    LET hits == {i \in DOMAIN s : s[i] \in S}
    IN  [n \in 1..Cardinality(hits) |-> s[CHOOSE i \in hits : Rank(hits, i) = n]]

SaveJobs(s) == [i \in DOMAIN s |-> SaveJob(s[i])]
SaveTops(s) == [i \in DOMAIN s |-> SaveTop(s[i])]

\* The children of p that have a record.
ChildrenOf(p, jobs) == {c \in Children : c[1] = p /\ jobs[c].status # "absent"}

\* _aggregate_terminal_status
AggregateTerminalStatus(S) ==
    IF \E s \in S : S = {s} THEN CHOOSE s \in S : TRUE
    ELSE IF S \intersect {"success", "partial_success"} # {} THEN "partial_success"
    ELSE IF "failed" \in S THEN "failed"
    ELSE IF "interrupted" \in S THEN "interrupted"
    ELSE "cancelled"

\* _refresh_parent_locked: the parent's record t follows its children.
Refreshed(t, p, jobs) ==
    LET kids     == ChildrenOf(p, jobs)
        statuses == {jobs[c].status : c \in kids}
        started  == t.started \/ \E c \in kids : jobs[c].started
        status   == IF "cancelling" \in statuses THEN "cancelling"
                    ELSE IF "running" \in statuses THEN "running"
                    ELSE IF "queued" \in statuses
                         THEN (IF started THEN "running" ELSE "queued")
                    ELSE AggregateTerminalStatus(statuses)
    IN  IF kids = {} THEN t ELSE [t EXCEPT !.status = status, !.started = started]

\* Parents a refresh rewrites: those with a record, and a child with one.
Refreshable(tops, jobs) ==
    {p \in Parents : tops[p].status # "absent" /\ ChildrenOf(p, jobs) # {}}

\* Mutants: the parent is refreshed from the records as they were before the
\* handler; the parent is not refreshed once its last child has ended.
MutantRefreshTooEarly(p, jobs) ==
    [top EXCEPT ![p] = IF p \in Refreshable(top, job) THEN Refreshed(@, p, job) ELSE @]
MutantRefreshWhileActive(p, jobs) ==
    [top EXCEPT ![p] = IF \E c \in ChildrenOf(p, jobs) : jobs[c].status \in Active
                       THEN Refreshed(@, p, jobs) ELSE @]

\* top after _refresh_parent_locked of p.  A parent without a record is skipped;
\* the SaveTop that accompanies each use then writes what the file already says.
RefreshTop(p, jobs) ==
    [top EXCEPT ![p] = IF p \in Refreshable(top, jobs) THEN Refreshed(@, p, jobs) ELSE @]

\* _requeue_after_restart_locked and _enable_resume_for_job_locked
Requeued(r) ==
    [r EXCEPT !.status = "queued", !.started = FALSE, !.pid = 0, !.resume = TRUE]

\* Mutant: a recorded pid is taken for a running process.
MutantTrustPid(c, r) == PidProbe /\ r.pid # 0

\* _recorded_process_is_running
RecordedProcessIsRunning(c, r) == PidProbe /\ r.pid # 0 /\ <<c, r.pid>> \in live

\* Orders in which children created at these times are sorted by (created_at,
\* job_id): created_at counts seconds and job_id is random.
ByCreation(S) ==
    {s \in Orders(S) : \A i, j \in DOMAIN s : i < j => Second[s[i][1]] <= Second[s[j][1]]}

\* Mutant: the queue file is believed.
MutantQueueFileOnly(jobs) ==
    {Kept(diskQueue, {c \in Children : jobs[c].status = "queued"})}

\* _load_queue: the queue read back, then the queued children it does not list.
LoadedQueues(jobs) ==
    LET queued  == {c \in Children : jobs[c].status = "queued"}
        ordered == Kept(diskQueue, queued)
    IN  {ordered \o rest : rest \in ByCreation(queued \ ToSet(ordered))}

\* Mutant: a child being cancelled takes no slot.
MutantRunningOnly == {c \in Children : job[c].status = "running"}

ActiveJobs == {c \in Children : job[c].status \in ProcessActive}

\* The lock is free and the service runs.
Locked == io = <<>> /\ phase # "down"

-------------------------------------------------------------------------------
(* Submission and cancellation *)

\* Mutant: a config whose job still waits is free.
MutantConfigIsRunning(key) ==
    \E q \in Parents : top[q].key = key /\ top[q].status \in ProcessActive

\* find_active_config_job, asked again under the lock.
ConfigIsActive(key) ==
    \E q \in Parents : top[q].key = key /\ top[q].status \in Active

\* create_task_batch_job: refused while the config has an active job; the
\* children's records are written before the parent's, the queue last.
CreateTaskBatchJob(S, key) ==
    LET p    == made + 1
        kids == {p} \X S
    IN  /\ Locked /\ made < MaxJobs
        /\ phase = "stopping" => key # NoKey   \* only the schedule poller is left
        /\ key # NoKey => ~ConfigIsActive(key)
        /\ made' = p
        /\ job' = [c \in Children |-> IF c \in kids THEN NewJob ELSE job[c]]
        /\ top' = [top EXCEPT ![p] = [status |-> "queued", started |-> FALSE,
                                     kind |-> "batch", key |-> key, lanes |-> S]]
        /\ \E s \in Orders(kids) :
             /\ queue' = queue \o s
             /\ io' = SaveJobs(s) \o <<SaveTop(p), SaveQueue>>
        /\ kick' = TRUE
        /\ UNCHANGED <<handles, restarting, pending, phase, disk, live,
                       epoch, crashes, restarts>>

\* create_registered_task_job: the parent's record is written first; a request
\* with an active identical one is answered with that job and changes nothing.
CreateRegisteredTaskJob(l, key) ==
    LET p == made + 1
        c == <<p, l>>
    IN  /\ Locked /\ phase = "up" /\ made < MaxJobs
        /\ ~\E q \in Parents : /\ top[q].kind = "registered" /\ top[q].key = key
                              /\ top[q].lanes = {l} /\ top[q].status \in Active
        /\ made' = p
        /\ job' = [job EXCEPT ![c] = NewJob]
        /\ top' = [top EXCEPT ![p] = [status |-> "queued", started |-> FALSE,
                                     kind |-> "registered", key |-> key, lanes |-> {l}]]
        /\ queue' = Append(queue, c)
        /\ io' = <<SaveTop(p), SaveJob(c), SaveQueue>>
        /\ kick' = TRUE
        /\ UNCHANGED <<handles, restarting, pending, phase, disk, live,
                       epoch, crashes, restarts>>

\* Mutants: a status with another spelling; every child without a Popen object is
\* marked, the finished ones too.
MutantSpelling(c) ==
    IF job[c].status = "queued" THEN [job[c] EXCEPT !.status = "canceled"] ELSE job[c]
MutantCancelAll(c) ==
    IF c \notin handles THEN [job[c] EXCEPT !.status = "cancelled"]
    ELSE IF job[c].status = "running" THEN [job[c] EXCEPT !.status = "cancelling"]
    ELSE job[c]

\* _cancel_executable_locked: what a cancellation makes of c's record.  A child
\* without a Popen object is left alone; the others are sent terminate().
Cancelled(c) ==
    IF job[c].status = "queued" THEN [job[c] EXCEPT !.status = "cancelled"]
    ELSE IF c \in handles /\ job[c].status = "running"
         THEN [job[c] EXCEPT !.status = "cancelling"]
    ELSE job[c]

\* job after cancel_job has visited the children T.
CancelledJobs(T) == [c \in Children |-> IF c \in T THEN Cancelled(c) ELSE job[c]]

\* Mutants: the queue is not saved; the children's records are not.
MutantQueueUnsaved(T, p) ==
    /\ job' = CancelledJobs(T)
    /\ queue' = Kept(queue, Children \ {c \in T : job[c].status = "queued"})
    /\ \E s \in Orders({c \in T : Cancelled(c) # job[c]}) :
          io' = SaveJobs(s) \o <<SaveTop(p)>>
MutantRecordsUnsaved(T, p) ==
    /\ job' = CancelledJobs(T)
    /\ queue' = Kept(queue, Children \ {c \in T : job[c].status = "queued"})
    /\ io' = <<SaveTop(p), SaveQueue>>

\* The part of cancel_job that acts on the children T of p, in the order they
\* are listed; the parent's record is written after theirs, the queue last.
CancelChildren(T, p) ==
    /\ job' = CancelledJobs(T)
    /\ queue' = Kept(queue, Children \ {c \in T : job[c].status = "queued"})
    /\ \E s \in Orders({c \in T : Cancelled(c) # job[c]}) :
          io' = SaveJobs(s) \o <<SaveTop(p), SaveQueue>>

\* cancel_job on a parent.  Without a child's record the parent is its own target.
CancelParent(p) ==
    LET T    == ChildrenOf(p, job)
        jobs == CancelledJobs(T)
    IN  /\ Locked /\ phase = "up" /\ top[p].status # "absent"
        /\ IF T # {}
           THEN /\ CancelChildren(T, p)
                /\ top' = IF \E c \in T : jobs[c].status = "cancelling"
                          THEN [top EXCEPT ![p].status = "cancelling"]
                          ELSE RefreshTop(p, jobs)
           ELSE /\ top[p].status = "queued"
                /\ top' = [top EXCEPT ![p].status = "cancelled"]
                /\ io' = <<SaveTop(p), SaveQueue>>
                /\ UNCHANGED <<job, queue>>
        /\ pending' = pending \ {p}
        /\ kick' = TRUE
        /\ UNCHANGED <<handles, restarting, phase, disk, live, history>>

\* cancel_job on a child.
CancelChild(c) ==
    LET jobs == CancelledJobs({c})
    IN  /\ Locked /\ phase = "up" /\ job[c].status # "absent"
        /\ CancelChildren({c}, c[1])
        /\ top' = RefreshTop(c[1], jobs)
        /\ kick' = TRUE
        /\ UNCHANGED <<handles, restarting, pending, phase, disk, live, history>>

\* cancel_pending_jobs: lists the queued parents of a config under the lock; each
\* is then cancelled by a CancelParent of its own.
ListPendingJobs(key) ==
    LET listed == {p \in Parents : top[p].key = key /\ top[p].status = "queued"}
    IN  /\ Locked /\ phase = "up" /\ pending = {} /\ listed # {}
        /\ pending' = listed
        /\ UNCHANGED <<job, top, queue, handles, restarting, kick, phase, io, disk, live,
                       history>>

-------------------------------------------------------------------------------
(* Dispatching and finishing *)

\* Mutants: one child too many; the lanes are ignored.
MutantOneTooMany(c) ==
    /\ c \in Children /\ job[c].status = "queued"
    /\ Cardinality(ActiveJobs) <= MaxParallel
    /\ \A d \in ActiveJobs : Lane(d) # Lane(c)
MutantAnyLane(c) ==
    c \in Children /\ job[c].status = "queued" /\ Cardinality(ActiveJobs) < MaxParallel

\* _dispatch_next: below the limit, the first queued entry whose lane is free.
Eligible(c) ==
    /\ c \in Children /\ job[c].status = "queued"
    /\ Cardinality(ActiveJobs) < MaxParallel
    /\ \A d \in ActiveJobs : Lane(d) # Lane(c)
Selects(i) == Eligible(queue[i]) /\ \A j \in 1..(i - 1) : ~Eligible(queue[j])

\* The queue without stale entries, dropped when one precedes position n.
Pruned(n) ==
    IF \E j \in 1..n : job[queue[j]].status # "queued"
    THEN Kept(queue, {c \in Children : job[c].status = "queued"})
    ELSE queue

Dispatching == Locked /\ phase = "up" /\ kick

\* Mutant: the thread gives up when the head of the queue cannot start.
MutantHeadBlocks == \A i \in DOMAIN queue : i = 1 => ~Eligible(queue[i])

NothingEligible == \A i \in DOMAIN queue : ~Eligible(queue[i])

\* No entry can start: the thread leaves _dispatch_next.
DispatchNone ==
    LET scanned == IF Cardinality(ActiveJobs) < MaxParallel THEN Len(queue) ELSE 0
    IN  /\ Dispatching /\ NothingEligible
        /\ queue' = Pruned(scanned)
        /\ io' = IF queue' = queue THEN <<>> ELSE <<SaveQueue>>
        /\ kick' = FALSE
        /\ UNCHANGED <<job, top, handles, restarting, pending, phase, disk, live, history>>

\* The queue is saved without the entry before Popen; the record says so after it.
DispatchSpawn(i) ==
    LET c    == queue[i]
        jobs == [job EXCEPT ![c] = [@ EXCEPT !.status = "running", !.started = TRUE,
                                              !.pid = epoch]]
    IN  /\ Dispatching /\ Selects(i)
        /\ queue' = Kept(Pruned(i), Children \ {c})
        /\ job' = jobs
        /\ handles' = handles \union {c}
        /\ top' = RefreshTop(c[1], jobs)
        /\ io' = <<SaveQueue, SpawnOf(c), SaveJob(c), SaveTop(c[1])>>
        /\ UNCHANGED <<restarting, pending, kick, phase, disk, live, history>>

\* Popen raises: the child fails and the loop goes on.
DispatchFails(i) ==
    LET c    == queue[i]
        jobs == [job EXCEPT ![c].status = "failed"]
    IN  /\ Dispatching /\ Selects(i)
        /\ queue' = Kept(Pruned(i), Children \ {c})
        /\ job' = jobs
        /\ top' = RefreshTop(c[1], jobs)
        /\ io' = <<SaveQueue, SaveJob(c), SaveTop(c[1])>>
        /\ UNCHANGED <<handles, restarting, pending, kick, phase, disk, live, history>>

\* Mutant: the exit code of a child that was told to stop counts.
MutantExitCode(c, outcome) ==
    IF job[c].status = "cancelled" THEN "cancelled" ELSE outcome

\* A child that was told to stop is cancelled, whatever its exit code.
FinalStatus(c, outcome) ==
    IF job[c].status \in {"cancelling", "cancelled"} THEN "cancelled" ELSE outcome

\* _finish_executable_locked, called by the watcher or by a reader that polled the
\* process, whichever comes first: the later call finds no handle and a terminal
\* status.  A child put back by prepare_for_restart only loses its handle.
Finish(c, outcome) ==
    LET jobs == [job EXCEPT ![c].status = FinalStatus(c, outcome)]
    IN  /\ Locked /\ c \in handles /\ <<c, epoch>> \notin live
        /\ handles' = handles \ {c}
        /\ IF c \in restarting
           THEN UNCHANGED <<job, top, io>>
           ELSE /\ job' = jobs
                /\ top' = RefreshTop(c[1], jobs)
                /\ io' = <<SaveJob(c), SaveTop(c[1])>>
        /\ kick' = TRUE
        /\ UNCHANGED <<queue, restarting, pending, phase, disk, live, history>>

\* _refresh_job on a job that has not exited: a live child's record gets a new
\* time stamp and is written again, then its parent is refreshed.
RefreshRunningJob(c) ==
    /\ Polling /\ Locked
    /\ c \in handles /\ <<c, epoch>> \in live /\ job[c].status \in ProcessActive
    /\ top' = RefreshTop(c[1], job)
    /\ io' = <<SaveJob(c), SaveTop(c[1])>>
    /\ UNCHANGED <<job, queue, handles, restarting, pending, kick, phase, disk, live, history>>

\* _refresh_job on a parent: list_jobs, get_job, get_active_jobs.
RefreshParent(p) ==
    /\ Polling /\ Locked /\ p \in Refreshable(top, job)
    /\ top' = RefreshTop(p, job)
    /\ io' = <<SaveTop(p)>>
    /\ UNCHANGED <<job, queue, handles, restarting, pending, kick, phase, disk, live, history>>

-------------------------------------------------------------------------------
(* Restart, crash and recovery *)

\* _watch_orphaned_process: the process of an earlier incarnation has exited.
WatchOrphan(c) ==
    LET jobs == [job EXCEPT ![c] = Requeued(@)]
    IN  /\ Locked
        /\ job[c].status = "running" /\ c \notin handles
        /\ ~RecordedProcessIsRunning(c, job[c])
        /\ job' = jobs
        /\ queue' \in LoadedQueues(jobs)
        /\ top' = RefreshTop(c[1], jobs)
        /\ io' = <<SaveJob(c), SaveQueue, SaveTop(c[1])>>
        /\ kick' = TRUE
        /\ UNCHANGED <<handles, restarting, pending, phase, disk, live, history>>

\* The record of each of the children s, and after it its parent's.
RequeueWrites(s) ==
    [i \in 1..(2 * Len(s)) |-> IF i % 2 = 1 THEN SaveJob(s[(i + 1) \div 2])
                              ELSE SaveTop(s[i \div 2][1])]

\* Mutant: what was running goes to the tail of the queue.
MutantAtTheTail(s, S) == Kept(queue, Children \ S) \o s

\* The queue with the children s, the elements of S, at its head.
PutBack(s, S) == s \o Kept(queue, Children \ S)

\* prepare_for_restart up to its release of the lock: running children with a
\* process go back to the head of the queue.
PrepareForRestart ==
    LET running == {c \in handles : job[c].status = "running"}
        jobs    == [c \in Children |-> IF c \in running THEN Requeued(job[c]) ELSE job[c]]
    IN  /\ Locked /\ phase = "up" /\ restarts < MaxRestarts
        /\ phase' = "stopping"
        /\ restarts' = restarts + 1
        /\ restarting' = running
        /\ job' = jobs
        /\ top' = [p \in Parents |-> IF \E c \in running : c[1] = p
                                    THEN RefreshTop(p, jobs)[p] ELSE top[p]]
        /\ \E s \in Orders(running) :
             /\ queue' = IF running = {} THEN queue ELSE PutBack(s, running)
             /\ io' = IF running = {} THEN <<>> ELSE RequeueWrites(s) \o <<SaveQueue>>
        /\ UNCHANGED <<handles, pending, kick, disk, live, made, epoch, crashes>>

NoMemory ==
    /\ job' = [c \in Children |-> NoJob] /\ top' = [p \in Parents |-> NoTop]
    /\ queue' = <<>> /\ handles' = {} /\ restarting' = {} /\ pending' = {}
    /\ kick' = FALSE /\ io' = <<>>
    /\ phase' = "down"

\* Mutant: the service does not wait for the processes it stops.
MutantNoWait == TRUE

ProcessesGone == \A c \in restarting : <<c, epoch>> \notin live

\* The service process ends.  prepare_for_restart has terminated, then killed, the
\* processes it put back; a process being cancelled is not waited for.
Exit ==
    /\ Locked /\ phase = "stopping"
    /\ ProcessesGone
    /\ NoMemory
    /\ UNCHANGED <<disk, live, history>>

\* The service process dies at any point.  _save_job truncates the file before it
\* writes: a record being written may be left unreadable.
Crash ==
    /\ phase # "down" /\ crashes < MaxCrashes
    /\ crashes' = crashes + 1
    /\ NoMemory
    /\ \/ UNCHANGED disk
       \/ /\ TornWrites /\ io # <<>> /\ Head(io).op = "job"
          /\ diskJob' = [diskJob EXCEPT ![Head(io).c] = NoJob]
          /\ UNCHANGED <<diskTop, diskQueue>>
       \/ /\ TornWrites /\ io # <<>> /\ Head(io).op = "top"
          /\ diskTop' = [diskTop EXCEPT ![Head(io).p] = NoTop]
          /\ UNCHANGED <<diskJob, diskQueue>>
    /\ UNCHANGED <<live, made, epoch, restarts>>

\* Mutant: whatever was started and has no process is run again.
MutantReloaded(c, r) ==
    IF r.started /\ ~RecordedProcessIsRunning(c, r) THEN Requeued(r)
    ELSE IF r.status = "cancelling" THEN [r EXCEPT !.status = "cancelled"]
    ELSE r

\* _load_existing_jobs: what becomes of a child's record r.
Reloaded(c, r) ==
    CASE r.status = "running" /\ ~RecordedProcessIsRunning(c, r) -> Requeued(r)
      [] r.status = "cancelling"                                  -> [r EXCEPT !.status = "cancelled"]
      [] OTHER                                                    -> r

\* SyncJobManager.__init__ of the next incarnation.
Load ==
    LET jobs  == [c \in Children |-> Reloaded(c, diskJob[c])]
        stale == {c \in Children : jobs[c] # diskJob[c]}
        fresh == Refreshable(diskTop, jobs)
    IN  /\ phase = "down"
        /\ phase' = "up"
        /\ epoch' = epoch + 1
        /\ job' = jobs
        /\ top' = [p \in Parents |-> IF p \in fresh THEN Refreshed(diskTop[p], p, jobs)
                                    ELSE diskTop[p]]
        /\ queue' \in LoadedQueues(jobs)
        /\ \E s \in Orders(stale), t \in Orders(fresh) :
             io' = SaveJobs(s) \o SaveTops(t) \o <<SaveQueue>>
        /\ kick' = TRUE
        /\ UNCHANGED <<handles, restarting, pending, disk, live, made, crashes, restarts>>

\* The holder of the lock performs its next effect.
Flush ==
    LET e == Head(io)
    IN  /\ io # <<>>
        /\ io' = Tail(io)
        /\ diskJob' = IF e.op = "job" THEN [diskJob EXCEPT ![e.c] = job[e.c]] ELSE diskJob
        /\ diskTop' = IF e.op = "top" THEN [diskTop EXCEPT ![e.p] = top[e.p]] ELSE diskTop
        /\ diskQueue' = IF e.op = "queue" THEN queue ELSE diskQueue
        /\ live' = IF e.op = "spawn" THEN live \union {<<e.c, epoch>>} ELSE live
        /\ UNCHANGED <<memory, phase, history>>

\* A process ends, by itself or by a signal, whether or not the service runs.
ProcessExit(x) ==
    /\ x \in live
    /\ live' = live \ {x}
    /\ UNCHANGED <<memory, disk, history, phase, io>>

-------------------------------------------------------------------------------
Init ==
    /\ made = 0
    /\ job = [c \in Children |-> NoJob] /\ diskJob = job
    /\ top = [p \in Parents |-> NoTop]  /\ diskTop = top
    /\ queue = <<>> /\ diskQueue = <<>>
    /\ handles = {} /\ restarting = {} /\ pending = {}
    /\ phase = "up" /\ kick = FALSE /\ io = <<>>
    /\ live = {} /\ epoch = 1 /\ crashes = 0 /\ restarts = 0

Next ==
    \/ \E S \in (SUBSET Lanes) \ {{}}, key \in BatchKeys :
         CreateTaskBatchJob(S, key)
    \/ \E l \in Lanes, key \in Requests : CreateRegisteredTaskJob(l, key)
    \/ \E p \in Parents : CancelParent(p)
    \/ \E c \in Children : CancelChild(c)
    \/ \E key \in Configs : ListPendingJobs(key)
    \/ DispatchNone
    \/ \E i \in DOMAIN queue : DispatchSpawn(i)
    \/ \E i \in DOMAIN queue : DispatchFails(i)
    \/ \E c \in Children, outcome \in Outcomes : Finish(c, outcome)
    \/ \E c \in Children : RefreshRunningJob(c)
    \/ \E p \in Parents : RefreshParent(p)
    \/ \E c \in Children : WatchOrphan(c)
    \/ PrepareForRestart
    \/ Exit
    \/ Crash
    \/ Load
    \/ Flush
    \/ \E x \in live : ProcessExit(x)

Spec == Init /\ [][Next]_vars

\* The threads of the service run, a thread that keeps asking for the lock gets it in
\* the end (hence strong fairness: requests may take it again and again), the
\* supervisor starts the service again and every child process ends.  No submission,
\* cancellation, restart or crash has to happen.
Fairness ==
    /\ WF_vars(Flush) /\ WF_vars(Load)
    /\ SF_vars(Exit)
    /\ SF_vars(DispatchNone)
    /\ SF_vars(\E i \in DOMAIN queue : DispatchSpawn(i) \/ DispatchFails(i))
    /\ SF_vars(\E c \in Children, outcome \in Outcomes : Finish(c, outcome))
    /\ SF_vars(\E c \in Children : WatchOrphan(c))
    /\ WF_vars(\E x \in live : ProcessExit(x))

LiveSpec == Spec /\ Fairness

-------------------------------------------------------------------------------
(* Properties *)

Running == phase # "down"
Occupies(r) == r.status \in ProcessActive

\* The phase of its life the record r puts a child in.
Life(r) ==
    IF r.status = "absent" THEN "absent"
    ELSE IF r.status = "queued" THEN "waiting"
    ELSE IF r.status \in ProcessActive THEN "active"
    ELSE "done"

\* The children that take a slot, by memory or by the record a restart would read.
Occupied == {c \in Children : Occupies(job[c]) \/ Occupies(diskJob[c])}

\* At most one child of a lane is running or being cancelled, in memory, in the
\* records a restart would read, and in any mixture of the two (RUNBOOK.md:285).
LaneExclusive == \A c, d \in Occupied : Lane(c) = Lane(d) => c = d

\* Never more than max_parallel_providers children take a slot, whatever mixture of
\* old and new records a crash leaves behind (RUNBOOK.md:288).
WithinLimit == Cardinality(Occupied) <= MaxParallel

\* The queue lists the queued children, each once: none is forgotten by a cancel, a
\* restart, a requeue or a reload, and none would be dispatched twice.
QueueExact ==
    /\ \A c \in Children : job[c].status = "queued" <=> \E i \in DOMAIN queue : queue[i] = c
    /\ \A i, j \in DOMAIN queue : queue[i] = queue[j] => i = j

\* Whenever the lock is free the files say what memory says: no handler forgets to
\* save a record it changed, so a crash there loses nothing.
DurableWhenIdle ==
    Locked => diskJob = job /\ diskTop = top /\ diskQueue = queue

\* A parent's status is always the one its children imply, so that no reader sees a
\* finished parent with work left, or a running one with none.
ParentFollowsChildren ==
    Running => \A p \in Refreshable(top, job) : top[p] = Refreshed(top[p], p, job)

\* A sync config never has two active jobs in memory: the check is repeated under
\* the lock that creates the job.
OneActiveJobPerConfig ==
    \A p, q \in Parents :
        /\ top[p].kind = "batch" /\ top[q].kind = "batch"
        /\ top[p].key \in Configs /\ top[p].key = top[q].key
        /\ top[p].status \in Active /\ top[q].status \in Active
        => p = q

\* A queued child that could start has a thread in _dispatch_next that will see it:
\* every transition that frees a lane or adds work wakes the dispatcher.
NoLostWakeup ==
    Locked /\ phase = "up" /\ ~kick => \A i \in DOMAIN queue : ~Eligible(queue[i])

\* Two processes of one provider never run at the same time.
OneProcessPerLane ==
    \A x, y \in live : Lane(x[1]) = Lane(y[1]) => x = y

\* A child never has two processes, of this or of an earlier incarnation
\* (README.md:217-218).
OneProcessPerJob == \A x, y \in live : x[1] = y[1] => x = y

\* In a lane, children start in the order in which their parents were submitted;
\* a restart does not let later work overtake (RUNBOOK.md:285, README.md:215-216).
LaneFIFO ==
    [][\A c \in Children : job[c].status = "queued" /\ job'[c].status = "running" =>
         \A d \in Children : Lane(d) = Lane(c) /\ d[1] < c[1] => job[d].status # "queued"]_vars

\* What a child's record ended with is never overwritten by a late exit code, a
\* reader, a cancellation or a restart.
OutcomeIsFinal ==
    [][\A c \in Children : diskJob[c].status \in Terminal => diskJob'[c] = diskJob[c]]_vars

\* A cancelled child is never reported with an outcome and never queued again.
CancelIsFinal ==
    [][\A c \in Children : diskJob[c].status = "cancelling" =>
         diskJob'[c].status \in {"cancelling", "cancelled"}]_vars

\* The records on disk, which outlive the service, implement the promise.
LaneScheduler ==
    INSTANCE JobLanes WITH Jobs <- Children, Lossy <- TornWrites,
                           state <- [c \in Children |-> Life(diskJob[c])]
RecordsImplementLanes == LaneScheduler!Spec

\* Strengthenings of LaneExclusive and WithinLimit that make them inductive: a record
\* on disk that lags behind memory has its write pending, and lags by one legal move;
\* nothing is known of a child before it is created; a stopped service knows nothing.
Moves == {<<"absent", "waiting">>, <<"waiting", "done">>, <<"active", "done">>,
          <<"active", "waiting">>} \union {<<l, l>> : l \in {"absent", "waiting", "active", "done"}}
DiskLags ==
    Running => \A c \in Children :
        /\ diskJob[c] = job[c] \/ \E i \in DOMAIN io : io[i] = SaveJob(c)
        /\ <<Life(diskJob[c]), Life(job[c])>> \in Moves \union {<<"waiting", "active">>}
Unborn == \A c \in Children : c[1] > made => job[c] = NoJob /\ diskJob[c] = NoJob
HandlesKnown == \A c \in handles : job[c].status # "absent"
DownKnowsNothing ==
    ~Running => io = <<>> /\ handles = {} /\ \A c \in Children : job[c] = NoJob
SlotInvariant ==
    DiskLags /\ Unborn /\ HandlesKnown /\ DownKnowsNothing /\ LaneExclusive /\ WithinLimit

\* A child that has been on the queue file's record reaches a terminal status,
\* through crashes and restarts, when its processes end and the service is restarted.
EveryJobEnds ==
    \A c \in Children :
        diskJob[c].status = "queued" ~> diskJob[c].status \in Terminal

\* So does every parent.
EveryParentEnds ==
    \A p \in Parents :
        diskTop[p].status = "queued" ~> diskTop[p].status \in Terminal
=============================================================================
