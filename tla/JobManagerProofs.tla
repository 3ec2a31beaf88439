--------------------------- MODULE JobManagerProofs ---------------------------
EXTENDS JobManager, FiniteSetTheorems, SequenceTheorems, TLAPS

\* The lanes are finitely many, so the children are.
LEMMA ParentsFinite == IsFiniteSet(Parents)
BY CountAssumption, FS_Interval DEF Parents

LEMMA ChildrenFinite == IsFiniteSet(Children)
BY ParentsFinite, LaneAssumption, FS_Product DEF Children

\* An order of a set of children is a sequence of them that misses none.
LEMMA OrderType ==
  ASSUME NEW S \in SUBSET Children, NEW s \in Orders(S)
  PROVE  /\ s \in Seq(S) /\ s \in Seq(Children) /\ Len(s) \in Nat
         /\ \A x \in S : \E i \in DOMAIN s : s[i] = x
<1>1. Cardinality(S) \in Nat
  BY ChildrenFinite, FS_Subset, FS_CardinalityType
<1>. QED
  BY <1>1 DEF Orders

\* The same for parents.
LEMMA ParentOrderType ==
  ASSUME NEW S \in SUBSET Parents, NEW s \in Orders(S)
  PROVE  s \in Seq(Parents)
<1>1. Cardinality(S) \in Nat
  BY ParentsFinite, FS_Subset, FS_CardinalityType
<1>. QED
  BY <1>1 DEF Orders

\* The writes of a list of records are effects.
LEMMA SaveJobsType ==
  ASSUME NEW s \in Seq(Children) PROVE SaveJobs(s) \in Seq(Effects)
BY DEF SaveJobs, Effects

LEMMA SaveTopsType ==
  ASSUME NEW s \in Seq(Parents) PROVE SaveTops(s) \in Seq(Effects)
BY DEF SaveTops, Effects

LEMMA EffectTypes ==
  /\ SaveQueue \in Effects
  /\ \A c \in Children : SaveJob(c) \in Effects /\ SpawnOf(c) \in Effects
                         /\ SaveTop(c[1]) \in Effects
  /\ \A p \in Parents : SaveTop(p) \in Effects
BY DEF Effects, Children

LEMMA RequeueWritesType ==
  ASSUME NEW s \in Seq(Children) PROVE RequeueWrites(s) \in Seq(Effects)
<1>. DEFINE n == 2 * Len(s)
<1>1. n \in Nat
  OBVIOUS
<1>2. ASSUME NEW i \in 1..n PROVE RequeueWrites(s)[i] \in Effects
  <2>1. CASE i % 2 = 1
    <3>1. (i + 1) \div 2 \in 1..Len(s)
      BY <2>1
    <3>. QED BY <2>1, <3>1, EffectTypes DEF RequeueWrites
  <2>2. CASE i % 2 # 1
    <3>1. i \div 2 \in 1..Len(s)
      BY <2>2
    <3>. QED BY <2>2, <3>1, EffectTypes DEF RequeueWrites
  <2>. QED BY <2>1, <2>2
<1>. QED BY <1>1, <1>2 DEF RequeueWrites

-------------------------------------------------------------------------------
(* Records keep their types *)

\* The aggregate of statuses is a status.
LEMMA AggregateType ==
  ASSUME NEW S \in SUBSET Status PROVE AggregateTerminalStatus(S) \in Status
<1>1. CASE \E s \in S : S = {s}
  BY <1>1 DEF AggregateTerminalStatus
<1>2. CASE ~\E s \in S : S = {s}
  BY <1>2 DEF AggregateTerminalStatus, Status, Terminal
<1>. QED BY <1>1, <1>2

\* A refreshed parent's record is a parent's record.
LEMMA RefreshedType ==
  ASSUME NEW t \in TopRecord, NEW p, NEW jobs \in [Children -> JobRecord]
  PROVE  Refreshed(t, p, jobs) \in TopRecord
<1>. DEFINE kids     == ChildrenOf(p, jobs)
            statuses == {jobs[c].status : c \in kids}
            started  == t.started \/ \E c \in kids : jobs[c].started
            status   == IF "cancelling" \in statuses THEN "cancelling"
                        ELSE IF "running" \in statuses THEN "running"
                        ELSE IF "queued" \in statuses
                             THEN (IF started THEN "running" ELSE "queued")
                        ELSE AggregateTerminalStatus(statuses)
<1>1. statuses \in SUBSET Status
  BY DEF ChildrenOf, JobRecord
<1>2. status \in Status
  <2>1. {"cancelling", "running", "queued"} \subseteq Status
    BY DEF Status, Active, ProcessActive
  <2>. QED BY <1>1, <2>1, AggregateType
<1>3. started \in BOOLEAN
  OBVIOUS
<1>4. Refreshed(t, p, jobs)
        = IF kids = {} THEN t ELSE [t EXCEPT !.status = status, !.started = started]
  BY DEF Refreshed
<1>. HIDE DEF status, started, kids
<1>. QED BY <1>2, <1>3, <1>4 DEF TopRecord

LEMMA RefreshTopType ==
  ASSUME NEW p, NEW jobs \in [Children -> JobRecord], top \in [Parents -> TopRecord]
  PROVE  RefreshTop(p, jobs) \in [Parents -> TopRecord]
BY RefreshedType DEF RefreshTop

\* The transformations of a child's record keep its type.
LEMMA RecordSteps ==
  ASSUME NEW r \in JobRecord
  PROVE  /\ Requeued(r) \in JobRecord
         /\ \A s \in Status : [r EXCEPT !.status = s] \in JobRecord
         /\ \A c : Reloaded(c, r) \in JobRecord
BY DEF Requeued, Reloaded, JobRecord, Status, Active, ProcessActive, Terminal

LEMMA CancelledType ==
  ASSUME job \in [Children -> JobRecord], NEW T
  PROVE  CancelledJobs(T) \in [Children -> JobRecord]
BY RecordSteps DEF CancelledJobs, Cancelled, Status, Active, ProcessActive, Terminal

LEMMA ConstantRecords ==
  NoJob \in JobRecord /\ NewJob \in JobRecord /\ NoTop \in TopRecord
BY DEF NoJob, NewJob, NoTop, JobRecord, TopRecord, Status, Active

-------------------------------------------------------------------------------
(* Types: every action *)

LEMMA InitTypes == Init => RecordTypes
<1>. SUFFICES ASSUME Init PROVE RecordTypes
  OBVIOUS
<1>1. 1 \in Epochs /\ 0 \in 0..MaxJobs /\ 0 \in 0..MaxCrashes /\ 0 \in 0..MaxRestarts
  BY CountAssumption DEF Epochs
<1>2. job \in [Children -> JobRecord] /\ diskJob \in [Children -> JobRecord]
  BY ConstantRecords DEF Init
<1>3. top \in [Parents -> TopRecord] /\ diskTop \in [Parents -> TopRecord]
  BY ConstantRecords DEF Init
<1>4. io \in Seq(Effects)
  BY DEF Init
<1>. QED BY <1>1, <1>2, <1>3, <1>4 DEF Init, RecordTypes

\* A parent and its lanes make children.
LEMMA NewParent ==
  ASSUME made \in 0..MaxJobs, made < MaxJobs
  PROVE  made + 1 \in Parents /\ made + 1 \in 0..MaxJobs
BY CountAssumption DEF Parents

LEMMA CreateBatchTypes ==
  ASSUME RecordTypes, NEW S \in (SUBSET Lanes) \ {{}}, NEW key \in BatchKeys,
         CreateTaskBatchJob(S, key)
  PROVE  RecordTypes'
<1>. DEFINE p == made + 1   kids == {p} \X S
<1>. USE DEF RecordTypes
<1>1. p \in Parents /\ made' \in 0..MaxJobs
  BY NewParent DEF CreateTaskBatchJob
<1>2. kids \in SUBSET Children
  BY <1>1 DEF Children
<1>3. job' \in [Children -> JobRecord]
  BY ConstantRecords DEF CreateTaskBatchJob
<1>4. top' \in [Parents -> TopRecord]
  <2>1. [status |-> "queued", started |-> FALSE, kind |-> "batch",
         key |-> key, lanes |-> S] \in TopRecord
    BY DEF TopRecord, Status, Active
  <2>. QED BY <1>1, <2>1 DEF CreateTaskBatchJob
<1>5. io' \in Seq(Effects)
  <2>1. PICK s \in Orders(kids) : io' = SaveJobs(s) \o <<SaveTop(p), SaveQueue>>
    BY DEF CreateTaskBatchJob
  <2>2. s \in Seq(Children)
    BY <1>2, OrderType
  <2>. QED BY <1>1, <2>1, <2>2, SaveJobsType, EffectTypes
<1>6. kick' \in BOOLEAN
  BY DEF CreateTaskBatchJob
<1>. QED BY <1>1, <1>3, <1>4, <1>5, <1>6 DEF CreateTaskBatchJob, disk

LEMMA CreateRegisteredTypes ==
  ASSUME RecordTypes, NEW l \in Lanes, NEW key \in Requests,
         CreateRegisteredTaskJob(l, key)
  PROVE  RecordTypes'
<1>. DEFINE p == made + 1   c == <<p, l>>
<1>. USE DEF RecordTypes
<1>1. p \in Parents /\ made' \in 0..MaxJobs
  BY NewParent DEF CreateRegisteredTaskJob
<1>2. c \in Children
  BY <1>1 DEF Children
<1>3. job' \in [Children -> JobRecord]
  BY ConstantRecords DEF CreateRegisteredTaskJob
<1>4. top' \in [Parents -> TopRecord]
  <2>1. [status |-> "queued", started |-> FALSE, kind |-> "registered",
         key |-> key, lanes |-> {l}] \in TopRecord
    BY DEF TopRecord, Status, Active
  <2>. QED BY <1>1, <2>1 DEF CreateRegisteredTaskJob
<1>5. io' \in Seq(Effects)
  BY <1>1, <1>2, EffectTypes DEF CreateRegisteredTaskJob
<1>6. kick' \in BOOLEAN
  BY DEF CreateRegisteredTaskJob
<1>. QED BY <1>1, <1>3, <1>4, <1>5, <1>6 DEF CreateRegisteredTaskJob, disk

\* Both forms of cancel_job cancel children and write their records.
LEMMA CancelChildrenTypes ==
  ASSUME RecordTypes, NEW T \in SUBSET Children, NEW p \in Parents, CancelChildren(T, p)
  PROVE  job' \in [Children -> JobRecord] /\ io' \in Seq(Effects)
<1>. USE DEF RecordTypes
<1>1. PICK s \in Orders({c \in T : Cancelled(c) # job[c]}) :
        io' = SaveJobs(s) \o <<SaveTop(p), SaveQueue>>
  BY DEF CancelChildren
<1>2. s \in Seq(Children)
  BY OrderType
<1>3. SaveJobs(s) \in Seq(Effects) /\ <<SaveTop(p), SaveQueue>> \in Seq(Effects)
  BY <1>2, SaveJobsType, EffectTypes
<1>4. io' \in Seq(Effects)
  BY <1>1, <1>3
<1>5. job' \in [Children -> JobRecord]
  BY CancelledType DEF CancelChildren
<1>. QED BY <1>4, <1>5

LEMMA CancelParentTypes ==
  ASSUME RecordTypes, NEW p \in Parents, CancelParent(p)
  PROVE  RecordTypes'
<1>. DEFINE T == ChildrenOf(p, job)   jobs == CancelledJobs(T)
<1>. USE DEF RecordTypes
<1>1. T \in SUBSET Children
  BY DEF ChildrenOf
<1>2. job' \in [Children -> JobRecord] /\ io' \in Seq(Effects)
  <2>1. CASE T # {}
    BY <1>1, <2>1, CancelChildrenTypes DEF CancelParent
  <2>2. CASE T = {}
    <3>1. job' = job /\ io' = <<SaveTop(p), SaveQueue>>
      BY <2>2 DEF CancelParent
    <3>. QED BY <3>1, EffectTypes
  <2>. QED BY <2>1, <2>2
<1>3. top' \in [Parents -> TopRecord]
  <2>1. jobs \in [Children -> JobRecord]
    BY CancelledType
  <2>2. RefreshTop(p, jobs) \in [Parents -> TopRecord]
    BY <2>1, RefreshTopType
  <2>3. \A s \in Status : [top EXCEPT ![p].status = s] \in [Parents -> TopRecord]
    BY ZenonT(30) DEF TopRecord
  <2>4. {"cancelling", "cancelled"} \subseteq Status
    BY DEF Status, Active, ProcessActive, Terminal
  <2>. QED BY <2>2, <2>3, <2>4 DEF CancelParent
<1>. QED BY <1>2, <1>3 DEF CancelParent, disk, history

LEMMA CancelChildTypes ==
  ASSUME RecordTypes, NEW c \in Children, CancelChild(c)
  PROVE  RecordTypes'
<1>. USE DEF RecordTypes
<1>1. c[1] \in Parents
  BY DEF Children
<1>2. job' \in [Children -> JobRecord] /\ io' \in Seq(Effects)
  BY <1>1, CancelChildrenTypes DEF CancelChild
<1>3. top' \in [Parents -> TopRecord]
  BY CancelledType, RefreshTopType DEF CancelChild
<1>. QED BY <1>2, <1>3 DEF CancelChild, disk, history

LEMMA DispatchNoneTypes ==
  ASSUME RecordTypes, DispatchNone
  PROVE  RecordTypes'
<1>1. io' \in Seq(Effects)
  BY EffectTypes DEF DispatchNone
<1>. QED BY <1>1 DEF DispatchNone, RecordTypes, disk, history

LEMMA DispatchSpawnTypes ==
  ASSUME RecordTypes, NEW i \in DOMAIN queue, DispatchSpawn(i)
  PROVE  RecordTypes'
<1>. DEFINE c    == queue[i]
            jobs == [job EXCEPT ![c] = [@ EXCEPT !.status = "running", !.started = TRUE,
                                                  !.pid = epoch]]
<1>. USE DEF RecordTypes
<1>1. c \in Children /\ c[1] \in Parents
  BY DEF DispatchSpawn, Selects, Eligible, Children
<1>2. jobs \in [Children -> JobRecord]
  BY ZenonT(30), <1>1 DEF JobRecord, Status, Active, ProcessActive
<1>3. io' \in Seq(Effects)
  BY <1>1, EffectTypes DEF DispatchSpawn
<1>4. job' = jobs /\ top' = RefreshTop(c[1], jobs) /\ handles' = handles \union {c}
  BY DEF DispatchSpawn
<1>5. top' \in [Parents -> TopRecord]
  BY <1>2, <1>4, RefreshTopType
<1>. QED BY <1>1, <1>2, <1>3, <1>4, <1>5 DEF DispatchSpawn, disk, history

LEMMA DispatchFailsTypes ==
  ASSUME RecordTypes, NEW i \in DOMAIN queue, DispatchFails(i)
  PROVE  RecordTypes'
<1>. DEFINE c == queue[i]   jobs == [job EXCEPT ![c].status = "failed"]
<1>. USE DEF RecordTypes
<1>1. c \in Children /\ c[1] \in Parents
  BY DEF DispatchFails, Selects, Eligible, Children
<1>2. jobs \in [Children -> JobRecord]
  BY <1>1 DEF JobRecord, Status, Terminal
<1>3. io' \in Seq(Effects)
  BY <1>1, EffectTypes DEF DispatchFails
<1>4. job' = jobs /\ top' = RefreshTop(c[1], jobs)
  BY DEF DispatchFails
<1>5. top' \in [Parents -> TopRecord]
  BY <1>2, <1>4, RefreshTopType
<1>. QED BY <1>2, <1>3, <1>4, <1>5 DEF DispatchFails, disk, history

LEMMA FinishTypes ==
  ASSUME RecordTypes, NEW c \in Children, NEW outcome \in Outcomes, Finish(c, outcome)
  PROVE  RecordTypes'
<1>. DEFINE status == FinalStatus(c, outcome)
            jobs   == [job EXCEPT ![c].status = status]
<1>. USE DEF RecordTypes
<1>1. c[1] \in Parents
  BY DEF Children
<1>2. status \in Status
  BY OutcomeAssumption DEF Status, Terminal, FinalStatus
<1>3. jobs \in [Children -> JobRecord]
  BY <1>2 DEF JobRecord
<1>4. \/ UNCHANGED <<job, top, io>>
      \/ job' = jobs /\ top' = RefreshTop(c[1], jobs) /\ io' = <<SaveJob(c), SaveTop(c[1])>>
  BY DEF Finish
<1>. HIDE DEF jobs, status
<1>5. job' \in [Children -> JobRecord]
  BY <1>3, <1>4
<1>6. top' \in [Parents -> TopRecord]
  BY <1>3, <1>4, RefreshTopType
<1>7. io' \in Seq(Effects)
  <2>1. <<SaveJob(c), SaveTop(c[1])>> \in Seq(Effects)
    BY EffectTypes
  <2>2. io' = io \/ io' = <<SaveJob(c), SaveTop(c[1])>>
    BY DEF Finish
  <2>. QED BY <2>1, <2>2
<1>8. kick' \in BOOLEAN /\ handles' \subseteq Children
  BY DEF Finish
<1>. QED BY <1>5, <1>6, <1>7, <1>8 DEF Finish, disk, history

LEMMA RefreshRunningJobTypes ==
  ASSUME RecordTypes, NEW c \in Children, RefreshRunningJob(c) PROVE RecordTypes'
<1>1. io' \in Seq(Effects)
  BY EffectTypes DEF RefreshRunningJob
<1>2. top' \in [Parents -> TopRecord]
  BY RefreshTopType DEF RefreshRunningJob, RecordTypes
<1>. QED BY <1>1, <1>2 DEF RefreshRunningJob, RecordTypes, disk, history

LEMMA RefreshParentTypes ==
  ASSUME RecordTypes, NEW p \in Parents, RefreshParent(p) PROVE RecordTypes'
<1>1. io' \in Seq(Effects)
  BY EffectTypes DEF RefreshParent
<1>2. top' \in [Parents -> TopRecord]
  BY RefreshTopType DEF RefreshParent, RecordTypes
<1>. QED BY <1>1, <1>2 DEF RefreshParent, RecordTypes, disk, history

LEMMA WatchOrphanTypes ==
  ASSUME RecordTypes, NEW c \in Children, WatchOrphan(c)
  PROVE  RecordTypes'
<1>. DEFINE jobs == [job EXCEPT ![c] = Requeued(@)]
<1>. USE DEF RecordTypes
<1>1. jobs \in [Children -> JobRecord]
  BY RecordSteps
<1>2. job' = jobs /\ top' = RefreshTop(c[1], jobs)
      /\ io' = <<SaveJob(c), SaveQueue, SaveTop(c[1])>> /\ kick' = TRUE
  BY DEF WatchOrphan
<1>3. top' \in [Parents -> TopRecord]
  BY <1>1, <1>2, RefreshTopType
<1>4. io' \in Seq(Effects)
  BY <1>2, EffectTypes
<1>. QED BY <1>1, <1>2, <1>3, <1>4 DEF WatchOrphan, disk, history

LEMMA PrepareTypes ==
  ASSUME RecordTypes, PrepareForRestart
  PROVE  RecordTypes'
<1>. DEFINE running == {c \in handles : job[c].status = "running"}
            jobs == [c \in Children |-> IF c \in running THEN Requeued(job[c]) ELSE job[c]]
<1>. USE DEF RecordTypes
<1>1. running \in SUBSET Children
  OBVIOUS
<1>2. jobs \in [Children -> JobRecord]
  BY RecordSteps
<1>3. job' = jobs
  BY DEF PrepareForRestart
<1>4. top' \in [Parents -> TopRecord]
  <2>1. \A p \in Parents : RefreshTop(p, jobs)[p] \in TopRecord
    BY <1>2, RefreshTopType
  <2>. QED BY <2>1 DEF PrepareForRestart
<1>5. io' \in Seq(Effects)
  <2>1. PICK s \in Orders(running) :
          io' = IF running = {} THEN <<>> ELSE RequeueWrites(s) \o <<SaveQueue>>
    BY DEF PrepareForRestart
  <2>2. RequeueWrites(s) \in Seq(Effects)
    BY <1>1, OrderType, RequeueWritesType
  <2>. QED BY <2>1, <2>2, EffectTypes
<1>6. restarts' \in 0..MaxRestarts
  BY CountAssumption DEF PrepareForRestart
<1>7. restarting' \subseteq Children /\ phase' = "stopping"
  BY <1>1 DEF PrepareForRestart
<1>. QED BY <1>2, <1>3, <1>4, <1>5, <1>6, <1>7 DEF PrepareForRestart, disk

LEMMA NoMemoryTypes ==
  ASSUME NoMemory
  PROVE  /\ job' \in [Children -> JobRecord] /\ top' \in [Parents -> TopRecord]
         /\ handles' \subseteq Children /\ restarting' \subseteq Children
         /\ pending' \subseteq Parents /\ phase' = "down"
         /\ kick' \in BOOLEAN /\ io' \in Seq(Effects)
<1>1. job' \in [Children -> JobRecord]
  BY ConstantRecords DEF NoMemory
<1>2. top' \in [Parents -> TopRecord]
  BY ConstantRecords DEF NoMemory
<1>3. io' \in Seq(Effects)
  BY DEF NoMemory
<1>. QED BY <1>1, <1>2, <1>3 DEF NoMemory

LEMMA ExitTypes ==
  ASSUME RecordTypes, Exit PROVE RecordTypes'
BY NoMemoryTypes DEF Exit, RecordTypes, disk, history

LEMMA CrashTypes ==
  ASSUME RecordTypes, Crash PROVE RecordTypes'
<1>1. diskJob' \in [Children -> JobRecord] /\ diskTop' \in [Parents -> TopRecord]
  BY ConstantRecords DEF Crash, RecordTypes, disk
<1>2. crashes' \in 0..MaxCrashes
  BY CountAssumption DEF Crash, RecordTypes
<1>3. NoMemory /\ UNCHANGED <<live, made, epoch, restarts>>
  BY DEF Crash
<1>. QED BY <1>1, <1>2, <1>3, NoMemoryTypes DEF RecordTypes

\* Every incarnation but the first follows a crash or a graceful restart.
EpochBound == epoch + (IF phase = "up" THEN 0 ELSE 1) <= 1 + crashes + restarts

LEMMA LoadTypes ==
  ASSUME RecordTypes, EpochBound, Load
  PROVE  RecordTypes'
<1>. DEFINE jobs  == [c \in Children |-> Reloaded(c, diskJob[c])]
            stale == {c \in Children : jobs[c] # diskJob[c]}
            fresh == Refreshable(diskTop, jobs)
<1>. USE DEF RecordTypes
<1>1. jobs \in [Children -> JobRecord]
  BY RecordSteps
<1>2. job' = jobs
  BY DEF Load
<1>3. top' \in [Parents -> TopRecord]
  <2>1. \A p \in Parents : Refreshed(diskTop[p], p, jobs) \in TopRecord
    BY <1>1, RefreshedType
  <2>. QED BY <2>1 DEF Load
<1>4. io' \in Seq(Effects)
  <2>1. PICK s \in Orders(stale), t \in Orders(fresh) :
          io' = SaveJobs(s) \o SaveTops(t) \o <<SaveQueue>>
    BY DEF Load
  <2>2. SaveJobs(s) \in Seq(Effects)
    BY OrderType, SaveJobsType
  <2>3. SaveTops(t) \in Seq(Effects)
    BY ParentOrderType, SaveTopsType DEF Refreshable
  <2>. QED BY <2>1, <2>2, <2>3, EffectTypes
<1>5. epoch' \in Epochs
  BY CountAssumption DEF Load, EpochBound, Epochs
<1>6. phase' = "up" /\ kick' = TRUE
  BY DEF Load
<1>. QED BY <1>1, <1>2, <1>3, <1>4, <1>5, <1>6 DEF Load, disk

LEMMA FlushTypes ==
  ASSUME RecordTypes, Flush PROVE RecordTypes'
<1>. USE DEF RecordTypes
<1>1. io' \in Seq(Effects)
  BY DEF Flush
<1>2. Head(io) \in Effects
  BY DEF Flush
<1>3. Head(io).op = "job" => Head(io).c \in Children
  BY <1>2 DEF Effects, SaveJob, SaveTop, SpawnOf, SaveQueue
<1>4. Head(io).op = "top" => Head(io).p \in Parents
  BY <1>2 DEF Effects, SaveJob, SaveTop, SpawnOf, SaveQueue
<1>5. Head(io).op = "spawn" => Head(io).c \in Children
  BY <1>2 DEF Effects, SaveJob, SaveTop, SpawnOf, SaveQueue
<1>6. diskJob' \in [Children -> JobRecord]
  BY <1>3 DEF Flush
<1>7. diskTop' \in [Parents -> TopRecord]
  BY <1>4 DEF Flush
<1>8. live' \subseteq (Children \X Epochs)
  BY <1>5 DEF Flush
<1>. QED BY <1>1, <1>6, <1>7, <1>8 DEF Flush, memory, history

LEMMA ProcessExitTypes ==
  ASSUME RecordTypes, NEW x \in live, ProcessExit(x) PROVE RecordTypes'
BY DEF RecordTypes, ProcessExit, memory, disk, history

LEMMA ListPendingTypes ==
  ASSUME RecordTypes, NEW key \in Configs, ListPendingJobs(key) PROVE RecordTypes'
BY DEF RecordTypes, ListPendingJobs, disk, history

\* Every step keeps the types and the bound on incarnations.
LEMMA EpochStep ==
  ASSUME RecordTypes, EpochBound, [Next]_vars PROVE EpochBound'
<1>. USE CountAssumption DEF RecordTypes, EpochBound, Epochs
<1>1. CASE UNCHANGED <<epoch, phase, crashes, restarts>>
  BY <1>1
<1>2. CASE PrepareForRestart
  BY <1>2 DEF PrepareForRestart
<1>3. CASE Exit
  BY <1>3 DEF Exit, NoMemory, history
<1>4. CASE Crash
  BY <1>4 DEF Crash, NoMemory
<1>5. CASE Load
  <2>1. phase = "down" /\ phase' = "up" /\ epoch' = epoch + 1 /\ crashes' = crashes /\ restarts' = restarts
    BY <1>5, Zenon DEF Load
  <2>. QED BY <2>1
<1>6. \/ UNCHANGED <<epoch, phase, crashes, restarts>>
      \/ PrepareForRestart \/ Exit \/ Crash \/ Load
  BY DEF Next, vars, history, CreateTaskBatchJob, CreateRegisteredTaskJob, CancelParent,
         CancelChild, ListPendingJobs, DispatchNone, DispatchSpawn, DispatchFails, Finish,
         RefreshRunningJob, RefreshParent, WatchOrphan, Flush, ProcessExit
<1>. QED BY <1>1, <1>2, <1>3, <1>4, <1>5, <1>6

LEMMA TypesStep ==
  ASSUME RecordTypes, EpochBound, [Next]_vars PROVE RecordTypes'
<1>1. CASE UNCHANGED vars
  BY <1>1 DEF vars, memory, disk, history, RecordTypes
<1>2. CASE Next
  BY <1>2, CreateBatchTypes, CreateRegisteredTypes, CancelParentTypes, CancelChildTypes,
     ListPendingTypes, DispatchNoneTypes, DispatchSpawnTypes, DispatchFailsTypes, FinishTypes,
     RefreshRunningJobTypes, RefreshParentTypes, WatchOrphanTypes, PrepareTypes, ExitTypes,
     CrashTypes, LoadTypes, FlushTypes, ProcessExitTypes
  DEF Next
<1>. QED BY <1>1, <1>2

\* Every record the service keeps in memory or on disk has its type, in every
\* reachable state and for every size of the system.
THEOREM RecordsTyped == Spec => []RecordTypes
<1>1. Init => RecordTypes /\ EpochBound
  BY InitTypes, CountAssumption DEF Init, EpochBound
<1>2. RecordTypes /\ EpochBound /\ [Next]_vars => (RecordTypes /\ EpochBound)'
  BY TypesStep, EpochStep
<1>. QED BY <1>1, <1>2, PTL DEF Spec

-------------------------------------------------------------------------------
(* Slots: what the handlers that hold the lock have in common *)

\* A handler changes records in memory only, by legal moves, and has the write of
\* every record it changed among its effects.
QuietMove(c) == <<Life(job[c]), Life(job'[c])>> \in Moves
Saved(c)     == job'[c] = job[c] \/ \E i \in DOMAIN io' : io'[i] = SaveJob(c)
Handler ==
    /\ Locked /\ phase' # "down" /\ diskJob' = diskJob
    /\ \A c \in Children : Saved(c)

LEMMA LifeValues ==
  \A r : /\ Life(r) \in {"absent", "waiting", "active", "done"}
         /\ Occupies(r) <=> Life(r) = "active"
         /\ Life(r) = "absent" <=> r.status = "absent"
         /\ Life(r) = "waiting" <=> r.status = "queued"
BY DEF Life, Occupies, ProcessActive

LEMMA StayMove == \A r : <<Life(r), Life(r)>> \in Moves
BY LifeValues DEF Moves

\* The writes of an order of S contain the write of each element of S.
LEMMA OrderSaves ==
  ASSUME NEW S \in SUBSET Children, NEW s \in Orders(S), NEW t \in Seq(Effects)
  PROVE  \A c \in S : \E i \in DOMAIN (SaveJobs(s) \o t) : (SaveJobs(s) \o t)[i] = SaveJob(c)
<1>. TAKE c \in S
<1>1. s \in Seq(Children) /\ \E i \in DOMAIN s : s[i] = c
  BY OrderType
<1>2. PICK i \in DOMAIN s : s[i] = c
  BY <1>1
<1>3. SaveJobs(s) \in Seq(Effects) /\ Len(SaveJobs(s)) = Len(s) /\ SaveJobs(s)[i] = SaveJob(c)
  BY <1>1, <1>2, SaveJobsType DEF SaveJobs
<1>4. i \in 1..Len(s)
  BY <1>1
<1>5. (SaveJobs(s) \o t)[i] = SaveJobs(s)[i] /\ i \in DOMAIN (SaveJobs(s) \o t)
  BY <1>1, <1>3, <1>4
<1>. QED BY <1>3, <1>5

LEMMA RequeueSaves ==
  ASSUME NEW S \in SUBSET Children, NEW s \in Orders(S), NEW t \in Seq(Effects)
  PROVE  \A c \in S : \E i \in DOMAIN (RequeueWrites(s) \o t) : (RequeueWrites(s) \o t)[i] = SaveJob(c)
<1>. TAKE c \in S
<1>1. s \in Seq(Children) /\ \E i \in DOMAIN s : s[i] = c
  BY OrderType
<1>2. PICK k \in DOMAIN s : s[k] = c
  BY <1>1
<1>. DEFINE i == 2 * k - 1
<1>3. k \in 1..Len(s) /\ Len(s) \in Nat
  BY <1>1
<1>4. i \in 1..(2 * Len(s)) /\ i % 2 = 1 /\ (i + 1) \div 2 = k
  BY <1>3
<1>5. RequeueWrites(s) \in Seq(Effects) /\ Len(RequeueWrites(s)) = 2 * Len(s)
  BY <1>1, <1>3, RequeueWritesType DEF RequeueWrites
<1>6. RequeueWrites(s)[i] = SaveJob(c)
  BY <1>2, <1>4 DEF RequeueWrites
<1>. HIDE DEF i
<1>7. (RequeueWrites(s) \o t)[i] = RequeueWrites(s)[i] /\ i \in DOMAIN (RequeueWrites(s) \o t)
  BY <1>3, <1>4, <1>5
<1>. QED BY <1>6, <1>7

\* A handler that starts nothing.
Quiet ==
    /\ Handler /\ handles' \subseteq handles /\ made' >= made
    /\ \A c \in Children : QuietMove(c) /\ (c[1] > made' => job'[c] = job[c])

\* Handlers that leave the children's records alone.
LEMMA ReadersQuiet ==
  ASSUME RecordTypes, Locked, phase' = phase,
         UNCHANGED <<job, diskJob, made>>, handles' \subseteq handles
  PROVE  Quiet
BY StayMove DEF Quiet, Handler, Saved, QuietMove, Locked, RecordTypes

LEMMA CreateBatchQuiet ==
  ASSUME RecordTypes, Unborn, NEW S \in (SUBSET Lanes) \ {{}}, NEW key \in BatchKeys,
         CreateTaskBatchJob(S, key)
  PROVE  Quiet
<1>. DEFINE p == made + 1   kids == {p} \X S
<1>1. p \in Parents
  BY NewParent DEF CreateTaskBatchJob, RecordTypes
<1>2. kids \in SUBSET Children
  BY <1>1 DEF Children
<1>3. \A c \in kids : c[1] = p /\ job[c] = NoJob
  BY <1>2 DEF Unborn, RecordTypes
<1>4. \A c \in Children : job'[c] = IF c \in kids THEN NewJob ELSE job[c]
  BY DEF CreateTaskBatchJob
<1>5. \A c \in Children : QuietMove(c)
  <2>1. Life(NoJob) = "absent" /\ Life(NewJob) = "waiting"
    BY DEF Life, NoJob, NewJob
  <2>. QED BY <1>3, <1>4, <2>1, StayMove DEF QuietMove, Moves
<1>6. \A c \in Children : Saved(c)
  <2>1. PICK s \in Orders(kids) : io' = SaveJobs(s) \o <<SaveTop(p), SaveQueue>>
    BY DEF CreateTaskBatchJob
  <2>2. <<SaveTop(p), SaveQueue>> \in Seq(Effects)
    BY <1>1, EffectTypes
  <2>3. \A c \in kids : \E i \in DOMAIN io' : io'[i] = SaveJob(c)
    <3>. HIDE DEF kids
    <3>. QED BY <1>2, <2>1, <2>2, OrderSaves, Zenon
  <2>. QED BY <1>4, <2>3 DEF Saved
<1>7. Locked /\ phase' # "down" /\ diskJob' = diskJob /\ handles' = handles /\ made' = p
  BY DEF CreateTaskBatchJob, Locked, disk
<1>8. p >= made /\ \A c \in Children : c[1] > p => c \notin kids
  BY <1>3 DEF RecordTypes
<1>. QED BY <1>4, <1>5, <1>6, <1>7, <1>8 DEF Quiet, Handler

LEMMA CreateRegisteredQuiet ==
  ASSUME RecordTypes, Unborn, NEW l \in Lanes, NEW key \in Requests,
         CreateRegisteredTaskJob(l, key)
  PROVE  Quiet
<1>. DEFINE p == made + 1   k == <<p, l>>
<1>1. p \in Parents /\ k \in Children
  BY NewParent DEF CreateRegisteredTaskJob, RecordTypes, Children
<1>2. job[k] = NoJob
  BY <1>1 DEF Unborn, RecordTypes
<1>3. \A c \in Children : job'[c] = IF c = k THEN NewJob ELSE job[c]
  BY <1>1 DEF CreateRegisteredTaskJob, RecordTypes
<1>4. \A c \in Children : QuietMove(c)
  <2>1. Life(NoJob) = "absent" /\ Life(NewJob) = "waiting"
    BY DEF Life, NoJob, NewJob
  <2>. QED BY <1>2, <1>3, <2>1, StayMove DEF QuietMove, Moves
<1>5. io' = <<SaveTop(p), SaveJob(k), SaveQueue>>
  BY DEF CreateRegisteredTaskJob
<1>6. \A c \in Children : Saved(c)
  <2>1. 2 \in DOMAIN io' /\ io'[2] = SaveJob(k)
    BY <1>5
  <2>. QED BY <1>3, <2>1 DEF Saved
<1>7. Locked /\ phase' # "down" /\ diskJob' = diskJob /\ handles' = handles /\ made' = p
  BY DEF CreateRegisteredTaskJob, Locked, disk
<1>8. p >= made /\ \A c \in Children : c[1] > p => c # k
  BY DEF RecordTypes
<1>. QED BY <1>3, <1>4, <1>6, <1>7, <1>8 DEF Quiet, Handler

\* A cancellation leaves a record alone, ends a waiting child or stops an active one.
LEMMA CancelledMove ==
  ASSUME NEW c \in Children, job[c] \in JobRecord
  PROVE  /\ <<Life(job[c]), Life(Cancelled(c))>> \in Moves
         /\ job[c] = NoJob => Cancelled(c) = NoJob
BY StayMove DEF Cancelled, Life, Moves, JobRecord, ProcessActive, NoJob

LEMMA CancelChildrenQuiet ==
  ASSUME RecordTypes, Unborn, NEW T \in SUBSET Children, NEW p \in Parents,
         CancelChildren(T, p), Locked, phase' = phase,
         UNCHANGED <<diskJob, made, handles>>
  PROVE  Quiet
<1>. DEFINE hit == {c \in T : Cancelled(c) # job[c]}
<1>1. \A c \in Children : job'[c] = IF c \in T THEN Cancelled(c) ELSE job[c]
  BY DEF CancelChildren, CancelledJobs
<1>2. \A c \in Children : QuietMove(c)
  BY <1>1, CancelledMove, StayMove DEF QuietMove, RecordTypes
<1>3. \A c \in Children : Saved(c)
  <2>1. PICK s \in Orders(hit) : io' = SaveJobs(s) \o <<SaveTop(p), SaveQueue>>
    BY DEF CancelChildren
  <2>2. <<SaveTop(p), SaveQueue>> \in Seq(Effects)
    BY EffectTypes
  <2>3. \A c \in hit : \E i \in DOMAIN io' : io'[i] = SaveJob(c)
    <3>1. hit \in SUBSET Children
      OBVIOUS
    <3>. HIDE DEF hit
    <3>. QED BY <2>1, <2>2, <3>1, OrderSaves, Zenon
  <2>. QED BY <1>1, <2>3 DEF Saved
<1>4. \A c \in Children : c[1] > made' => job'[c] = job[c]
  BY <1>1, CancelledMove DEF Unborn, RecordTypes
<1>. QED BY <1>2, <1>3, <1>4 DEF Quiet, Handler, Locked, RecordTypes

LEMMA CancelParentQuiet ==
  ASSUME RecordTypes, Unborn, NEW p \in Parents, CancelParent(p)
  PROVE  Quiet
<1>. DEFINE T == ChildrenOf(p, job)
<1>1. Locked /\ phase' = phase /\ UNCHANGED <<diskJob, made, handles>>
  BY DEF CancelParent, disk, history
<1>2. CASE T # {}
  BY <1>1, <1>2, CancelChildrenQuiet DEF CancelParent, ChildrenOf
<1>3. CASE T = {}
  BY <1>1, <1>3, ReadersQuiet DEF CancelParent
<1>. QED BY <1>2, <1>3

LEMMA CancelChildQuiet ==
  ASSUME RecordTypes, Unborn, NEW c \in Children, CancelChild(c)
  PROVE  Quiet
<1>1. c[1] \in Parents
  BY DEF Children
<1>. QED BY <1>1, CancelChildrenQuiet DEF CancelChild, disk, history

LEMMA DispatchFailsQuiet ==
  ASSUME RecordTypes, Unborn, NEW i \in DOMAIN queue, DispatchFails(i)
  PROVE  Quiet
<1>. DEFINE k == queue[i]
<1>1. k \in Children /\ job[k].status = "queued" /\ job[k] \in JobRecord
  BY DEF DispatchFails, Selects, Eligible, RecordTypes
<1>2. \A c \in Children : job'[c] = IF c = k THEN [job[k] EXCEPT !.status = "failed"] ELSE job[c]
  BY <1>1 DEF DispatchFails, RecordTypes
<1>3. \A c \in Children : QuietMove(c)
  <2>1. <<Life(job[k]), Life([job[k] EXCEPT !.status = "failed"])>> \in Moves
    BY <1>1 DEF Life, Moves, JobRecord, ProcessActive
  <2>. QED BY <1>2, <2>1, StayMove DEF QuietMove
<1>4. io' = <<SaveQueue, SaveJob(k), SaveTop(k[1])>>
  BY DEF DispatchFails
<1>5. \A c \in Children : Saved(c)
  <2>1. 2 \in DOMAIN io' /\ io'[2] = SaveJob(k)
    BY <1>4
  <2>. QED BY <1>2, <2>1 DEF Saved
<1>6. \A c \in Children : c[1] > made => c # k
  BY <1>1 DEF Unborn, NoJob
<1>7. Locked /\ phase' # "down" /\ diskJob' = diskJob /\ handles' = handles /\ made' = made
  BY DEF DispatchFails, Dispatching, Locked, disk, history
<1>. QED BY <1>2, <1>3, <1>5, <1>6, <1>7 DEF Quiet, Handler, RecordTypes

LEMMA FinishQuiet ==
  ASSUME RecordTypes, Unborn, HandlesKnown,
         NEW k \in Children, NEW outcome \in Outcomes, Finish(k, outcome)
  PROVE  Quiet
<1>. DEFINE status == FinalStatus(k, outcome)
<1>1. Locked /\ phase' = phase /\ UNCHANGED <<diskJob, made>> /\ handles' \subseteq handles
  BY DEF Finish, disk, history
<1>2. CASE k \in restarting
  BY <1>1, <1>2, ReadersQuiet DEF Finish
<1>3. CASE k \notin restarting
  <2>1. \A c \in Children : job'[c] = IF c = k THEN [job[k] EXCEPT !.status = status] ELSE job[c]
    BY <1>3 DEF Finish, RecordTypes
  <2>2. job[k] \in JobRecord /\ job[k].status # "absent"
    BY DEF Finish, HandlesKnown, RecordTypes
  <2>3. Life([job[k] EXCEPT !.status = status]) = "done"
    BY <2>2, OutcomeAssumption DEF Life, JobRecord, ProcessActive, FinalStatus
  <2>. HIDE DEF status
  <2>4. \A c \in Children : QuietMove(c)
    BY <2>1, <2>2, <2>3, LifeValues, StayMove DEF QuietMove, Moves
  <2>5. \A c \in Children : Saved(c)
    <3>1. io' = <<SaveJob(k), SaveTop(k[1])>>
      BY <1>3 DEF Finish
    <3>2. 1 \in DOMAIN io' /\ io'[1] = SaveJob(k)
      BY <3>1
    <3>. QED BY <2>1, <3>2 DEF Saved
  <2>6. \A c \in Children : c[1] > made => c # k
    BY <2>2 DEF Unborn, NoJob
  <2>. QED BY <1>1, <2>1, <2>4, <2>5, <2>6 DEF Quiet, Handler, Locked, RecordTypes
<1>. QED BY <1>2, <1>3

\* Requeueing an active child is a legal move.
LEMMA RequeuedMove ==
  ASSUME NEW r \in JobRecord, r.status = "running"
  PROVE  <<Life(r), Life(Requeued(r))>> \in Moves
BY DEF Life, Requeued, Moves, JobRecord, ProcessActive

LEMMA WatchOrphanQuiet ==
  ASSUME RecordTypes, Unborn, NEW k \in Children, WatchOrphan(k)
  PROVE  Quiet
<1>1. job[k] \in JobRecord /\ job[k].status = "running"
  BY DEF WatchOrphan, RecordTypes
<1>2. \A c \in Children : job'[c] = IF c = k THEN Requeued(job[k]) ELSE job[c]
  BY DEF WatchOrphan, RecordTypes
<1>3. \A c \in Children : QuietMove(c)
  BY <1>1, <1>2, RequeuedMove, StayMove DEF QuietMove
<1>4. \A c \in Children : Saved(c)
  <2>1. io' = <<SaveJob(k), SaveQueue, SaveTop(k[1])>>
    BY DEF WatchOrphan
  <2>2. 1 \in DOMAIN io' /\ io'[1] = SaveJob(k)
    BY <2>1
  <2>. QED BY <1>2, <2>2 DEF Saved
<1>5. \A c \in Children : c[1] > made => c # k
  BY <1>1 DEF Unborn, NoJob
<1>6. Locked /\ phase' = phase /\ diskJob' = diskJob /\ handles' = handles /\ made' = made
  BY DEF WatchOrphan, disk, history
<1>. QED BY <1>2, <1>3, <1>4, <1>5, <1>6 DEF Quiet, Handler, Locked, RecordTypes

LEMMA PrepareQuiet ==
  ASSUME RecordTypes, Unborn, PrepareForRestart
  PROVE  Quiet
<1>. DEFINE running == {c \in handles : job[c].status = "running"}
<1>1. running \in SUBSET Children
  BY DEF RecordTypes
<1>2. \A c \in Children : job'[c] = IF c \in running THEN Requeued(job[c]) ELSE job[c]
  BY DEF PrepareForRestart
<1>3. \A c \in Children : QuietMove(c)
  BY <1>2, RequeuedMove, StayMove DEF QuietMove, RecordTypes
<1>4. \A c \in Children : Saved(c)
  <2>1. CASE running = {}
    BY <1>2, <2>1 DEF Saved
  <2>2. CASE running # {}
    <3>1. PICK s \in Orders(running) : io' = RequeueWrites(s) \o <<SaveQueue>>
      BY <2>2 DEF PrepareForRestart
    <3>2. <<SaveQueue>> \in Seq(Effects)
      BY EffectTypes
    <3>3. \A c \in running : \E i \in DOMAIN io' : io'[i] = SaveJob(c)
      <4>. HIDE DEF running
      <4>. QED BY <1>1, <3>1, <3>2, RequeueSaves, Zenon
    <3>. QED BY <1>2, <3>3 DEF Saved
  <2>. QED BY <2>1, <2>2
<1>5. \A c \in Children : c[1] > made => c \notin running
  BY DEF Unborn, NoJob
<1>6. Locked /\ phase' = "stopping" /\ diskJob' = diskJob /\ handles' = handles /\ made' = made
  BY DEF PrepareForRestart, disk
<1>. QED BY <1>2, <1>3, <1>4, <1>5, <1>6 DEF Quiet, Handler, RecordTypes

-------------------------------------------------------------------------------
(* Slots: every step *)

\* With the lock free the files say what memory says.
LEMMA LockedFiles ==
  ASSUME DiskLags, Locked PROVE \A c \in Children : diskJob[c] = job[c]
<1>1. phase # "down" /\ io = <<>>
  BY DEF Locked
<1>2. DOMAIN io = {}
  BY <1>1
<1>. QED BY <1>1, <1>2 DEF DiskLags, Running

LEMMA OccupiedFinite == IsFiniteSet(Occupied) /\ Cardinality(Occupied) \in Nat
BY ChildrenFinite, FS_Subset, FS_CardinalityType DEF Occupied

\* Slots that are given up endanger nothing.
LEMMA SlotsShrink ==
  ASSUME LaneExclusive, WithinLimit, Occupied' \subseteq Occupied
  PROVE  LaneExclusive' /\ WithinLimit'
<1>1. LaneExclusive'
  BY DEF LaneExclusive
<1>2. Cardinality(Occupied') <= Cardinality(Occupied) /\ Cardinality(Occupied') \in Nat
  BY OccupiedFinite, FS_Subset, FS_CardinalityType
<1>3. WithinLimit'
  BY <1>2, OccupiedFinite, CountAssumption DEF WithinLimit
<1>. QED BY <1>1, <1>3

\* A handler that starts nothing keeps the invariant.
LEMMA QuietSlots ==
  ASSUME RecordTypes, RecordTypes', SlotInvariant, Quiet PROVE SlotInvariant'
<1>. USE DEF SlotInvariant, Quiet, Handler
<1>1. \A c \in Children : diskJob[c] = job[c] /\ diskJob'[c] = job[c]
  BY LockedFiles
<1>2. \A c \in Children : <<Life(diskJob'[c]), Life(job'[c])>> \in Moves
  BY <1>1 DEF QuietMove
<1>3. DiskLags'
  BY <1>1, <1>2 DEF DiskLags, Saved
<1>4. Unborn'
  <2>1. made \in Int /\ made' \in Int /\ made' >= made
    BY DEF RecordTypes
  <2>2. ASSUME NEW c \in Children, c[1] > made' PROVE job'[c] = NoJob /\ diskJob'[c] = NoJob
    <3>1. c[1] > made
      BY <2>1, <2>2 DEF Children, Parents
    <3>. QED BY <1>1, <2>2, <3>1 DEF Unborn
  <2>. QED BY <2>2 DEF Unborn
<1>5. HandlesKnown'
  <2>1. ASSUME NEW c \in handles' PROVE job'[c].status # "absent"
    <3>1. c \in Children /\ job[c].status # "absent" /\ <<Life(job[c]), Life(job'[c])>> \in Moves
      BY DEF HandlesKnown, RecordTypes, QuietMove
    <3>. QED BY <3>1, LifeValues DEF Moves
  <2>. QED BY <2>1 DEF HandlesKnown
<1>6. DownKnowsNothing'
  BY DEF DownKnowsNothing, Running
<1>7. Occupied' \subseteq Occupied
  <2>1. ASSUME NEW c \in Children, Occupies(job'[c]) PROVE Occupies(job[c])
    BY <2>1, LifeValues DEF QuietMove, Moves
  <2>. QED BY <1>1, <2>1 DEF Occupied
<1>. QED BY <1>3, <1>4, <1>5, <1>6, <1>7, SlotsShrink

LEMMA SpawnSlots ==
  ASSUME RecordTypes, SlotInvariant, NEW i \in DOMAIN queue, DispatchSpawn(i)
  PROVE  SlotInvariant'
<1>. DEFINE k == queue[i]
            r == [job[k] EXCEPT !.status = "running", !.started = TRUE, !.pid = epoch]
<1>. USE DEF SlotInvariant
<1>1. /\ k \in Children /\ job[k] \in JobRecord /\ job[k].status = "queued"
      /\ Cardinality(ActiveJobs) < MaxParallel
      /\ \A d \in ActiveJobs : Lane(d) # Lane(k)
  BY DEF DispatchSpawn, Selects, Eligible, RecordTypes
<1>2. \A c \in Children : job'[c] = IF c = k THEN r ELSE job[c]
  BY <1>1 DEF DispatchSpawn, RecordTypes
<1>3. \A c \in Children : diskJob[c] = job[c] /\ diskJob'[c] = job[c]
  <2>1. Locked /\ diskJob' = diskJob
    BY DEF DispatchSpawn, Dispatching, disk
  <2>. QED BY <2>1, LockedFiles
<1>4. Life(r) = "active" /\ Life(job[k]) = "waiting" /\ r.status = "running"
  BY <1>1 DEF Life, JobRecord, ProcessActive
<1>5. made' = made /\ phase' = phase /\ handles' = handles \union {k} /\ Locked
  BY DEF DispatchSpawn, Dispatching, history
<1>6. 3 \in DOMAIN io' /\ io'[3] = SaveJob(k)
  BY DEF DispatchSpawn
<1>. HIDE DEF k, r
<1>7. DiskLags'
  <2>1. \A c \in Children : <<Life(diskJob'[c]), Life(job'[c])>>
                              \in Moves \union {<<"waiting", "active">>}
    BY <1>2, <1>3, <1>4, StayMove
  <2>. QED BY <1>2, <1>3, <1>6, <2>1 DEF DiskLags
<1>8. Unborn'
  BY <1>1, <1>2, <1>3, <1>5 DEF Unborn, NoJob
<1>9. HandlesKnown'
  BY <1>1, <1>2, <1>4, <1>5 DEF HandlesKnown, RecordTypes
<1>10. DownKnowsNothing'
  BY <1>5 DEF DownKnowsNothing, Running, Locked
<1>11. Occupied = ActiveJobs /\ Occupied' = Occupied \union {k} /\ k \notin Occupied
  <2>1. Occupied = ActiveJobs
    BY <1>3 DEF Occupied, ActiveJobs, Occupies
  <2>2. k \notin Occupied
    BY <1>1, <2>1 DEF ActiveJobs, ProcessActive
  <2>3. \A c \in Children : c \in Occupied' <=> c \in Occupied \/ c = k
    BY <1>2, <1>3, <1>4, LifeValues DEF Occupied
  <2>4. Occupied' \subseteq Children /\ Occupied \subseteq Children
    BY DEF Occupied
  <2>. QED BY <1>1, <2>1, <2>2, <2>3, <2>4
<1>12. LaneExclusive'
  BY <1>1, <1>11 DEF LaneExclusive
<1>13. WithinLimit'
  <2>1. Cardinality(Occupied') = Cardinality(Occupied) + 1
    BY <1>11, OccupiedFinite, FS_AddElement
  <2>. QED BY <1>1, <1>11, <2>1, OccupiedFinite, CountAssumption DEF WithinLimit
<1>. QED BY <1>7, <1>8, <1>9, <1>10, <1>12, <1>13

\* The service stops or dies: memory is gone, and the files hold what they held,
\* but perhaps for one record that is empty.
LEMMA StopSlots ==
  ASSUME SlotInvariant, NoMemory, made' = made,
         \A c \in Children : diskJob'[c] \in {diskJob[c], NoJob}
  PROVE  SlotInvariant'
<1>. USE DEF SlotInvariant, NoMemory
<1>1. \A c \in Children : job'[c] = NoJob /\ ~Occupies(NoJob)
  BY DEF Occupies, NoJob, ProcessActive
<1>2. Occupied' \subseteq Occupied
  BY <1>1 DEF Occupied
<1>3. DiskLags'
  BY DEF DiskLags, Running
<1>4. Unborn' /\ HandlesKnown' /\ DownKnowsNothing'
  BY <1>1 DEF Unborn, HandlesKnown, DownKnowsNothing, Running
<1>. QED BY <1>2, <1>3, <1>4, SlotsShrink

LEMMA CrashSlots ==
  ASSUME RecordTypes, SlotInvariant, Crash PROVE SlotInvariant'
<1>1. \A c \in Children : diskJob'[c] \in {diskJob[c], NoJob}
  BY DEF Crash, disk, RecordTypes
<1>. QED BY <1>1, StopSlots DEF Crash

LEMMA ExitSlots ==
  ASSUME SlotInvariant, Exit PROVE SlotInvariant'
BY StopSlots DEF Exit, disk, history

\* What a reload makes of a record is a legal move, and nothing of no record.
LEMMA ReloadedMove ==
  ASSUME NEW c, NEW r \in JobRecord
  PROVE  <<Life(r), Life(Reloaded(c, r))>> \in Moves /\ Reloaded(c, NoJob) = NoJob
<1>1. CASE r.status = "running" /\ ~RecordedProcessIsRunning(c, r)
  BY <1>1, RequeuedMove DEF Reloaded, NoJob
<1>2. CASE r.status = "cancelling"
  BY <1>2 DEF Reloaded, Life, Moves, ProcessActive, JobRecord, NoJob
<1>3. CASE ~(r.status = "running" /\ ~RecordedProcessIsRunning(c, r)) /\ r.status # "cancelling"
  BY <1>3, StayMove DEF Reloaded, NoJob
<1>. QED BY <1>1, <1>2, <1>3

LEMMA LoadSlots ==
  ASSUME RecordTypes, SlotInvariant, Load PROVE SlotInvariant'
<1>. DEFINE jobs  == [c \in Children |-> Reloaded(c, diskJob[c])]
            stale == {c \in Children : jobs[c] # diskJob[c]}
            fresh == Refreshable(diskTop, jobs)
<1>. USE DEF SlotInvariant
<1>1. \A c \in Children : /\ job'[c] = Reloaded(c, diskJob[c])
                          /\ diskJob[c] \in JobRecord /\ diskJob'[c] = diskJob[c]
  BY DEF Load, RecordTypes, disk
<1>2. \A c \in Children : <<Life(diskJob'[c]), Life(job'[c])>> \in Moves
  BY <1>1, ReloadedMove
<1>3. \A c \in stale : \E i \in DOMAIN io' : io'[i] = SaveJob(c)
  <2>1. PICK s \in Orders(stale), t \in Orders(fresh) :
          io' = SaveJobs(s) \o SaveTops(t) \o <<SaveQueue>>
    BY DEF Load
  <2>2. stale \in SUBSET Children /\ fresh \in SUBSET Parents
    BY DEF Refreshable
  <2>. HIDE DEF stale, fresh
  <2>3. SaveJobs(s) \in Seq(Effects) /\ SaveTops(t) \in Seq(Effects)
        /\ <<SaveQueue>> \in Seq(Effects)
    BY <2>2, OrderType, ParentOrderType, SaveJobsType, SaveTopsType, EffectTypes
  <2>4. io' = SaveJobs(s) \o (SaveTops(t) \o <<SaveQueue>>)
        /\ (SaveTops(t) \o <<SaveQueue>>) \in Seq(Effects)
    BY <2>1, <2>3
  <2>. QED BY <2>2, <2>4, OrderSaves, Zenon
<1>4. DiskLags'
  <2>1. \A c \in Children : job'[c] = diskJob'[c] \/ c \in stale
    BY <1>1
  <2>. QED BY <1>2, <1>3, <2>1 DEF DiskLags
<1>5. Unborn'
  <2>1. made' = made
    BY DEF Load
  <2>2. \A c \in Children : diskJob[c] = NoJob => job'[c] = NoJob
    BY <1>1, ReloadedMove
  <2>. QED BY <1>1, <2>1, <2>2 DEF Unborn
<1>6. HandlesKnown' /\ DownKnowsNothing'
  BY DEF Load, DownKnowsNothing, HandlesKnown, Running
<1>7. Occupied' \subseteq Occupied
  <2>1. ASSUME NEW c \in Children, Occupies(job'[c]) PROVE Occupies(diskJob[c])
    BY <1>1, <1>2, <2>1, LifeValues DEF Moves
  <2>. QED BY <1>1, <2>1 DEF Occupied
<1>. QED BY <1>4, <1>5, <1>6, <1>7, SlotsShrink

\* Every flush of a record brings the file up to memory.
LEMMA FlushedRecord ==
  ASSUME RecordTypes, Flush, NEW c \in Children
  PROVE  /\ diskJob'[c] = IF Head(io) = SaveJob(c) THEN job[c] ELSE diskJob[c]
         /\ UNCHANGED <<job, handles, made, phase>>
<1>1. Head(io) \in Effects
  BY DEF Flush, RecordTypes
<1>2. Head(io).op = "job" /\ Head(io).c = c <=> Head(io) = SaveJob(c)
  BY <1>1 DEF Effects, SaveJob, SaveTop, SpawnOf, SaveQueue
<1>. QED BY <1>2 DEF Flush, memory, history, RecordTypes

LEMMA FlushSlots ==
  ASSUME RecordTypes, SlotInvariant, Flush PROVE SlotInvariant'
<1>. USE DEF SlotInvariant
<1>1. \A c \in Children : diskJob'[c] = IF Head(io) = SaveJob(c) THEN job[c] ELSE diskJob[c]
  BY FlushedRecord
<1>2. UNCHANGED <<job, handles, made, phase>>
  BY DEF Flush, memory, history
<1>3. io \in Seq(Effects) /\ io # <<>> /\ io' = Tail(io)
  BY DEF Flush, RecordTypes
<1>4. phase # "down"
  BY <1>3 DEF DownKnowsNothing, Running
<1>5. DiskLags'
  <2>1. ASSUME NEW c \in Children
        PROVE  /\ diskJob'[c] = job'[c] \/ \E i \in DOMAIN io' : io'[i] = SaveJob(c)
               /\ <<Life(diskJob'[c]), Life(job'[c])>> \in Moves \union {<<"waiting", "active">>}
    <3>1. CASE Head(io) = SaveJob(c)
      BY <1>1, <1>2, <3>1, StayMove
    <3>2. CASE Head(io) # SaveJob(c)
      <4>1. diskJob'[c] = diskJob[c] /\ job'[c] = job[c]
        BY <1>1, <1>2, <3>2
      <4>2. \A i \in DOMAIN io : io[i] = SaveJob(c) => i - 1 \in DOMAIN io' /\ io'[i - 1] = SaveJob(c)
        BY <1>3, <3>2
      <4>. QED BY <1>4, <4>1, <4>2 DEF DiskLags, Running
    <3>. QED BY <3>1, <3>2
  <2>. QED BY <2>1 DEF DiskLags
<1>6. Unborn' /\ HandlesKnown' /\ DownKnowsNothing'
  BY <1>1, <1>2, <1>4 DEF Unborn, HandlesKnown, DownKnowsNothing, Running
<1>7. Occupied' \subseteq Occupied
  BY <1>1, <1>2 DEF Occupied
<1>. QED BY <1>5, <1>6, <1>7, SlotsShrink

LEMMA SlotsStep ==
  ASSUME RecordTypes, RecordTypes', SlotInvariant, [Next]_vars PROVE SlotInvariant'
<1>1. SlotInvariant => Unborn /\ HandlesKnown
  BY DEF SlotInvariant
<1>2. CASE UNCHANGED vars
  BY <1>2 DEF vars, memory, disk, history, SlotInvariant, DiskLags, Unborn, HandlesKnown,
     DownKnowsNothing, LaneExclusive, WithinLimit, Running, Occupied
<1>3. CASE Quiet
  BY <1>3, QuietSlots
<1>4. ASSUME NEW S \in (SUBSET Lanes) \ {{}}, NEW key \in BatchKeys, CreateTaskBatchJob(S, key)
      PROVE  Quiet
  BY <1>1, <1>4, CreateBatchQuiet
<1>5. ASSUME NEW l \in Lanes, NEW key \in Requests, CreateRegisteredTaskJob(l, key) PROVE Quiet
  BY <1>1, <1>5, CreateRegisteredQuiet
<1>6. ASSUME NEW p \in Parents, CancelParent(p) PROVE Quiet
  BY <1>1, <1>6, CancelParentQuiet
<1>7. ASSUME NEW c \in Children, CancelChild(c) PROVE Quiet
  BY <1>1, <1>7, CancelChildQuiet
<1>8. ASSUME NEW i \in DOMAIN queue, DispatchFails(i) PROVE Quiet
  BY <1>1, <1>8, DispatchFailsQuiet
<1>9. ASSUME NEW c \in Children, NEW outcome \in Outcomes, Finish(c, outcome) PROVE Quiet
  BY <1>1, <1>9, FinishQuiet
<1>10. ASSUME NEW c \in Children, WatchOrphan(c) PROVE Quiet
  BY <1>1, <1>10, WatchOrphanQuiet
<1>11. ASSUME PrepareForRestart PROVE Quiet
  BY <1>1, <1>11, PrepareQuiet
<1>12. ASSUME NEW key \in Configs, ListPendingJobs(key) PROVE Quiet
  BY <1>12, ReadersQuiet DEF ListPendingJobs, disk, history
<1>13. ASSUME DispatchNone PROVE Quiet
  BY <1>13, ReadersQuiet DEF DispatchNone, Dispatching, disk, history
<1>14. ASSUME NEW c \in Children, RefreshRunningJob(c) PROVE Quiet
  BY <1>14, ReadersQuiet DEF RefreshRunningJob, disk, history
<1>15. ASSUME NEW p \in Parents, RefreshParent(p) PROVE Quiet
  BY <1>15, ReadersQuiet DEF RefreshParent, disk, history
<1>16. ASSUME NEW x \in live, ProcessExit(x) PROVE SlotInvariant'
  BY <1>16 DEF ProcessExit, memory, disk, history, SlotInvariant, DiskLags, Unborn,
     HandlesKnown, DownKnowsNothing, LaneExclusive, WithinLimit, Running, Occupied
<1>17. CASE Next
  BY <1>3, <1>4, <1>5, <1>6, <1>7, <1>8, <1>9, <1>10, <1>11, <1>12, <1>13, <1>14, <1>15,
     <1>16, <1>17, SpawnSlots, ExitSlots, CrashSlots, LoadSlots, FlushSlots
  DEF Next
<1>. QED BY <1>2, <1>17

LEMMA InitSlots == Init => SlotInvariant
<1>. SUFFICES ASSUME Init PROVE SlotInvariant
  OBVIOUS
<1>1. \A c \in Children : job[c] = NoJob /\ diskJob[c] = NoJob /\ ~Occupies(NoJob)
  BY DEF Init, Occupies, NoJob, ProcessActive
<1>2. Occupied = {}
  BY <1>1 DEF Occupied
<1>3. LaneExclusive /\ WithinLimit
  BY <1>2, FS_EmptySet, CountAssumption DEF LaneExclusive, WithinLimit
<1>4. DiskLags
  BY <1>1, StayMove DEF DiskLags
<1>. QED BY <1>1, <1>3, <1>4
     DEF Init, SlotInvariant, Unborn, HandlesKnown, DownKnowsNothing, Running

\* In every reachable state, through any number of crashes and restarts, a record on
\* disk that lags behind memory has its write pending and lags by one legal move, at
\* most one child of a lane takes a slot, and at most MaxParallel do.
THEOREM SlotsKept == Spec => []SlotInvariant
<1>1. Init => SlotInvariant
  BY InitSlots
<1>2. RecordTypes /\ RecordTypes' /\ SlotInvariant /\ [Next]_vars => SlotInvariant'
  BY SlotsStep
<1>. QED BY <1>1, <1>2, RecordsTyped, PTL DEF Spec

\* Two children of one provider never take a slot at the same time, in memory, in the
\* records a restart would read, or in a mixture of the two.
THEOREM LanesExclusive == Spec => []LaneExclusive
<1>1. SlotInvariant => LaneExclusive
  BY DEF SlotInvariant
<1>. QED BY <1>1, SlotsKept, PTL

\* Never more than MaxParallel children take a slot.
THEOREM LimitKept == Spec => []WithinLimit
<1>1. SlotInvariant => WithinLimit
  BY DEF SlotInvariant
<1>. QED BY <1>1, SlotsKept, PTL

-------------------------------------------------------------------------------
(* The records on disk implement the promise *)

\* The abstract state, and one child moving in it.
LifeOf == [c \in Children |-> Life(diskJob[c])]
OneMoves(k, x) ==
    /\ \A c \in Children \ {k} : diskJob'[c] = diskJob[c]
    /\ Life(diskJob'[k]) = x

LEMMA OneMoved ==
  ASSUME NEW k \in Children, NEW x, OneMoves(k, x)
  PROVE  LifeOf' = [LifeOf EXCEPT ![k] = x]
BY DEF LifeOf, OneMoves

\* When memory says that k has started and its record does not say so yet, the active
\* records are in other lanes and leave a slot free.
LEMMA RoomForOne ==
  ASSUME SlotInvariant, NEW k \in Children,
         Life(diskJob[k]) = "waiting", Life(job[k]) = "active"
  PROVE  LET running == {c \in Children : Life(diskJob[c]) = "active"}
         IN  /\ \A c \in running : Lane(c) # Lane(k)
             /\ Cardinality(running) < MaxParallel
<1>. DEFINE running == {c \in Children : Life(diskJob[c]) = "active"}
<1>1. running \subseteq Occupied /\ k \in Occupied /\ k \notin running
  BY LifeValues DEF Occupied
<1>2. \A c \in running : Lane(c) # Lane(k)
  BY <1>1 DEF SlotInvariant, LaneExclusive
<1>. HIDE DEF running
<1>3. IsFiniteSet(running) /\ Cardinality(running) \in Nat
  BY <1>1, OccupiedFinite, FS_Subset, FS_CardinalityType
<1>4. Cardinality(running \union {k}) = Cardinality(running) + 1
  BY <1>1, <1>3, FS_AddElement
<1>5. Cardinality(running \union {k}) <= Cardinality(Occupied)
  BY <1>1, OccupiedFinite, FS_Subset
<1>6. Cardinality(running) < MaxParallel
  BY <1>3, <1>4, <1>5, OccupiedFinite, CountAssumption DEF SlotInvariant, WithinLimit
<1>. QED BY <1>2, <1>6 DEF running

\* The write of a child's record is a step of the promise, or changes nothing it sees.
LEMMA WriteImplements ==
  ASSUME RecordTypes, SlotInvariant, Flush, NEW k \in Children, Head(io) = SaveJob(k)
  PROVE  [LaneScheduler!Next]_LifeOf
<1>1. \A c \in Children : diskJob'[c] = IF c = k THEN job[k] ELSE diskJob[c]
  BY FlushedRecord DEF SaveJob
<1>2. OneMoves(k, Life(job[k]))
  BY <1>1 DEF OneMoves
<1>3. LifeOf' = [LifeOf EXCEPT ![k] = Life(job[k])]
  BY <1>2, OneMoved
<1>4. <<LifeOf[k], Life(job[k])>> \in Moves \union {<<"waiting", "active">>}
  <2>1. io # <<>>
    BY DEF Flush
  <2>. QED BY <2>1 DEF SlotInvariant, DiskLags, DownKnowsNothing, Running, LifeOf
<1>5. CASE LifeOf[k] = Life(job[k])
  BY <1>3, <1>5 DEF LifeOf
<1>6. CASE LifeOf[k] = "absent" /\ Life(job[k]) = "waiting"
  BY <1>3, <1>6 DEF LaneScheduler!Next, LaneScheduler!Submit, LaneScheduler!Move, LifeOf
<1>7. CASE LifeOf[k] = "waiting" /\ Life(job[k]) = "done"
  BY <1>3, <1>7 DEF LaneScheduler!Next, LaneScheduler!Drop, LaneScheduler!Move, LifeOf
<1>8. CASE LifeOf[k] = "active" /\ Life(job[k]) = "done"
  BY <1>3, <1>8 DEF LaneScheduler!Next, LaneScheduler!Finish, LaneScheduler!Move, LifeOf
<1>9. CASE LifeOf[k] = "active" /\ Life(job[k]) = "waiting"
  BY <1>3, <1>9 DEF LaneScheduler!Next, LaneScheduler!Requeue, LaneScheduler!Move, LifeOf
<1>10. CASE LifeOf[k] = "waiting" /\ Life(job[k]) = "active"
  <2>1. LaneScheduler!ActiveSet = {c \in Children : Life(diskJob[c]) = "active"}
    BY DEF LaneScheduler!ActiveSet
  <2>2. /\ \A c \in LaneScheduler!ActiveSet : Lane(c) # Lane(k)
        /\ Cardinality(LaneScheduler!ActiveSet) < MaxParallel
    BY <1>10, <2>1, RoomForOne, Zenon DEF LifeOf
  <2>3. LaneScheduler!Move(k, {"waiting"}, "active")
    BY <1>3, <1>10 DEF LaneScheduler!Move, LifeOf
  <2>4. \A S : LaneScheduler!Cardinality(S) = Cardinality(S)
    BY DEF LaneScheduler!Cardinality, Cardinality
  <2>5. LaneScheduler!Start(k)
    BY <2>2, <2>3, <2>4 DEF LaneScheduler!Start
  <2>. QED BY <2>5 DEF LaneScheduler!Next
<1>. QED BY <1>4, <1>5, <1>6, <1>7, <1>8, <1>9, <1>10 DEF Moves

\* A crash changes nothing on disk, or empties one record.
LEMMA CrashImplements ==
  ASSUME RecordTypes, Crash PROVE [LaneScheduler!Next]_LifeOf
<1>1. CASE diskJob' = diskJob
  BY <1>1 DEF LifeOf
<1>2. CASE TornWrites /\ io # <<>> /\ Head(io).op = "job"
           /\ diskJob' = [diskJob EXCEPT ![Head(io).c] = NoJob]
  <2>1. PICK k \in Children : Head(io) = SaveJob(k)
    <3>1. Head(io) \in Effects
      BY <1>2 DEF RecordTypes
    <3>. QED BY <1>2, <3>1 DEF Effects, SaveJob, SaveTop, SpawnOf, SaveQueue
  <2>2. diskJob' = [diskJob EXCEPT ![k] = NoJob]
    <3>1. Head(io).c = k
      BY <2>1 DEF SaveJob
    <3>. QED BY <1>2, <3>1, Zenon
  <2>3. Life(NoJob) = "absent"
    BY DEF Life, NoJob
  <2>4. LifeOf' = [LifeOf EXCEPT ![k] = "absent"]
    BY <2>2, <2>3, OneMoved DEF OneMoves, RecordTypes
  <2>5. CASE LifeOf[k] = "absent"
    BY <2>4, <2>5 DEF LifeOf
  <2>6. CASE LifeOf[k] # "absent"
    <3>1. LifeOf[k] \in {"waiting", "active", "done"}
      BY <2>6, LifeValues DEF LifeOf
    <3>. QED BY <1>2, <2>4, <3>1
         DEF LaneScheduler!Next, LaneScheduler!Lose, LaneScheduler!Move, LifeOf
  <2>. QED BY <2>5, <2>6
<1>. QED BY <1>1, <1>2 DEF Crash, disk

\* Only Flush and Crash write the children's records.
LEMMA OthersStutter ==
  ASSUME [Next]_vars PROVE diskJob' = diskJob \/ Flush \/ Crash
BY DEF Next, vars, disk, CreateTaskBatchJob, CreateRegisteredTaskJob, CancelParent, CancelChild,
   ListPendingJobs, DispatchNone, DispatchSpawn, DispatchFails, Finish, RefreshRunningJob,
   RefreshParent, WatchOrphan, PrepareForRestart, Exit, Load, ProcessExit

LEMMA StepImplements ==
  ASSUME RecordTypes, SlotInvariant, [Next]_vars PROVE [LaneScheduler!Next]_LifeOf
<1>1. CASE diskJob' = diskJob
  BY <1>1 DEF LifeOf
<1>2. CASE Crash
  BY <1>2, CrashImplements
<1>3. CASE Flush
  <2>1. CASE \E k \in Children : Head(io) = SaveJob(k)
    BY <1>3, <2>1, WriteImplements
  <2>2. CASE ~\E k \in Children : Head(io) = SaveJob(k)
    <3>1. \A c \in Children : diskJob'[c] = diskJob[c]
      BY <1>3, <2>2, FlushedRecord
    <3>. QED BY <3>1 DEF LifeOf
  <2>. QED BY <2>1, <2>2
<1>. QED BY <1>1, <1>2, <1>3, OthersStutter

\* The job records on disk go through the lives the promise allows, crashes, restarts
\* and torn writes included, for any number of jobs and lanes.
THEOREM RecordsRefineLanes == Spec => RecordsImplementLanes
<1>1. Init => LaneScheduler!Init
  BY DEF Init, LaneScheduler!Init, Life, NoJob
<1>2. RecordTypes /\ SlotInvariant /\ [Next]_vars => [LaneScheduler!Next]_LifeOf
  BY StepImplements
<1>. QED BY <1>1, <1>2, RecordsTyped, SlotsKept, PTL
     DEF Spec, RecordsImplementLanes, LaneScheduler!Spec, LifeOf

-------------------------------------------------------------------------------
(* Files: no handler forgets a write *)

\* A file that lags behind memory has its write pending: the parents' records and the
\* queue, as DiskLags says of the children's.
Writes(x) == \E i \in DOMAIN io : io[i] = x
FilesLag ==
    Running => /\ \A p \in Parents : diskTop[p] = top[p] \/ Writes(SaveTop(p))
               /\ diskQueue = queue \/ Writes(SaveQueue)

\* A handler under the lock writes what it changed of the parents and of the queue.
HandlesFiles ==
    /\ Locked /\ UNCHANGED disk
    /\ \A p \in Parents : top'[p] = top[p] \/ Writes(SaveTop(p))'
    /\ queue' = queue \/ Writes(SaveQueue)'

-------------------------------------------------------------------------------
(* Lists of writes *)

\* What is among the first writes of a list, or among the last, is in the list.
LEMMA InFront ==
  ASSUME NEW s \in Seq(Effects), NEW t \in Seq(Effects), NEW i \in DOMAIN s
  PROVE  \E j \in DOMAIN (s \o t) : (s \o t)[j] = s[i]
<1>1. i \in DOMAIN (s \o t) /\ (s \o t)[i] = s[i]
  OBVIOUS
<1>. QED BY <1>1

LEMMA Behindhand ==
  ASSUME NEW s \in Seq(Effects), NEW t \in Seq(Effects), NEW i \in DOMAIN t
  PROVE  \E j \in DOMAIN (s \o t) : (s \o t)[j] = t[i]
<1>1. Len(s) + i \in DOMAIN (s \o t) /\ (s \o t)[Len(s) + i] = t[i]
  OBVIOUS
<1>. QED BY <1>1

\* prepare_for_restart writes the parent of every child it puts back.
LEMMA RequeueWritesTops ==
  ASSUME NEW S \in SUBSET Children, NEW s \in Orders(S)
  PROVE  \A c \in S : \E i \in DOMAIN RequeueWrites(s) : RequeueWrites(s)[i] = SaveTop(c[1])
<1>. TAKE c \in S
<1>1. s \in Seq(Children) /\ \E i \in DOMAIN s : s[i] = c
  BY OrderType
<1>2. PICK k \in DOMAIN s : s[k] = c
  BY <1>1
<1>. DEFINE i == 2 * k
<1>3. k \in 1..Len(s) /\ Len(s) \in Nat
  BY <1>1
<1>4. i \in 1..(2 * Len(s)) /\ i % 2 # 1 /\ i \div 2 = k
  BY <1>3
<1>5. i \in DOMAIN RequeueWrites(s) /\ RequeueWrites(s)[i] = SaveTop(c[1])
  BY <1>2, <1>4 DEF RequeueWrites
<1>. QED BY <1>5

\* Load writes every parent it refreshes.
LEMMA TopsSaved ==
  ASSUME NEW S \in SUBSET Parents, NEW s \in Orders(S)
  PROVE  \A p \in S : \E i \in DOMAIN SaveTops(s) : SaveTops(s)[i] = SaveTop(p)
BY DEF Orders, SaveTops

-------------------------------------------------------------------------------
(* The steps *)

LEMMA HandlerFiles ==
  ASSUME FilesLag, HandlesFiles PROVE FilesLag'
<1>1. \A x : ~Writes(x)
  BY DEF HandlesFiles, Locked, Writes
<1>2. (\A p \in Parents : diskTop[p] = top[p]) /\ diskQueue = queue
  BY <1>1 DEF FilesLag, HandlesFiles, Locked, Running
<1>3. diskTop' = diskTop /\ diskQueue' = diskQueue
  BY DEF HandlesFiles, disk
<1>. QED BY <1>2, <1>3 DEF FilesLag, HandlesFiles

\* A refresh touches one parent.
LEMMA RefreshesOne ==
  ASSUME top \in [Parents -> TopRecord], NEW q \in Parents, NEW jobs,
         top' = RefreshTop(q, jobs)
  PROVE  \A p \in Parents : p # q => top'[p] = top[p]
BY DEF RefreshTop

\* A handler whose effects are listed one by one.
LEMMA OneParent ==
  ASSUME Locked, UNCHANGED disk, NEW q \in Parents,
         \A p \in Parents : p # q => top'[p] = top[p],
         Writes(SaveTop(q))', queue' = queue \/ Writes(SaveQueue)'
  PROVE  HandlesFiles
BY DEF HandlesFiles

\* The records of children, and after them the parent's and the queue.
LEMMA WritesBehind ==
  ASSUME NEW S \in SUBSET Children, NEW s \in Orders(S), NEW q \in Parents,
         io' = SaveJobs(s) \o <<SaveTop(q), SaveQueue>>
  PROVE  Writes(SaveTop(q))' /\ Writes(SaveQueue)'
<1>. DEFINE t == <<SaveTop(q), SaveQueue>>
<1>1. SaveJobs(s) \in Seq(Effects) /\ t \in Seq(Effects)
  BY OrderType, SaveJobsType, EffectTypes
<1>2. 1 \in DOMAIN t /\ t[1] = SaveTop(q) /\ 2 \in DOMAIN t /\ t[2] = SaveQueue
  OBVIOUS
<1>3. io' = SaveJobs(s) \o t
  OBVIOUS
<1>. HIDE DEF t
<1>4. \A i \in DOMAIN t : \E j \in DOMAIN (SaveJobs(s) \o t) : (SaveJobs(s) \o t)[j] = t[i]
  BY <1>1, Behindhand, Zenon
<1>5. (\E j \in DOMAIN io' : io'[j] = SaveTop(q)) /\ (\E j \in DOMAIN io' : io'[j] = SaveQueue)
  BY <1>2, <1>3, <1>4, Zenon
<1>. QED BY <1>5 DEF Writes

LEMMA CreateBatchFiles ==
  ASSUME RecordTypes, NEW S \in (SUBSET Lanes) \ {{}}, NEW key \in BatchKeys,
         CreateTaskBatchJob(S, key)
  PROVE  HandlesFiles
<1>. DEFINE p == made + 1   kids == {p} \X S
<1>1. p \in Parents
  BY NewParent DEF CreateTaskBatchJob, RecordTypes
<1>2. kids \in SUBSET Children
  BY <1>1 DEF Children
<1>3. Locked /\ UNCHANGED disk
  BY DEF CreateTaskBatchJob
<1>4. \A q \in Parents : q # p => top'[q] = top[q]
  BY <1>1 DEF CreateTaskBatchJob, RecordTypes
<1>5. PICK s \in Orders(kids) : io' = SaveJobs(s) \o <<SaveTop(p), SaveQueue>>
  BY DEF CreateTaskBatchJob
<1>. HIDE DEF p, kids
<1>. QED BY <1>1, <1>2, <1>3, <1>4, <1>5, WritesBehind, OneParent

LEMMA CreateRegisteredFiles ==
  ASSUME RecordTypes, NEW l \in Lanes, NEW key \in Requests, CreateRegisteredTaskJob(l, key)
  PROVE  HandlesFiles
<1>1. PICK p \in Parents : p = made + 1
  BY NewParent DEF CreateRegisteredTaskJob, RecordTypes
<1>2. Locked /\ UNCHANGED disk /\ io' = <<SaveTop(p), SaveJob(<<p, l>>), SaveQueue>>
  BY <1>1 DEF CreateRegisteredTaskJob
<1>3. \A q \in Parents : q # p => top'[q] = top[q]
  BY <1>1 DEF CreateRegisteredTaskJob, RecordTypes
<1>4. Writes(SaveTop(p))' /\ Writes(SaveQueue)'
  <2>1. 1 \in DOMAIN io' /\ io'[1] = SaveTop(p) /\ 3 \in DOMAIN io' /\ io'[3] = SaveQueue
    BY <1>2
  <2>. QED BY <2>1 DEF Writes
<1>. QED BY <1>2, <1>3, <1>4, OneParent

LEMMA CancelParentFiles ==
  ASSUME RecordTypes, NEW p \in Parents, CancelParent(p)
  PROVE  HandlesFiles
<1>. DEFINE T   == ChildrenOf(p, job)
            hit == {c \in T : Cancelled(c) # job[c]}
<1>1. Locked /\ UNCHANGED disk
  BY DEF CancelParent
<1>2. \A q \in Parents : q # p => top'[q] = top[q]
  BY DEF CancelParent, RefreshTop, RecordTypes
<1>3. Writes(SaveTop(p))' /\ Writes(SaveQueue)'
  <2>1. CASE T # {}
    <3>1. PICK s \in Orders(hit) : io' = SaveJobs(s) \o <<SaveTop(p), SaveQueue>>
      BY <2>1 DEF CancelParent, CancelChildren
    <3>2. hit \in SUBSET Children
      BY DEF ChildrenOf
    <3>. HIDE DEF hit
    <3>. QED BY <3>1, <3>2, WritesBehind
  <2>2. CASE T = {}
    <3>1. io' = <<SaveTop(p), SaveQueue>>
      BY <2>2 DEF CancelParent
    <3>2. 1 \in DOMAIN io' /\ io'[1] = SaveTop(p) /\ 2 \in DOMAIN io' /\ io'[2] = SaveQueue
      BY <3>1
    <3>. QED BY <3>2 DEF Writes
  <2>. QED BY <2>1, <2>2
<1>. QED BY <1>1, <1>2, <1>3, OneParent

LEMMA CancelChildFiles ==
  ASSUME RecordTypes, NEW c \in Children, CancelChild(c)
  PROVE  HandlesFiles
<1>. DEFINE hit == {d \in {c} : Cancelled(d) # job[d]}
<1>1. Locked /\ UNCHANGED disk /\ c[1] \in Parents
  BY DEF CancelChild, Children
<1>2. \A q \in Parents : q # c[1] => top'[q] = top[q]
  BY <1>1, RefreshesOne DEF CancelChild, RecordTypes
<1>3. PICK s \in Orders(hit) : io' = SaveJobs(s) \o <<SaveTop(c[1]), SaveQueue>>
  BY DEF CancelChild, CancelChildren
<1>4. hit \in SUBSET Children
  OBVIOUS
<1>. HIDE DEF hit
<1>. QED BY <1>1, <1>2, <1>3, <1>4, WritesBehind, OneParent

\* The handlers that take one child forward.
LEMMA OneChild ==
  ASSUME RecordTypes, Locked, UNCHANGED disk, NEW c \in Children, NEW jobs,
         top' = RefreshTop(c[1], jobs),
         NEW i \in DOMAIN io', io'[i] = SaveTop(c[1]), queue' = queue \/ Writes(SaveQueue)'
  PROVE  HandlesFiles
<1>1. c[1] \in Parents
  BY DEF Children
<1>2. Writes(SaveTop(c[1]))'
  BY DEF Writes
<1>3. \A q \in Parents : q # c[1] => top'[q] = top[q]
  BY <1>1, RefreshesOne DEF RecordTypes
<1>. QED BY <1>1, <1>2, <1>3, OneParent

LEMMA DispatchSpawnFiles ==
  ASSUME RecordTypes, NEW i \in DOMAIN queue, DispatchSpawn(i)
  PROVE  HandlesFiles
<1>. DEFINE c    == queue[i]
            jobs == [job EXCEPT ![c] = [@ EXCEPT !.status = "running", !.started = TRUE,
                                                  !.pid = epoch]]
<1>1. c \in Children /\ Locked /\ UNCHANGED disk
  BY DEF DispatchSpawn, Selects, Eligible, Dispatching
<1>2. io' = <<SaveQueue, SpawnOf(c), SaveJob(c), SaveTop(c[1])>> /\ top' = RefreshTop(c[1], jobs)
  BY DEF DispatchSpawn
<1>. HIDE DEF c, jobs
<1>3. 1 \in DOMAIN io' /\ io'[1] = SaveQueue /\ 4 \in DOMAIN io' /\ io'[4] = SaveTop(c[1])
  BY <1>2
<1>. QED BY <1>1, <1>2, <1>3, OneChild DEF Writes

LEMMA DispatchFailsFiles ==
  ASSUME RecordTypes, NEW i \in DOMAIN queue, DispatchFails(i)
  PROVE  HandlesFiles
<1>. DEFINE c    == queue[i]
            jobs == [job EXCEPT ![c].status = "failed"]
<1>1. c \in Children /\ Locked /\ UNCHANGED disk
  BY DEF DispatchFails, Selects, Eligible, Dispatching
<1>2. io' = <<SaveQueue, SaveJob(c), SaveTop(c[1])>> /\ top' = RefreshTop(c[1], jobs)
  BY DEF DispatchFails
<1>. HIDE DEF c, jobs
<1>3. 1 \in DOMAIN io' /\ io'[1] = SaveQueue /\ 3 \in DOMAIN io' /\ io'[3] = SaveTop(c[1])
  BY <1>2
<1>. QED BY <1>1, <1>2, <1>3, OneChild DEF Writes

LEMMA FinishFiles ==
  ASSUME RecordTypes, NEW c \in Children, NEW outcome \in Outcomes, Finish(c, outcome)
  PROVE  HandlesFiles
<1>1. Locked /\ UNCHANGED disk /\ queue' = queue
  BY DEF Finish
<1>2. CASE c \in restarting
  BY <1>1, <1>2 DEF Finish, HandlesFiles
<1>3. CASE c \notin restarting
  <2>1. io' = <<SaveJob(c), SaveTop(c[1])>> /\ \E jobs : top' = RefreshTop(c[1], jobs)
    BY <1>3 DEF Finish
  <2>2. 2 \in DOMAIN io' /\ io'[2] = SaveTop(c[1])
    BY <2>1
  <2>. QED BY <1>1, <2>1, <2>2, OneChild
<1>. QED BY <1>2, <1>3

LEMMA WatchOrphanFiles ==
  ASSUME RecordTypes, NEW c \in Children, WatchOrphan(c)
  PROVE  HandlesFiles
<1>1. Locked /\ UNCHANGED disk /\ io' = <<SaveJob(c), SaveQueue, SaveTop(c[1])>>
      /\ \E jobs : top' = RefreshTop(c[1], jobs)
  BY DEF WatchOrphan
<1>2. 2 \in DOMAIN io' /\ io'[2] = SaveQueue /\ 3 \in DOMAIN io' /\ io'[3] = SaveTop(c[1])
  BY <1>1
<1>. QED BY <1>1, <1>2, OneChild DEF Writes

\* What readers refresh they write.
LEMMA ReadersFiles ==
  ASSUME RecordTypes,
         \/ \E c \in Children : RefreshRunningJob(c)
         \/ \E p \in Parents : RefreshParent(p)
         \/ \E key \in Configs : ListPendingJobs(key)
         \/ DispatchNone
  PROVE  HandlesFiles
<1>1. ASSUME NEW c \in Children, RefreshRunningJob(c) PROVE HandlesFiles
  <2>1. Locked /\ UNCHANGED disk /\ queue' = queue /\ top' = RefreshTop(c[1], job)
        /\ io' = <<SaveJob(c), SaveTop(c[1])>>
    BY <1>1 DEF RefreshRunningJob
  <2>2. 2 \in DOMAIN io' /\ io'[2] = SaveTop(c[1])
    BY <2>1
  <2>. QED BY <2>1, <2>2, OneChild
<1>2. ASSUME NEW p \in Parents, RefreshParent(p) PROVE HandlesFiles
  <2>1. Locked /\ UNCHANGED disk /\ queue' = queue /\ top' = RefreshTop(p, job) /\ io' = <<SaveTop(p)>>
    BY <1>2 DEF RefreshParent
  <2>2. 1 \in DOMAIN io' /\ io'[1] = SaveTop(p)
    BY <2>1
  <2>3. \A q \in Parents : q # p => top'[q] = top[q]
    BY <2>1, RefreshesOne DEF RecordTypes
  <2>. QED BY <2>1, <2>2, <2>3, OneParent DEF Writes
<1>3. ASSUME NEW key \in Configs, ListPendingJobs(key) PROVE HandlesFiles
  BY <1>3 DEF ListPendingJobs, HandlesFiles
<1>4. ASSUME DispatchNone PROVE HandlesFiles
  <2>1. Locked /\ UNCHANGED disk /\ top' = top /\ (queue' # queue => io' = <<SaveQueue>>)
    BY <1>4 DEF DispatchNone, Dispatching
  <2>2. ASSUME queue' # queue PROVE Writes(SaveQueue)'
    <3>1. 1 \in DOMAIN io' /\ io'[1] = SaveQueue
      BY <2>1, <2>2
    <3>. QED BY <3>1 DEF Writes
  <2>. QED BY <2>1, <2>2 DEF HandlesFiles
<1>. QED BY <1>1, <1>2, <1>3, <1>4

LEMMA PrepareFiles ==
  ASSUME RecordTypes, PrepareForRestart
  PROVE  HandlesFiles
<1>. DEFINE running == {c \in handles : job[c].status = "running"}
            jobs    == [c \in Children |-> IF c \in running THEN Requeued(job[c]) ELSE job[c]]
<1>1. Locked /\ UNCHANGED disk
  BY DEF PrepareForRestart
<1>2. running \in SUBSET Children
  BY DEF RecordTypes
<1>3. \A p \in Parents : (\A c \in running : c[1] # p) => top'[p] = top[p]
  BY DEF PrepareForRestart
<1>4. CASE running = {}
  <2>1. queue' = queue
    BY <1>4 DEF PrepareForRestart
  <2>. QED BY <1>1, <1>3, <1>4, <2>1 DEF HandlesFiles
<1>5. CASE running # {}
  <2>1. PICK s \in Orders(running) : io' = RequeueWrites(s) \o <<SaveQueue>>
    BY <1>5 DEF PrepareForRestart
  <2>. HIDE DEF running, jobs
  <2>2. RequeueWrites(s) \in Seq(Effects) /\ <<SaveQueue>> \in Seq(Effects)
    BY <1>2, OrderType, RequeueWritesType, EffectTypes
  <2>3. Writes(SaveQueue)'
    <3>1. 1 \in DOMAIN <<SaveQueue>> /\ <<SaveQueue>>[1] = SaveQueue
      OBVIOUS
    <3>2. \E j \in DOMAIN (RequeueWrites(s) \o <<SaveQueue>>) :
            (RequeueWrites(s) \o <<SaveQueue>>)[j] = <<SaveQueue>>[1]
      BY <2>2, <3>1, Behindhand, Zenon
    <3>. QED BY <2>1, <3>1, <3>2 DEF Writes
  <2>4. \A c \in running : Writes(SaveTop(c[1]))'
    <3>. TAKE c \in running
    <3>1. PICK i \in DOMAIN RequeueWrites(s) : RequeueWrites(s)[i] = SaveTop(c[1])
      BY <1>2, RequeueWritesTops
    <3>2. \E j \in DOMAIN (RequeueWrites(s) \o <<SaveQueue>>) :
            (RequeueWrites(s) \o <<SaveQueue>>)[j] = RequeueWrites(s)[i]
      BY <2>2, InFront, Zenon
    <3>. QED BY <2>1, <3>1, <3>2 DEF Writes
  <2>. QED BY <1>1, <1>3, <2>3, <2>4 DEF HandlesFiles
<1>. QED BY <1>4, <1>5

LEMMA LoadFiles ==
  ASSUME RecordTypes, Load PROVE FilesLag'
<1>. DEFINE jobs  == [c \in Children |-> Reloaded(c, diskJob[c])]
            stale == {c \in Children : jobs[c] # diskJob[c]}
            fresh == Refreshable(diskTop, jobs)
<1>1. PICK s \in Orders(stale), t \in Orders(fresh) :
        io' = SaveJobs(s) \o SaveTops(t) \o <<SaveQueue>>
  BY DEF Load
<1>2. stale \in SUBSET Children /\ fresh \in SUBSET Parents
  BY DEF Refreshable
<1>3. diskTop' = diskTop /\ \A p \in Parents : p \notin fresh => top'[p] = diskTop[p]
  BY DEF Load, disk
<1>. HIDE DEF stale, fresh
<1>. DEFINE u == SaveJobs(s)   v == SaveTops(t)   w == <<SaveQueue>>
<1>4. u \in Seq(Effects) /\ v \in Seq(Effects) /\ w \in Seq(Effects) /\ u \o v \in Seq(Effects)
  BY <1>2, OrderType, ParentOrderType, SaveJobsType, SaveTopsType, EffectTypes
<1>5. 1 \in DOMAIN w /\ w[1] = SaveQueue
  OBVIOUS
<1>6. \A p \in fresh : \E i \in DOMAIN v : v[i] = SaveTop(p)
  BY <1>2, TopsSaved
<1>7. io' = (u \o v) \o w
  BY <1>1
<1>. HIDE DEF u, v, w
<1>8. \E j \in DOMAIN ((u \o v) \o w) : ((u \o v) \o w)[j] = SaveQueue
  <2>1. \E j \in DOMAIN ((u \o v) \o w) : ((u \o v) \o w)[j] = w[1]
    BY <1>4, <1>5, Behindhand, Zenon
  <2>. QED BY <1>5, <2>1, Zenon
<1>9. \A p \in fresh : \E j \in DOMAIN ((u \o v) \o w) : ((u \o v) \o w)[j] = SaveTop(p)
  <2>. TAKE p \in fresh
  <2>1. PICK i \in DOMAIN v : v[i] = SaveTop(p)
    BY <1>6
  <2>2. \E j \in DOMAIN (u \o v) : (u \o v)[j] = v[i]
    BY <1>4, Behindhand, Zenon
  <2>3. PICK j \in DOMAIN (u \o v) : (u \o v)[j] = v[i]
    BY <2>2
  <2>4. \E k \in DOMAIN ((u \o v) \o w) : ((u \o v) \o w)[k] = (u \o v)[j]
    BY <1>4, InFront, Zenon
  <2>. QED BY <2>1, <2>3, <2>4, Zenon
<1>10. Writes(SaveQueue)' /\ \A p \in fresh : Writes(SaveTop(p))'
  BY <1>7, <1>8, <1>9 DEF Writes
<1>. QED BY <1>3, <1>10 DEF FilesLag

\* Every flush brings one file up to memory.
LEMMA FlushFiles ==
  ASSUME RecordTypes, FilesLag, Flush PROVE FilesLag'
<1>1. io \in Seq(Effects) /\ io # <<>> /\ io' = Tail(io) /\ Head(io) = io[1] /\ Head(io) \in Effects
  BY DEF Flush, RecordTypes
<1>2. UNCHANGED <<top, queue, phase>>
  BY DEF Flush, memory
<1>3. \A x : Writes(x) => Head(io) = x \/ Writes(x)'
  <2>. SUFFICES ASSUME NEW x, NEW i \in DOMAIN io, io[i] = x, Head(io) # x PROVE Writes(x)'
    BY DEF Writes
  <2>1. i - 1 \in DOMAIN io' /\ io'[i - 1] = x
    BY <1>1
  <2>. QED BY <2>1 DEF Writes
<1>4. ASSUME NEW p \in Parents
      PROVE  diskTop'[p] = IF Head(io) = SaveTop(p) THEN top[p] ELSE diskTop[p]
  <2>1. Head(io).op = "top" /\ Head(io).p = p <=> Head(io) = SaveTop(p)
    BY <1>1 DEF Effects, SaveJob, SaveTop, SpawnOf, SaveQueue
  <2>. QED BY <2>1 DEF Flush, RecordTypes
<1>5. diskQueue' = IF Head(io) = SaveQueue THEN queue ELSE diskQueue
  <2>1. Head(io).op = "queue" <=> Head(io) = SaveQueue
    BY <1>1 DEF Effects, SaveJob, SaveTop, SpawnOf, SaveQueue
  <2>. QED BY <2>1 DEF Flush
<1>6. ASSUME Running' PROVE diskQueue' = queue' \/ Writes(SaveQueue)'
  BY <1>2, <1>3, <1>5, <1>6 DEF FilesLag, Running
<1>7. ASSUME Running', NEW p \in Parents PROVE diskTop'[p] = top'[p] \/ Writes(SaveTop(p))'
  <2>1. diskTop[p] = top[p] \/ Writes(SaveTop(p))
    BY <1>2, <1>7 DEF FilesLag, Running
  <2>. QED BY <1>2, <1>3, <1>4, <2>1
<1>. QED BY <1>6, <1>7 DEF FilesLag

LEMMA FilesStep ==
  ASSUME RecordTypes, FilesLag, [Next]_vars PROVE FilesLag'
<1>1. CASE HandlesFiles
  BY <1>1, HandlerFiles
<1>2. CASE UNCHANGED vars \/ \E x \in live : ProcessExit(x)
  <2>1. UNCHANGED <<memory, disk, phase, io>>
    BY <1>2 DEF vars, ProcessExit
  <2>. QED BY <2>1 DEF FilesLag, Writes, memory, disk, Running
<1>3. CASE Exit \/ Crash
  <2>1. phase' = "down"
    BY <1>3 DEF Exit, Crash, NoMemory
  <2>. QED BY <2>1 DEF FilesLag, Running
<1>4. CASE Load
  BY <1>4, LoadFiles
<1>5. CASE Flush
  BY <1>5, FlushFiles
<1>6. CASE Next /\ ~Exit /\ ~Crash /\ ~Load /\ ~Flush /\ ~\E x \in live : ProcessExit(x)
  <2>1. HandlesFiles
    BY <1>6, CreateBatchFiles, CreateRegisteredFiles, CancelParentFiles, CancelChildFiles,
       DispatchSpawnFiles, DispatchFailsFiles, FinishFiles, WatchOrphanFiles, ReadersFiles,
       PrepareFiles
    DEF Next
  <2>. QED BY <1>1, <2>1
<1>. QED BY <1>2, <1>3, <1>4, <1>5, <1>6

LEMMA InitFiles == Init => FilesLag
BY DEF Init, FilesLag

-------------------------------------------------------------------------------
(* The files *)

\* In every reachable state a parent's record, and the queue, lags behind memory only
\* while the handler that holds the lock still has its write to do.
THEOREM FilesKept == Spec => []FilesLag
<1>1. Init => FilesLag
  BY InitFiles
<1>2. RecordTypes /\ FilesLag /\ [Next]_vars => FilesLag'
  BY FilesStep
<1>. QED BY <1>1, <1>2, RecordsTyped, PTL DEF Spec

\* Whenever the lock is free the records and the queue on disk say what memory says, so
\* that a crash between two handlers loses nothing: no handler forgets a write, whatever
\* the order in which submissions, cancellations, exits, restarts and crashes come.
THEOREM RecordsDurable == Spec => []DurableWhenIdle
<1>1. RecordTypes /\ SlotInvariant /\ FilesLag => DurableWhenIdle
  <2>. SUFFICES ASSUME RecordTypes, SlotInvariant, FilesLag, Locked
                PROVE  diskJob = job /\ diskTop = top /\ diskQueue = queue
    BY DEF DurableWhenIdle
  <2>1. \A c \in Children : diskJob[c] = job[c]
    BY LockedFiles DEF SlotInvariant
  <2>2. ~Writes(SaveQueue) /\ \A p \in Parents : ~Writes(SaveTop(p))
    BY DEF Locked, Writes
  <2>3. diskQueue = queue /\ \A p \in Parents : diskTop[p] = top[p]
    BY <2>2 DEF FilesLag, Locked, Running
  <2>4. job \in [Children -> JobRecord] /\ diskJob \in [Children -> JobRecord]
        /\ top \in [Parents -> TopRecord] /\ diskTop \in [Parents -> TopRecord]
    BY DEF RecordTypes
  <2>. QED BY <2>1, <2>3, <2>4
<1>. QED BY <1>1, RecordsTyped, SlotsKept, FilesKept, PTL
===============================================================================
