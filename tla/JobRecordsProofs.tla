--------------------------- MODULE JobRecordsProofs ---------------------------
(* What the records of the job manager tell: outcomes are written once and stay, a child has
   one process, a parent follows its children, a config has one active job, and the queues list
   what waits and wake its dispatcher in turn. *)
EXTENDS JobManagerProofs

\* A child with a Popen object is running or being cancelled, unless a restart has put
\* it back: an exit code that comes late finds no ended child to report.
HandlesActive ==
    \A c \in handles : job[c].status \in ProcessActive \/ (phase = "stopping" /\ c \in restarting)

\* Memory agrees with an outcome on disk, and has not forgotten a cancellation on disk.
FinalLags ==
    Running => \A c \in Children :
        /\ diskJob[c].status \in Terminal => job[c] = diskJob[c]
        /\ diskJob[c].status = "cancelling" => job[c].status \in {"cancelling", "cancelled"}

\* What a handler may do to the record of a child that has ended or has been cancelled.
Final(c) ==
    /\ job[c].status \in Terminal => job'[c] = job[c]
    /\ job[c].status = "cancelling" => job'[c].status \in {"cancelling", "cancelled"}
KeepsOutcomes ==
    Locked /\ diskJob' = diskJob /\ HandlesActive' /\ \A c \in Children : Final(c)

OutcomeInvariant == HandlesActive /\ FinalLags

-------------------------------------------------------------------------------
(* The handlers *)

\* A handler that leaves the children alone.
LEMMA SameChildren ==
  ASSUME HandlesActive, Locked,
         UNCHANGED <<job, diskJob, handles, restarting, phase>>
  PROVE  KeepsOutcomes
BY DEF KeepsOutcomes, HandlesActive, Final

\* A handler that takes one child without an outcome forward.
LEMMA OneForward ==
  ASSUME RecordTypes, HandlesActive, Locked, diskJob' = diskJob, phase' = phase, restarting' = restarting,
         NEW k \in Children, job[k].status \notin Terminal,
         \A c \in Children : c # k => job'[c] = job[c],
         job[k].status = "cancelling" => job'[k].status \in {"cancelling", "cancelled"},
         \/ handles' = handles \union {k} /\ job'[k].status \in ProcessActive
         \/ handles' = handles \ {k}
  PROVE  KeepsOutcomes
<1>1. \A c \in Children : Final(c)
  BY DEF Final
<1>2. \A c \in handles' : c # k => c \in handles /\ c \in Children
  BY DEF RecordTypes
<1>3. HandlesActive'
  BY <1>2 DEF HandlesActive
<1>. QED BY <1>1, <1>3 DEF KeepsOutcomes

LEMMA CreateBatchOutcomes ==
  ASSUME RecordTypes, SlotInvariant, HandlesActive,
         NEW S \in (SUBSET Lanes) \ {{}}, NEW key \in BatchKeys, CreateTaskBatchJob(S, key)
  PROVE  KeepsOutcomes
<1>. DEFINE p == made + 1   kids == {p} \X S
<1>1. p \in Parents
  BY NewParent DEF CreateTaskBatchJob, RecordTypes
<1>2. \A c \in kids : c \in Children /\ job[c].status = "absent"
  BY <1>1 DEF Children, SlotInvariant, Unborn, RecordTypes, NoJob
<1>3. \A c \in Children : c \notin kids => job'[c] = job[c]
  BY DEF CreateTaskBatchJob
<1>4. Locked /\ UNCHANGED <<diskJob, handles, restarting, phase>>
  BY DEF CreateTaskBatchJob, disk
<1>. HIDE DEF p, kids
<1>5. \A c \in Children : Final(c)
  BY <1>2, <1>3 DEF Final, Terminal
<1>6. HandlesActive'
  BY <1>2, <1>3, <1>4 DEF HandlesActive, SlotInvariant, HandlesKnown, RecordTypes
<1>. QED BY <1>4, <1>5, <1>6 DEF KeepsOutcomes

LEMMA CreateRegisteredOutcomes ==
  ASSUME RecordTypes, SlotInvariant, HandlesActive,
         NEW l \in Lanes, NEW key \in Requests, CreateRegisteredTaskJob(l, key)
  PROVE  KeepsOutcomes
<1>1. PICK p \in Parents : p = made + 1
  BY NewParent DEF CreateRegisteredTaskJob, RecordTypes
<1>. DEFINE k == <<p, l>>
<1>2. k \in Children /\ k[1] = p
  BY DEF Children
<1>. HIDE DEF k
<1>3. job[k].status = "absent"
  BY <1>1, <1>2 DEF SlotInvariant, Unborn, RecordTypes, NoJob
<1>4. \A c \in Children : c # k => job'[c] = job[c]
  BY <1>1 DEF CreateRegisteredTaskJob, RecordTypes, k
<1>5. Locked /\ UNCHANGED <<diskJob, handles, restarting, phase>>
  BY DEF CreateRegisteredTaskJob, disk
<1>6. k \notin handles
  BY <1>3 DEF SlotInvariant, HandlesKnown
<1>. QED BY <1>2, <1>3, <1>4, <1>5, <1>6, OneForward DEF Terminal

\* A cancellation ends what waits, and marks what runs.
LEMMA CancelOutcomes ==
  ASSUME RecordTypes, HandlesActive, NEW T \in SUBSET Children, job' = CancelledJobs(T),
         Locked, phase = "up", UNCHANGED <<diskJob, handles, restarting, phase>>
  PROVE  KeepsOutcomes
<1>1. \A c \in Children : job'[c] = job[c] \/ job'[c] = Cancelled(c)
  BY DEF CancelledJobs
<1>2. \A c \in Children : job[c].status \notin {"queued", "running"} => job'[c] = job[c]
  BY <1>1 DEF Cancelled
<1>3. \A c \in Children : Final(c)
  BY <1>2 DEF Final, Terminal
<1>4. ASSUME NEW c \in handles PROVE job'[c].status \in ProcessActive
  <2>1. c \in Children /\ job[c] \in JobRecord /\ job[c].status \in {"running", "cancelling"}
    BY DEF HandlesActive, RecordTypes, ProcessActive
  <2>2. Cancelled(c).status \in ProcessActive
    BY <2>1 DEF Cancelled, JobRecord, ProcessActive
  <2>. QED BY <1>1, <2>1, <2>2 DEF ProcessActive
<1>5. HandlesActive'
  BY <1>4 DEF HandlesActive
<1>. QED BY <1>3, <1>5 DEF KeepsOutcomes

LEMMA CancelParentOutcomes ==
  ASSUME RecordTypes, HandlesActive, NEW p \in Parents, CancelParent(p)
  PROVE  KeepsOutcomes
<1>. DEFINE T == ChildrenOf(p, job)
<1>1. Locked /\ phase = "up" /\ UNCHANGED <<diskJob, handles, restarting, phase>>
  BY DEF CancelParent, disk
<1>2. CASE T # {}
  <2>1. job' = CancelledJobs(T) /\ T \in SUBSET Children
    BY <1>2 DEF CancelParent, CancelChildren, ChildrenOf
  <2>. QED BY <1>1, <2>1, CancelOutcomes
<1>3. CASE T = {}
  BY <1>1, <1>3, SameChildren DEF CancelParent
<1>. QED BY <1>2, <1>3

LEMMA CancelChildOutcomes ==
  ASSUME RecordTypes, HandlesActive, NEW c \in Children, CancelChild(c)
  PROVE  KeepsOutcomes
BY CancelOutcomes DEF CancelChild, CancelChildren, disk

LEMMA DispatchOutcomes ==
  ASSUME RecordTypes, HandlesActive, NEW i \in DOMAIN queue, DispatchSpawn(i) \/ DispatchFails(i)
  PROVE  KeepsOutcomes
<1>. DEFINE k == queue[i]
<1>1. /\ k \in Children /\ job[k].status = "queued" /\ job[k] \in JobRecord
      /\ Locked /\ phase = "up" /\ UNCHANGED <<diskJob, restarting, phase>>
  BY DEF DispatchSpawn, DispatchFails, Selects, Eligible, Dispatching, RecordTypes, disk
<1>2. k \notin handles
  BY <1>1 DEF HandlesActive, ProcessActive
<1>3. CASE DispatchSpawn(i)
  <2>1. handles' = handles \union {k} /\ job'[k].status = "running"
        /\ \A c \in Children : c # k => job'[c] = job[c]
    BY <1>1, <1>3 DEF DispatchSpawn, RecordTypes, JobRecord
  <2>. HIDE DEF k
  <2>. QED BY <1>1, <2>1, OneForward DEF Terminal, ProcessActive
<1>4. CASE DispatchFails(i)
  <2>1. handles' = handles /\ \A c \in Children : c # k => job'[c] = job[c]
    BY <1>1, <1>4 DEF DispatchFails, RecordTypes
  <2>2. handles' = handles \ {k}
    BY <1>2, <2>1
  <2>. HIDE DEF k
  <2>. QED BY <1>1, <2>1, <2>2, OneForward DEF Terminal
<1>. QED BY <1>3, <1>4

LEMMA FinishOutcomes ==
  ASSUME RecordTypes, HandlesActive, NEW k \in Children, NEW outcome \in Outcomes, Finish(k, outcome)
  PROVE  KeepsOutcomes
<1>1. Locked /\ k \in handles /\ handles' = handles \ {k} /\ UNCHANGED <<diskJob, restarting, phase>>
  BY DEF Finish, disk
<1>2. CASE k \in restarting
  <2>1. job' = job
    BY <1>2 DEF Finish
  <2>. QED BY <1>1, <2>1 DEF KeepsOutcomes, HandlesActive, Final
<1>3. CASE k \notin restarting
  <2>1. job[k].status \in ProcessActive /\ job[k] \in JobRecord
    BY <1>1, <1>3 DEF HandlesActive, RecordTypes
  <2>2. /\ \A c \in Children : c # k => job'[c] = job[c]
        /\ job'[k].status = FinalStatus(k, outcome)
    BY <1>3, <2>1 DEF Finish, RecordTypes, JobRecord
  <2>3. job[k].status = "cancelling" => job'[k].status = "cancelled"
    BY <2>2 DEF FinalStatus
  <2>4. job[k].status \notin Terminal
    BY <2>1 DEF ProcessActive, Terminal
  <2>. QED BY <1>1, <2>2, <2>3, <2>4, OneForward
<1>. QED BY <1>2, <1>3

LEMMA WatchOrphanOutcomes ==
  ASSUME RecordTypes, HandlesActive, NEW k \in Children, WatchOrphan(k)
  PROVE  KeepsOutcomes
<1>1. /\ Locked /\ job[k].status = "running" /\ k \notin handles
      /\ UNCHANGED <<diskJob, handles, restarting, phase>>
      /\ \A c \in Children : c # k => job'[c] = job[c]
  BY DEF WatchOrphan, disk, RecordTypes
<1>2. handles' = handles \ {k} /\ job[k].status \notin Terminal
  BY <1>1 DEF Terminal
<1>. QED BY <1>1, <1>2, OneForward

LEMMA PrepareOutcomes ==
  ASSUME RecordTypes, HandlesActive, PrepareForRestart
  PROVE  KeepsOutcomes
<1>. DEFINE running == {c \in handles : job[c].status = "running"}
<1>1. Locked /\ phase = "up" /\ phase' = "stopping" /\ restarting' = running
      /\ UNCHANGED <<diskJob, handles>>
  BY DEF PrepareForRestart, disk
<1>2. \A c \in Children : job'[c] = IF c \in running THEN Requeued(job[c]) ELSE job[c]
  BY DEF PrepareForRestart
<1>3. \A c \in Children : Final(c)
  BY <1>2 DEF Final, Terminal
<1>4. HandlesActive'
  BY <1>1, <1>2 DEF HandlesActive, RecordTypes
<1>. QED BY <1>1, <1>3, <1>4 DEF KeepsOutcomes

-------------------------------------------------------------------------------
(* Every step *)

LEMMA HandlerOutcomes ==
  ASSUME SlotInvariant, KeepsOutcomes PROVE OutcomeInvariant'
<1>1. \A c \in Children : diskJob'[c] = job[c]
  BY LockedFiles DEF KeepsOutcomes, SlotInvariant
<1>. QED BY <1>1 DEF KeepsOutcomes, OutcomeInvariant, FinalLags, Final

LEMMA LoadOutcomes ==
  ASSUME RecordTypes, SlotInvariant, Load PROVE OutcomeInvariant'
<1>1. handles' = {}
  BY DEF Load, SlotInvariant, DownKnowsNothing, Running
<1>2. diskJob' = diskJob /\ \A c \in Children : job'[c] = Reloaded(c, diskJob[c]) /\ diskJob[c] \in JobRecord
  BY DEF Load, disk, RecordTypes
<1>3. \A c \in Children : diskJob[c].status \in Terminal => Reloaded(c, diskJob[c]) = diskJob[c]
  BY DEF Reloaded, Terminal
<1>4. \A c \in Children : diskJob[c].status = "cancelling" => Reloaded(c, diskJob[c]).status = "cancelled"
  BY <1>2 DEF Reloaded, JobRecord
<1>. QED BY <1>1, <1>2, <1>3, <1>4 DEF OutcomeInvariant, HandlesActive, FinalLags

LEMMA FlushOutcomes ==
  ASSUME RecordTypes, SlotInvariant, OutcomeInvariant, Flush PROVE OutcomeInvariant'
<1>1. \A c \in Children : diskJob'[c] = job[c] \/ diskJob'[c] = diskJob[c]
  BY FlushedRecord
<1>2. UNCHANGED <<job, handles, restarting, phase>>
  BY DEF Flush, memory
<1>. QED BY <1>1, <1>2 DEF OutcomeInvariant, HandlesActive, FinalLags, Running

LEMMA OutcomeStep ==
  ASSUME RecordTypes, SlotInvariant, OutcomeInvariant, [Next]_vars PROVE OutcomeInvariant'
<1>1. HandlesActive
  BY DEF OutcomeInvariant
<1>2. CASE KeepsOutcomes
  BY <1>2, HandlerOutcomes
<1>3. CASE UNCHANGED vars \/ \E x \in live : ProcessExit(x)
  <2>1. UNCHANGED <<memory, disk, phase, io>>
    BY <1>3 DEF vars, ProcessExit
  <2>. QED BY <2>1 DEF OutcomeInvariant, HandlesActive, FinalLags, Running, memory, disk
<1>4. CASE Exit \/ Crash
  <2>1. phase' = "down" /\ handles' = {}
    BY <1>4 DEF Exit, Crash, NoMemory
  <2>. QED BY <2>1 DEF OutcomeInvariant, HandlesActive, FinalLags, Running
<1>5. CASE Load
  BY <1>5, LoadOutcomes
<1>6. CASE Flush
  BY <1>6, FlushOutcomes
<1>7. CASE \/ \E c \in Children : RefreshRunningJob(c)
           \/ \E p \in Parents : RefreshParent(p)
           \/ \E key \in Configs : ListPendingJobs(key)
           \/ DispatchNone
  <2>1. Locked /\ UNCHANGED <<job, diskJob, handles, restarting, phase>>
    BY <1>7 DEF RefreshRunningJob, RefreshParent, ListPendingJobs, DispatchNone, Dispatching, disk
  <2>. QED BY <1>1, <1>2, <2>1, SameChildren
<1>8. CASE \/ \E S \in (SUBSET Lanes) \ {{}}, key \in BatchKeys : CreateTaskBatchJob(S, key)
           \/ \E l \in Lanes, key \in Requests : CreateRegisteredTaskJob(l, key)
           \/ \E p \in Parents : CancelParent(p)
           \/ \E c \in Children : CancelChild(c)
           \/ \E i \in DOMAIN queue : DispatchSpawn(i)
           \/ \E i \in DOMAIN queue : DispatchFails(i)
           \/ \E c \in Children, outcome \in Outcomes : Finish(c, outcome)
           \/ \E c \in Children : WatchOrphan(c)
           \/ PrepareForRestart
  <2>1. KeepsOutcomes
    BY <1>1, <1>8, CreateBatchOutcomes, CreateRegisteredOutcomes, CancelParentOutcomes,
       CancelChildOutcomes, DispatchOutcomes, FinishOutcomes, WatchOrphanOutcomes, PrepareOutcomes
  <2>. QED BY <1>2, <2>1
<1>. QED BY <1>3, <1>4, <1>5, <1>6, <1>7, <1>8 DEF Next

LEMMA InitOutcomes == Init => OutcomeInvariant
<1>. SUFFICES ASSUME Init PROVE OutcomeInvariant
  OBVIOUS
<1>1. handles = {} /\ \A c \in Children : diskJob[c] = job[c]
  BY DEF Init
<1>2. \A c \in Children : diskJob[c].status = "absent"
  BY DEF Init, NoJob
<1>. QED BY <1>1, <1>2 DEF OutcomeInvariant, HandlesActive, FinalLags, Terminal

-------------------------------------------------------------------------------
(* An outcome is written once *)

\* The record of a child that has ended is written once, over one that had not: a crash
\* that tears the write destroys no outcome.
WrittenOnce(c) ==
    \A i \in DOMAIN io : io[i] = SaveJob(c) =>
        diskJob[c].status \notin Terminal /\ \A j \in DOMAIN io : io[j] = SaveJob(c) => j = i
WritesOnce == Running => \A c \in Children : job[c].status \in Terminal => WrittenOnce(c)

\* A handler that holds the lock asks for no more.
AsksOnce ==
    /\ Locked /\ diskJob' = diskJob
    /\ \A c \in Children : job'[c].status \in Terminal =>
         \A i \in DOMAIN io' : io'[i] = SaveJob(c) =>
            job[c].status \notin Terminal /\ \A j \in DOMAIN io' : io'[j] = SaveJob(c) => j = i

\* An order lists every child once.
LEMMA OrderOnce ==
  ASSUME NEW S \in SUBSET Children, NEW s \in Orders(S)
  PROVE  \A i, j \in DOMAIN s : s[i] = s[j] => i = j
<1>. DEFINE n == Cardinality(S)
<1>1. IsFiniteSet(S) /\ n \in Nat
  BY ChildrenFinite, FS_Subset, FS_CardinalityType
<1>2. s \in [1..n -> S] /\ \A x \in S : \E i \in 1..n : s[i] = x
  BY DEF Orders
<1>3. IsFiniteSet(1..n) /\ Cardinality(1..n) = n
  BY <1>1, FS_Interval
<1>4. s \in Surjection(1..n, S)
  BY <1>2 DEF Surjection
<1>5. s \in Injection(1..n, S)
  BY <1>1, <1>3, <1>4, FS_SurjSameCardinalityImpliesInj
<1>. QED BY <1>2, <1>5 DEF Injection, IsInjective

\* The writes of an order, before others that are not of children.
LEMMA SavesOnce ==
  ASSUME NEW S \in SUBSET Children, NEW s \in Orders(S), NEW t \in Seq(Effects),
         \A i \in DOMAIN t : t[i].op # "job"
  PROVE  \A c, i : i \in DOMAIN (SaveJobs(s) \o t) /\ (SaveJobs(s) \o t)[i] = SaveJob(c) =>
            /\ c \in S
            /\ \A j \in DOMAIN (SaveJobs(s) \o t) : (SaveJobs(s) \o t)[j] = SaveJob(c) => j = i
<1>. DEFINE u == SaveJobs(s)   n == Len(s)
<1>1. s \in Seq(S) /\ n \in Nat /\ DOMAIN s = 1..n
  BY OrderType
<1>2. u \in Seq(Effects) /\ Len(u) = n /\ \A i \in 1..n : u[i] = SaveJob(s[i])
  <2>1. u \in Seq(Effects)
    BY OrderType, SaveJobsType
  <2>2. DOMAIN u = 1..n /\ \A i \in 1..n : u[i] = SaveJob(s[i])
    BY <1>1 DEF SaveJobs
  <2>. HIDE DEF u
  <2>. QED BY <1>1, <2>1, <2>2
<1>. HIDE DEF u
<1>3. ASSUME NEW i \in DOMAIN (u \o t) PROVE (u \o t)[i].op = "job" => i \in 1..n /\ (u \o t)[i] = SaveJob(s[i])
  <2>1. CASE i \in 1..n
    <3>1. (u \o t)[i] = u[i]
      BY <1>2, <2>1
    <3>. QED BY <1>2, <2>1, <3>1
  <2>2. CASE i \notin 1..n
    <3>1. i - n \in DOMAIN t /\ (u \o t)[i] = t[i - n]
      BY <1>2, <2>2
    <3>. QED BY <3>1
  <2>. QED BY <2>1, <2>2
<1>4. \A c : SaveJob(c).op = "job" /\ \A d : SaveJob(c) = SaveJob(d) => c = d
  BY DEF SaveJob
<1>5. ASSUME NEW c, NEW i \in DOMAIN (u \o t), (u \o t)[i] = SaveJob(c)
      PROVE  i \in 1..n /\ s[i] = c
  BY <1>3, <1>4, <1>5
<1>6. \A i \in 1..n : s[i] \in S
  BY <1>1
<1>7. \A i, j \in 1..n : s[i] = s[j] => i = j
  BY <1>1, OrderOnce
<1>8. \A c, i : i \in DOMAIN (u \o t) /\ (u \o t)[i] = SaveJob(c) =>
         c \in S /\ \A j \in DOMAIN (u \o t) : (u \o t)[j] = SaveJob(c) => j = i
  <2>. SUFFICES ASSUME NEW c, NEW i \in DOMAIN (u \o t), (u \o t)[i] = SaveJob(c)
                PROVE  c \in S /\ \A j \in DOMAIN (u \o t) : (u \o t)[j] = SaveJob(c) => j = i
    BY Zenon
  <2>1. i \in 1..n /\ s[i] = c
    BY <1>5
  <2>2. ASSUME NEW j \in DOMAIN (u \o t), (u \o t)[j] = SaveJob(c) PROVE j = i
    <3>1. j \in 1..n /\ s[j] = c
      BY <1>5, <2>2
    <3>. QED BY <1>7, <2>1, <3>1, Zenon
  <2>. QED BY <1>6, <2>1, <2>2, Zenon
<1>. QED BY <1>8, Zenon DEF u

\* What prepare_for_restart writes of children is what it puts back.
LEMMA RequeuesOnly ==
  ASSUME NEW S \in SUBSET Children, NEW s \in Orders(S)
  PROVE  \A c, i : /\ i \in DOMAIN (RequeueWrites(s) \o <<SaveQueue>>)
                   /\ (RequeueWrites(s) \o <<SaveQueue>>)[i] = SaveJob(c)
                   => c \in S
<1>. DEFINE u == RequeueWrites(s)   n == Len(s)
<1>1. s \in Seq(S) /\ s \in Seq(Children) /\ n \in Nat /\ \A i \in 1..n : s[i] \in S
  BY OrderType
<1>2. u \in Seq(Effects) /\ DOMAIN u = 1..(2 * n) /\ Len(u) = 2 * n
  BY <1>1, RequeueWritesType DEF RequeueWrites
<1>3. ASSUME NEW i \in 1..(2 * n), NEW c, u[i] = SaveJob(c) PROVE c \in S
  <2>1. CASE i % 2 = 1
    <3>1. (i + 1) \div 2 \in 1..n
      BY <1>1, <2>1
    <3>2. u[i] = SaveJob(s[(i + 1) \div 2])
      BY <2>1 DEF RequeueWrites
    <3>3. c = s[(i + 1) \div 2]
      BY <1>3, <3>2 DEF SaveJob
    <3>. QED BY <1>1, <3>1, <3>3
  <2>2. CASE i % 2 # 1
    <3>1. u[i].op = "top"
      BY <2>2 DEF RequeueWrites, SaveTop
    <3>. QED BY <1>3, <3>1 DEF SaveJob
  <2>. QED BY <2>1, <2>2
<1>. HIDE DEF u
<1>4. <<SaveQueue>> \in Seq(Effects) /\ SaveQueue.op # "job" /\ \A c : SaveJob(c).op = "job"
  BY EffectTypes DEF SaveQueue, SaveJob
<1>5. ASSUME NEW c, NEW i \in DOMAIN (u \o <<SaveQueue>>), (u \o <<SaveQueue>>)[i] = SaveJob(c)
      PROVE  c \in S
  <2>1. CASE i \in 1..(2 * n)
    <3>1. (u \o <<SaveQueue>>)[i] = u[i]
      BY <1>1, <1>2, <2>1
    <3>. QED BY <1>3, <1>5, <2>1, <3>1
  <2>2. CASE i \notin 1..(2 * n)
    <3>1. (u \o <<SaveQueue>>)[i] = SaveQueue
      BY <1>1, <1>2, <1>4, <2>2
    <3>. QED BY <1>4, <1>5, <3>1
  <2>. QED BY <2>1, <2>2
<1>. QED BY <1>5 DEF u

\* A handler whose effects hold no write of an ended child.
LEMMA AsksNothing ==
  ASSUME Locked, diskJob' = diskJob,
         \A c \in Children : (\E i \in DOMAIN io' : io'[i] = SaveJob(c)) => job'[c].status \notin Terminal
  PROVE  AsksOnce
BY DEF AsksOnce

LEMMA CreateBatchAsks ==
  ASSUME RecordTypes, NEW S \in (SUBSET Lanes) \ {{}}, NEW key \in BatchKeys,
         CreateTaskBatchJob(S, key)
  PROVE  AsksOnce
<1>. DEFINE p == made + 1   kids == {p} \X S
<1>1. PICK q \in Parents : q = p
  BY NewParent DEF CreateTaskBatchJob, RecordTypes
<1>2. kids \in SUBSET Children
  BY <1>1 DEF Children
<1>. DEFINE t == <<SaveTop(q), SaveQueue>>
<1>3. PICK s \in Orders(kids) : io' = SaveJobs(s) \o t
  BY <1>1 DEF CreateTaskBatchJob
<1>4. t \in Seq(Effects) /\ \A i \in DOMAIN t : t[i].op # "job"
  BY EffectTypes DEF SaveTop, SaveQueue
<1>5. Locked /\ diskJob' = diskJob /\ \A c \in kids : c \in Children => job'[c].status = "queued"
  BY DEF CreateTaskBatchJob, disk, NewJob, NoJob
<1>. HIDE DEF p, kids, t
<1>6. \A c \in Children : (\E i \in DOMAIN io' : io'[i] = SaveJob(c)) => c \in kids
  BY <1>2, <1>3, <1>4, SavesOnce
<1>. QED BY <1>5, <1>6, AsksNothing DEF Terminal

\* The effects of a cancellation: the children it changed, once each.
LEMMA CancelAsks ==
  ASSUME RecordTypes, NEW T \in SUBSET Children, NEW p \in Parents, CancelChildren(T, p),
         Locked, diskJob' = diskJob
  PROVE  AsksOnce
<1>. DEFINE hit == {c \in T : Cancelled(c) # job[c]}
            t   == <<SaveTop(p), SaveQueue>>
<1>1. PICK s \in Orders(hit) : io' = SaveJobs(s) \o t
  BY DEF CancelChildren
<1>2. hit \in SUBSET Children
  OBVIOUS
<1>3. t \in Seq(Effects) /\ \A i \in DOMAIN t : t[i].op # "job"
  BY EffectTypes DEF SaveTop, SaveQueue
<1>4. \A c \in hit : job[c].status \notin Terminal
  BY DEF Cancelled, Terminal
<1>. HIDE DEF hit, t
<1>5. \A c, i : i \in DOMAIN io' /\ io'[i] = SaveJob(c) =>
         c \in hit /\ \A j \in DOMAIN io' : io'[j] = SaveJob(c) => j = i
  BY <1>1, <1>2, <1>3, SavesOnce
<1>. QED BY <1>4, <1>5 DEF AsksOnce

LEMMA CancelParentAsks ==
  ASSUME RecordTypes, NEW p \in Parents, CancelParent(p)
  PROVE  AsksOnce
<1>. DEFINE T == ChildrenOf(p, job)
<1>1. Locked /\ diskJob' = diskJob
  BY DEF CancelParent, disk
<1>2. CASE T # {}
  <2>1. CancelChildren(T, p) /\ T \in SUBSET Children
    BY <1>2 DEF CancelParent, ChildrenOf
  <2>. QED BY <1>1, <2>1, CancelAsks
<1>3. CASE T = {}
  <2>1. io' = <<SaveTop(p), SaveQueue>>
    BY <1>3 DEF CancelParent
  <2>2. \A i \in DOMAIN io' : io'[i].op # "job"
    BY <2>1 DEF SaveTop, SaveQueue
  <2>. QED BY <1>1, <2>2 DEF AsksOnce, SaveJob
<1>. QED BY <1>2, <1>3

LEMMA CancelChildAsks ==
  ASSUME RecordTypes, NEW c \in Children, CancelChild(c)
  PROVE  AsksOnce
<1>1. c[1] \in Parents /\ Locked /\ diskJob' = diskJob /\ CancelChildren({c}, c[1])
  BY DEF CancelChild, disk, Children
<1>. QED BY <1>1, CancelAsks

\* The handlers that list their effects name one child at most.
LEMMA OneAsks ==
  ASSUME Locked, diskJob' = diskJob, NEW k \in Children, job[k].status \notin Terminal, NEW n \in Nat,
         \A i \in DOMAIN io' : io'[i].op = "job" => i = n /\ io'[i] = SaveJob(k)
  PROVE  AsksOnce
<1>1. ASSUME NEW c, NEW i \in DOMAIN io', io'[i] = SaveJob(c) PROVE i = n /\ c = k
  BY <1>1 DEF SaveJob
<1>. QED BY <1>1 DEF AsksOnce

LEMMA ListedAsks ==
  ASSUME RecordTypes, HandlesActive,
         \/ \E l \in Lanes, key \in Requests : CreateRegisteredTaskJob(l, key)
         \/ \E i \in DOMAIN queue : DispatchSpawn(i) \/ DispatchFails(i)
         \/ \E c \in Children, outcome \in Outcomes : Finish(c, outcome)
         \/ \E c \in Children : WatchOrphan(c) \/ RefreshRunningJob(c)
  PROVE  AsksOnce
<1>1. ASSUME NEW l \in Lanes, NEW key \in Requests, CreateRegisteredTaskJob(l, key) PROVE AsksOnce
  <2>1. PICK p \in Parents : p = made + 1
    BY <1>1, NewParent DEF CreateRegisteredTaskJob, RecordTypes
  <2>2. io' = <<SaveTop(p), SaveJob(<<p, l>>), SaveQueue>> /\ Locked /\ diskJob' = diskJob
        /\ job' = [job EXCEPT ![<<p, l>>] = NewJob] /\ <<p, l>> \in Children
    BY <1>1, <2>1 DEF CreateRegisteredTaskJob, disk, Children
  <2>3. job'[<<p, l>>].status \notin Terminal
    BY <2>2 DEF RecordTypes, NewJob, NoJob, Terminal
  <2>4. \A i \in DOMAIN io' : io'[i].op = "job" => io'[i] = SaveJob(<<p, l>>)
    BY <2>2 DEF SaveTop, SaveJob, SaveQueue
  <2>5. \A c, i : i \in DOMAIN io' /\ io'[i] = SaveJob(c) => c = <<p, l>>
    BY <2>4 DEF SaveJob
  <2>. QED BY <2>2, <2>3, <2>5, AsksNothing
<1>2. ASSUME NEW i \in DOMAIN queue, DispatchSpawn(i) \/ DispatchFails(i) PROVE AsksOnce
  <2>. DEFINE k == queue[i]
  <2>1. job[k].status = "queued" /\ Locked /\ diskJob' = diskJob
    BY <1>2 DEF DispatchSpawn, DispatchFails, Selects, Eligible, Dispatching, disk
  <2>2. \/ io' = <<SaveQueue, SpawnOf(k), SaveJob(k), SaveTop(k[1])>>
        \/ io' = <<SaveQueue, SaveJob(k), SaveTop(k[1])>>
    BY <1>2 DEF DispatchSpawn, DispatchFails
  <2>. HIDE DEF k
  <2>3. job[k].status \notin Terminal
    BY <2>1 DEF Terminal
  <2>4. ASSUME io' = <<SaveQueue, SpawnOf(k), SaveJob(k), SaveTop(k[1])>>
        PROVE  \A j \in DOMAIN io' : io'[j].op = "job" => j = 3 /\ io'[j] = SaveJob(k)
    BY <2>4 DEF SaveQueue, SpawnOf, SaveJob, SaveTop
  <2>5. ASSUME io' = <<SaveQueue, SaveJob(k), SaveTop(k[1])>>
        PROVE  \A j \in DOMAIN io' : io'[j].op = "job" => j = 2 /\ io'[j] = SaveJob(k)
    BY <2>5 DEF SaveQueue, SaveJob, SaveTop
  <2>6. \/ \A j \in DOMAIN io' : io'[j].op = "job" => j = 3 /\ io'[j] = SaveJob(k)
        \/ \A j \in DOMAIN io' : io'[j].op = "job" => j = 2 /\ io'[j] = SaveJob(k)
    BY <2>2, <2>4, <2>5, Zenon
  <2>7. k \in Children
    BY <1>2 DEF DispatchSpawn, DispatchFails, Selects, Eligible, k
  <2>. QED BY <2>1, <2>3, <2>6, <2>7, OneAsks
<1>3. ASSUME NEW k \in Children, NEW outcome \in Outcomes, Finish(k, outcome) PROVE AsksOnce
  <2>1. Locked /\ diskJob' = diskJob /\ k \in handles
    BY <1>3 DEF Finish, disk
  <2>2. CASE k \in restarting
    <3>1. io' = <<>>
      BY <1>3, <2>2 DEF Finish, Locked
    <3>. QED BY <2>1, <3>1 DEF AsksOnce
  <2>3. CASE k \notin restarting
    <3>1. job[k].status \notin Terminal
      BY <2>1, <2>3 DEF HandlesActive, ProcessActive, Terminal
    <3>2. io' = <<SaveJob(k), SaveTop(k[1])>>
      BY <1>3, <2>3 DEF Finish
    <3>3. \A j \in DOMAIN io' : io'[j].op = "job" => j = 1 /\ io'[j] = SaveJob(k)
      BY <3>2 DEF SaveJob, SaveTop
    <3>. QED BY <2>1, <3>1, <3>3, OneAsks
  <2>. QED BY <2>2, <2>3
<1>4. ASSUME NEW k \in Children, WatchOrphan(k) \/ RefreshRunningJob(k) PROVE AsksOnce
  <2>1. job[k].status \notin Terminal /\ Locked /\ diskJob' = diskJob
    BY <1>4 DEF WatchOrphan, RefreshRunningJob, disk, ProcessActive, Terminal
  <2>2. io' = <<SaveJob(k), SaveQueue, SaveTop(k[1])>> \/ io' = <<SaveJob(k), SaveTop(k[1])>>
    BY <1>4 DEF WatchOrphan, RefreshRunningJob
  <2>3. \A j \in DOMAIN io' : io'[j].op = "job" => j = 1 /\ io'[j] = SaveJob(k)
    BY <2>2 DEF SaveQueue, SaveJob, SaveTop
  <2>. QED BY <2>1, <2>3, OneAsks
<1>. QED BY <1>1, <1>2, <1>3, <1>4

LEMMA PrepareAsks ==
  ASSUME RecordTypes, PrepareForRestart
  PROVE  AsksOnce
<1>. DEFINE running == {c \in handles : job[c].status = "running"}
<1>1. running \in SUBSET Children /\ Locked /\ diskJob' = diskJob
  BY DEF RecordTypes, PrepareForRestart, disk
<1>2. \A c \in Children : c \in running => job'[c].status = "queued"
  <2>1. \A c \in Children : c \in running => job'[c] = Requeued(job[c]) /\ job[c] \in JobRecord
    BY DEF PrepareForRestart, RecordTypes
  <2>. QED BY <2>1 DEF Requeued, JobRecord
<1>3. CASE running = {}
  <2>1. io' = <<>>
    BY <1>3 DEF PrepareForRestart
  <2>. QED BY <1>1, <2>1 DEF AsksOnce
<1>4. CASE running # {}
  <2>1. PICK s \in Orders(running) : io' = RequeueWrites(s) \o <<SaveQueue>>
    BY <1>4 DEF PrepareForRestart
  <2>. HIDE DEF running
  <2>2. \A c \in Children : (\E i \in DOMAIN io' : io'[i] = SaveJob(c)) => c \in running
    BY <1>1, <2>1, RequeuesOnly
  <2>. QED BY <1>1, <1>2, <2>2, AsksNothing DEF Terminal
<1>. QED BY <1>3, <1>4

LEMMA ReadersAsk ==
  ASSUME \/ \E p \in Parents : RefreshParent(p)
         \/ \E key \in Configs : ListPendingJobs(key)
         \/ DispatchNone
  PROVE  AsksOnce
<1>1. Locked /\ diskJob' = diskJob
  BY DEF RefreshParent, ListPendingJobs, DispatchNone, Dispatching, disk
<1>2. (\E p \in Parents : io' = <<SaveTop(p)>>) \/ io' = <<>> \/ io' = <<SaveQueue>>
  BY DEF RefreshParent, ListPendingJobs, DispatchNone, Locked
<1>3. \A i \in DOMAIN io' : io'[i].op # "job"
  BY <1>2 DEF SaveTop, SaveQueue
<1>. QED BY <1>1, <1>3 DEF AsksOnce, SaveJob

LEMMA HandlerWrites ==
  ASSUME SlotInvariant, AsksOnce PROVE WritesOnce'
<1>1. \A c \in Children : diskJob'[c] = job[c]
  BY LockedFiles DEF AsksOnce, SlotInvariant
<1>. QED BY <1>1 DEF AsksOnce, WritesOnce, WrittenOnce

\* Load writes the records it has changed; those with an outcome it has not.
LEMMA LoadWrites ==
  ASSUME RecordTypes, Load PROVE WritesOnce'
<1>. DEFINE jobs  == [c \in Children |-> Reloaded(c, diskJob[c])]
            stale == {c \in Children : jobs[c] # diskJob[c]}
            fresh == Refreshable(diskTop, jobs)
<1>1. PICK s \in Orders(stale), t \in Orders(fresh) :
        io' = SaveJobs(s) \o SaveTops(t) \o <<SaveQueue>>
  BY DEF Load
<1>2. stale \in SUBSET Children /\ fresh \in SUBSET Parents
  BY DEF Refreshable
<1>3. diskJob' = diskJob /\ \A c \in stale : diskJob[c].status \notin Terminal
  BY DEF Load, disk, Reloaded, Terminal
<1>. HIDE DEF stale, fresh
<1>. DEFINE u == SaveTops(t) \o <<SaveQueue>>
<1>4. SaveJobs(s) \in Seq(Effects) /\ SaveTops(t) \in Seq(Effects) /\ <<SaveQueue>> \in Seq(Effects)
  BY <1>2, OrderType, ParentOrderType, SaveJobsType, SaveTopsType, EffectTypes
<1>5. u \in Seq(Effects) /\ io' = SaveJobs(s) \o u
  BY <1>1, <1>4
<1>6. \A i \in DOMAIN u : u[i].op # "job"
  <2>1. \A i \in DOMAIN SaveTops(t) : SaveTops(t)[i].op = "top"
    BY DEF SaveTops, SaveTop
  <2>. DEFINE v == SaveTops(t)
  <2>2. v \in Seq(Effects) /\ \A i \in DOMAIN v : v[i].op = "top"
    BY <1>4, <2>1
  <2>. HIDE DEF v
  <2>3. \A i \in DOMAIN (v \o <<SaveQueue>>) : (v \o <<SaveQueue>>)[i].op # "job"
    <3>. SUFFICES ASSUME NEW i \in DOMAIN (v \o <<SaveQueue>>) PROVE (v \o <<SaveQueue>>)[i].op # "job"
      OBVIOUS
    <3>1. i \in DOMAIN v => (v \o <<SaveQueue>>)[i] = v[i]
      BY <1>4, <2>2
    <3>2. i \notin DOMAIN v => (v \o <<SaveQueue>>)[i] = SaveQueue
      BY <1>4, <2>2
    <3>. QED BY <2>2, <3>1, <3>2 DEF SaveQueue
  <2>. QED BY <2>3 DEF v
<1>. HIDE DEF u
<1>7. \A c, i : i \in DOMAIN io' /\ io'[i] = SaveJob(c) =>
         c \in stale /\ \A j \in DOMAIN io' : io'[j] = SaveJob(c) => j = i
  BY <1>2, <1>5, <1>6, SavesOnce
<1>. QED BY <1>3, <1>7 DEF WritesOnce, WrittenOnce

LEMMA FlushWrites ==
  ASSUME RecordTypes, SlotInvariant, WritesOnce, Flush PROVE WritesOnce'
<1>1. io \in Seq(Effects) /\ io # <<>> /\ io' = Tail(io) /\ Head(io) = io[1] /\ UNCHANGED <<job, phase>>
  BY DEF Flush, RecordTypes, memory
<1>2. Running
  BY <1>1 DEF SlotInvariant, DownKnowsNothing
<1>3. 1 \in DOMAIN io /\ \A i \in DOMAIN io' : i \in Nat /\ i + 1 \in DOMAIN io /\ io'[i] = io[i + 1] /\ i + 1 # 1
  BY <1>1
<1>4. ASSUME NEW c \in Children, job[c].status \in Terminal PROVE WrittenOnce(c)'
  <2>1. WrittenOnce(c)
    BY <1>2, <1>4 DEF WritesOnce
  <2>2. ASSUME NEW i \in DOMAIN io', io'[i] = SaveJob(c)
        PROVE  /\ diskJob'[c].status \notin Terminal
               /\ \A j \in DOMAIN io' : io'[j] = SaveJob(c) => j = i
    <3>1. io[i + 1] = SaveJob(c) /\ Head(io) # SaveJob(c)
      BY <1>1, <1>3, <2>1, <2>2 DEF WrittenOnce
    <3>2. diskJob'[c] = diskJob[c]
      BY <3>1, FlushedRecord
    <3>3. \A j \in DOMAIN io' : io'[j] = SaveJob(c) => j + 1 = i + 1
      BY <1>3, <2>1, <3>1 DEF WrittenOnce
    <3>. QED BY <1>3, <2>1, <3>1, <3>2, <3>3 DEF WrittenOnce
  <2>. QED BY <2>2 DEF WrittenOnce
<1>. QED BY <1>1, <1>4 DEF WritesOnce

LEMMA WritesStep ==
  ASSUME RecordTypes, SlotInvariant, HandlesActive, WritesOnce, [Next]_vars PROVE WritesOnce'
<1>1. CASE AsksOnce
  BY <1>1, HandlerWrites
<1>2. CASE UNCHANGED vars \/ \E x \in live : ProcessExit(x)
  <2>1. UNCHANGED <<memory, disk, phase, io>>
    BY <1>2 DEF vars, ProcessExit
  <2>. QED BY <2>1 DEF WritesOnce, WrittenOnce, Running, memory, disk
<1>3. CASE Exit \/ Crash
  <2>1. phase' = "down"
    BY <1>3 DEF Exit, Crash, NoMemory
  <2>. QED BY <2>1 DEF WritesOnce, Running
<1>4. CASE Load
  BY <1>4, LoadWrites
<1>5. CASE Flush
  BY <1>5, FlushWrites
<1>6. CASE Next /\ ~Exit /\ ~Crash /\ ~Load /\ ~Flush /\ ~\E x \in live : ProcessExit(x)
  <2>1. AsksOnce
    BY <1>6, CreateBatchAsks, CancelParentAsks, CancelChildAsks, ListedAsks, PrepareAsks, ReadersAsk
    DEF Next
  <2>. QED BY <1>1, <2>1
<1>. QED BY <1>2, <1>3, <1>4, <1>5, <1>6

-------------------------------------------------------------------------------
(* Outcomes on disk *)

\* In every reachable state a late exit code finds no ended child to report, and what
\* the disk says of a child's outcome or cancellation is known in memory.
THEOREM OutcomesKept == Spec => []OutcomeInvariant
<1>1. Init => OutcomeInvariant
  BY InitOutcomes
<1>2. RecordTypes /\ SlotInvariant /\ OutcomeInvariant /\ [Next]_vars => OutcomeInvariant'
  BY OutcomeStep
<1>. QED BY <1>1, <1>2, RecordsTyped, SlotsKept, PTL DEF Spec

\* Nor is an outcome ever written over one.
THEOREM OutcomesWrittenOnce == Spec => []WritesOnce
<1>1. Init => WritesOnce
  BY DEF Init, WritesOnce, WrittenOnce
<1>2. RecordTypes /\ SlotInvariant /\ OutcomeInvariant /\ WritesOnce /\ [Next]_vars => WritesOnce'
  BY WritesStep DEF OutcomeInvariant
<1>. QED BY <1>1, <1>2, RecordsTyped, SlotsKept, OutcomesKept, PTL DEF Spec

\* Only a flush, or a crash that tears the write under way, touches a child's record on
\* disk.
LEMMA RecordsOnDisk ==
  ASSUME RecordTypes, SlotInvariant, [Next]_vars, NEW c \in Children
  PROVE  \/ diskJob'[c] = diskJob[c]
         \/ Running /\ diskJob'[c] = job[c]
         \/ TornWrites /\ Running /\ 1 \in DOMAIN io /\ io[1] = SaveJob(c)
<1>1. CASE Flush
  <2>1. Running
    BY <1>1 DEF Flush, SlotInvariant, DownKnowsNothing
  <2>. QED BY <1>1, <2>1, FlushedRecord
<1>2. CASE Crash
  <2>1. CASE diskJob' = diskJob
    BY <2>1
  <2>2. CASE diskJob' # diskJob
    <3>1. TornWrites /\ Running /\ io # <<>> /\ io \in Seq(Effects) /\ Head(io).op = "job"
          /\ diskJob' = [diskJob EXCEPT ![Head(io).c] = NoJob]
      BY <1>2, <2>2 DEF Crash, disk, Running, RecordTypes
    <3>2. 1 \in DOMAIN io /\ io[1] = Head(io) /\ Head(io) \in Effects
      BY <3>1
    <3>3. Head(io) = SaveJob(Head(io).c)
      BY <3>1, <3>2 DEF Effects, SaveJob, SaveTop, SpawnOf, SaveQueue
    <3>4. CASE Head(io).c = c
      BY <3>1, <3>2, <3>3, <3>4
    <3>5. CASE Head(io).c # c
      BY <3>1, <3>5 DEF RecordTypes
    <3>. QED BY <3>4, <3>5
  <2>. QED BY <2>1, <2>2
<1>3. CASE ~Flush /\ ~Crash
  <2>1. diskJob' = diskJob
    BY <1>3, Zenon DEF Next, vars, disk, CreateTaskBatchJob, CreateRegisteredTaskJob, CancelParent, CancelChild,
       ListPendingJobs, DispatchNone, DispatchSpawn, DispatchFails, Finish, RefreshRunningJob, RefreshParent,
       WatchOrphan, PrepareForRestart, Exit, Load, ProcessExit
  <2>2. diskJob'[c] = diskJob[c]
    BY <2>1
  <2>. QED BY <2>2
<1>. QED BY <1>1, <1>2, <1>3

\* What a child's record ended with is never overwritten: not by an exit code that comes
\* late, a reader, a cancellation or a restart, nor by a crash that tears a write.
THEOREM OutcomesFinal == Spec => OutcomeIsFinal
<1>1. RecordTypes /\ SlotInvariant /\ OutcomeInvariant /\ WritesOnce /\ [Next]_vars
        => [\A c \in Children : diskJob[c].status \in Terminal => diskJob'[c] = diskJob[c]]_vars
  <2>. SUFFICES ASSUME RecordTypes, SlotInvariant, OutcomeInvariant, WritesOnce, [Next]_vars,
                       NEW c \in Children, diskJob[c].status \in Terminal
                PROVE  diskJob'[c] = diskJob[c]
    OBVIOUS
  <2>1. Running => job[c] = diskJob[c] /\ WrittenOnce(c)
    BY DEF OutcomeInvariant, FinalLags, WritesOnce
  <2>. QED BY <2>1, RecordsOnDisk DEF WrittenOnce
<1>. QED BY <1>1, RecordsTyped, SlotsKept, OutcomesKept, OutcomesWrittenOnce, PTL DEF Spec, OutcomeIsFinal

\* When writes are not torn, a cancelled child is never reported with an outcome and never
\* queued again.
THEOREM CancelsFinal ==
  ASSUME ~TornWrites PROVE Spec => CancelIsFinal
<1>1. RecordTypes /\ SlotInvariant /\ OutcomeInvariant /\ [Next]_vars
        => [\A c \in Children : diskJob[c].status = "cancelling" =>
              diskJob'[c].status \in {"cancelling", "cancelled"}]_vars
  <2>. SUFFICES ASSUME RecordTypes, SlotInvariant, OutcomeInvariant, [Next]_vars,
                       NEW c \in Children, diskJob[c].status = "cancelling"
                PROVE  diskJob'[c].status \in {"cancelling", "cancelled"}
    OBVIOUS
  <2>. QED BY RecordsOnDisk DEF OutcomeInvariant, FinalLags
<1>. QED BY <1>1, RecordsTyped, SlotsKept, OutcomesKept, PTL DEF Spec, CancelIsFinal

-------------------------------------------------------------------------------
(* Processes *)

\* A live process of this incarnation has its handle, and a child that is running or being
\* cancelled, or that a restart has put back; one of an earlier incarnation is of a child
\* whose cancellation it has not noticed yet.
HasOwner(x) ==
    \/ /\ x[2] = epoch /\ x[1] \in handles
       /\ job[x[1]].status \in ProcessActive \/ (phase = "stopping" /\ x[1] \in restarting)
    \/ x[2] < epoch /\ job[x[1]].status \in {"cancelling", "cancelled"}

\* A spawn still to be performed is the only one, and is the first of its child.
OneSpawn ==
    \A i \in DOMAIN io, c \in Children : io[i] = SpawnOf(c) =>
        /\ job[c].status = "running" /\ \A x \in live : x[1] # c
        /\ \A j \in DOMAIN io, d \in Children : io[j] = SpawnOf(d) => j = i
RunningHeld == \A c \in Children : job[c].status = "running" => phase = "up" /\ c \in handles
StopsKnown == (phase # "stopping" => restarting = {}) /\ (phase # "up" => restarts > 0)
ProcessInvariant ==
    /\ StopsKnown
    /\ Running => RunningHeld /\ OneSpawn /\ \A x \in live : HasOwner(x)
    /\ ~Running => /\ \A c \in Children : diskJob[c].status # "running"
                   /\ \A x \in live : x[2] <= epoch /\ diskJob[x[1]].status \in {"cancelling", "cancelled"}
    /\ OneProcessPerJob

\* What handlers other than a dispatch have to do when they let go of the lock.
FileWrites == {SaveJob(c) : c \in Children} \union {SaveTop(p) : p \in Parents} \union {SaveQueue}

LEMMA WritesListed ==
  /\ SaveQueue \in FileWrites /\ \A p \in Parents : SaveTop(p) \in FileWrites
  /\ \A c \in Children : SaveJob(c) \in FileWrites /\ SaveTop(c[1]) \in FileWrites
  /\ \A s \in Seq(Children) : SaveJobs(s) \in Seq(FileWrites)
  /\ \A s \in Seq(Parents) : SaveTops(s) \in Seq(FileWrites)
<1>1. /\ SaveQueue \in FileWrites /\ \A p \in Parents : SaveTop(p) \in FileWrites
      /\ \A c \in Children : SaveJob(c) \in FileWrites /\ SaveTop(c[1]) \in FileWrites
  BY DEF FileWrites, Children
<1>. QED BY <1>1 DEF SaveJobs, SaveTops

LEMMA RequeuesListed ==
  ASSUME NEW s \in Seq(Children) PROVE RequeueWrites(s) \in Seq(FileWrites)
<1>. DEFINE n == 2 * Len(s)
<1>1. n \in Nat
  OBVIOUS
<1>2. ASSUME NEW i \in 1..n PROVE RequeueWrites(s)[i] \in FileWrites
  <2>1. CASE i % 2 = 1
    <3>1. (i + 1) \div 2 \in 1..Len(s)
      BY <2>1
    <3>. QED BY <2>1, <3>1, WritesListed DEF RequeueWrites
  <2>2. CASE i % 2 # 1
    <3>1. i \div 2 \in 1..Len(s)
      BY <2>2
    <3>2. s[i \div 2] \in Children
      BY <3>1
    <3>. QED BY <2>2, <3>2, WritesListed DEF RequeueWrites
  <2>. QED BY <2>1, <2>2
<1>3. DOMAIN RequeueWrites(s) = 1..n
  BY DEF RequeueWrites
<1>4. RequeueWrites(s) = [i \in 1..n |-> RequeueWrites(s)[i]]
  BY DEF RequeueWrites
<1>. QED BY <1>1, <1>2, <1>4

LEMMA NothingSpawned ==
  ASSUME io' \in Seq(FileWrites) PROVE OneSpawn'
<1>1. \A i \in DOMAIN io' : io'[i] \in FileWrites
  OBVIOUS
<1>2. \A i \in DOMAIN io' : \A c : io'[i] # SpawnOf(c)
  BY <1>1 DEF FileWrites, SaveJob, SaveTop, SaveQueue, SpawnOf
<1>. QED BY <1>2 DEF OneSpawn

\* A handler that touches one child.
LEMMA OneChildProcess ==
  ASSUME RecordTypes, ProcessInvariant, Locked, UNCHANGED <<live, epoch, phase, restarting, restarts>>,
         OneSpawn', NEW k \in Children,
         \A c \in Children : c # k => job'[c] = job[c] /\ (c \in handles' <=> c \in handles),
         job'[k].status = "running" => phase = "up" /\ k \in handles',
         \A x \in live : x[1] = k => HasOwner(x)'
  PROVE  ProcessInvariant'
<1>1. Running /\ Running'
  BY DEF Locked, Running
<1>2. RunningHeld'
  BY <1>1 DEF ProcessInvariant, RunningHeld
<1>3. ASSUME NEW x \in live PROVE HasOwner(x)'
  <2>1. x[1] \in Children /\ HasOwner(x)
    BY <1>1 DEF RecordTypes, ProcessInvariant
  <2>2. CASE x[1] # k
    BY <2>1, <2>2 DEF HasOwner
  <2>. QED BY <2>2
<1>4. StopsKnown' /\ OneProcessPerJob'
  BY DEF ProcessInvariant, StopsKnown, OneProcessPerJob
<1>. QED BY <1>1, <1>2, <1>3, <1>4 DEF ProcessInvariant

\* A handler that leaves the children alone.
LEMMA SameProcesses ==
  ASSUME ProcessInvariant, Locked, OneSpawn', UNCHANGED <<live, epoch, phase, restarting, restarts, job, handles>>
  PROVE  ProcessInvariant'
<1>1. Running /\ Running'
  BY DEF Locked, Running
<1>2. RunningHeld' /\ \A x \in live : HasOwner(x)'
  BY <1>1 DEF ProcessInvariant, RunningHeld, HasOwner
<1>3. StopsKnown' /\ OneProcessPerJob'
  BY DEF ProcessInvariant, StopsKnown, OneProcessPerJob
<1>. QED BY <1>1, <1>2, <1>3 DEF ProcessInvariant

LEMMA CreateBatchProcess ==
  ASSUME RecordTypes, SlotInvariant, ProcessInvariant,
         NEW S \in (SUBSET Lanes) \ {{}}, NEW key \in BatchKeys, CreateTaskBatchJob(S, key)
  PROVE  ProcessInvariant'
<1>. DEFINE kids == {made + 1} \X S
<1>1. PICK p \in Parents : p = made + 1
  BY NewParent DEF CreateTaskBatchJob, RecordTypes
<1>2. \A c \in kids : c \in Children /\ job[c].status = "absent"
  BY <1>1 DEF Children, SlotInvariant, Unborn, RecordTypes, NoJob
<1>3. \A c \in Children : job'[c] = IF c \in kids THEN NewJob ELSE job[c]
  BY DEF CreateTaskBatchJob
<1>4. Locked /\ UNCHANGED <<live, epoch, phase, restarting, restarts, handles>>
  BY DEF CreateTaskBatchJob
<1>5. io' \in Seq(FileWrites)
  <2>1. PICK s \in Orders(kids) : io' = SaveJobs(s) \o <<SaveTop(p), SaveQueue>>
    BY <1>1 DEF CreateTaskBatchJob
  <2>2. s \in Seq(Children)
    BY <1>2, OrderType
  <2>3. SaveJobs(s) \in Seq(FileWrites) /\ <<SaveTop(p), SaveQueue>> \in Seq(FileWrites)
    BY <2>2, WritesListed
  <2>. QED BY <2>1, <2>3
<1>. HIDE DEF kids
<1>6. Running /\ Running'
  BY <1>4 DEF Locked, Running
<1>7. RunningHeld'
  BY <1>3, <1>4, <1>6 DEF ProcessInvariant, RunningHeld, NewJob, NoJob
<1>8. ASSUME NEW x \in live PROVE HasOwner(x)'
  <2>1. x[1] \in Children /\ HasOwner(x)
    BY <1>6 DEF RecordTypes, ProcessInvariant
  <2>2. x[1] \notin kids
    BY <1>2, <2>1 DEF HasOwner, SlotInvariant, HandlesKnown
  <2>. QED BY <1>3, <1>4, <2>1, <2>2 DEF HasOwner
<1>9. StopsKnown' /\ OneProcessPerJob'
  BY <1>4 DEF ProcessInvariant, StopsKnown, OneProcessPerJob
<1>. QED BY <1>4, <1>5, <1>6, <1>7, <1>8, <1>9, NothingSpawned DEF ProcessInvariant

LEMMA CreateRegisteredProcess ==
  ASSUME RecordTypes, SlotInvariant, ProcessInvariant,
         NEW l \in Lanes, NEW key \in Requests, CreateRegisteredTaskJob(l, key)
  PROVE  ProcessInvariant'
<1>1. PICK p \in Parents : p = made + 1
  BY NewParent DEF CreateRegisteredTaskJob, RecordTypes
<1>. DEFINE k == <<p, l>>
<1>2. k \in Children /\ k[1] = p
  BY DEF Children
<1>. HIDE DEF k
<1>3. job[k].status = "absent" /\ k \notin handles
  BY <1>1, <1>2 DEF SlotInvariant, Unborn, HandlesKnown, RecordTypes, NoJob
<1>4. job' = [job EXCEPT ![k] = NewJob]
  BY <1>1 DEF CreateRegisteredTaskJob, k
<1>5. Locked /\ UNCHANGED <<live, epoch, phase, restarting, restarts, handles>>
  BY DEF CreateRegisteredTaskJob
<1>6. io' \in Seq(FileWrites)
  <2>1. io' = <<SaveTop(p), SaveJob(k), SaveQueue>>
    BY <1>1 DEF CreateRegisteredTaskJob, k
  <2>. QED BY <1>2, <2>1, WritesListed
<1>7. job'[k].status = "queued" /\ \A c \in Children : c # k => job'[c] = job[c]
  BY <1>2, <1>4 DEF RecordTypes, NewJob, NoJob
<1>8. \A x \in live : x[1] # k
  BY <1>3, <1>5 DEF ProcessInvariant, HasOwner, Locked, Running
<1>. QED BY <1>2, <1>3, <1>5, <1>6, <1>7, <1>8, NothingSpawned, OneChildProcess

\* A cancellation reaches a child that has its handle, and one that waits has no process.
LEMMA CancelProcess ==
  ASSUME RecordTypes, ProcessInvariant, NEW T \in SUBSET Children, job' = CancelledJobs(T),
         Locked, phase = "up", UNCHANGED <<live, epoch, phase, restarting, restarts, handles>>,
         io' \in Seq(FileWrites)
  PROVE  ProcessInvariant'
<1>1. Running /\ Running'
  BY DEF Running
<1>2. \A c \in Children : job'[c] = job[c] \/ job'[c] = Cancelled(c)
  BY DEF CancelledJobs
<1>3. \A c \in Children : /\ job'[c].status = "running" => job[c].status = "running"
                          /\ job[c].status \in ProcessActive => job'[c].status \in ProcessActive
                          /\ job[c].status \in {"cancelling", "cancelled"} => job'[c] = job[c]
  BY <1>2 DEF Cancelled, RecordTypes, JobRecord, ProcessActive
<1>4. RunningHeld'
  BY <1>1, <1>3 DEF ProcessInvariant, RunningHeld
<1>5. ASSUME NEW x \in live PROVE HasOwner(x)'
  <2>1. x[1] \in Children /\ HasOwner(x)
    BY <1>1 DEF RecordTypes, ProcessInvariant
  <2>. QED BY <1>3, <2>1 DEF HasOwner
<1>6. StopsKnown' /\ OneProcessPerJob'
  BY DEF ProcessInvariant, StopsKnown, OneProcessPerJob
<1>. QED BY <1>1, <1>4, <1>5, <1>6, NothingSpawned DEF ProcessInvariant

LEMMA CancelWritesListed ==
  ASSUME NEW T \in SUBSET Children, NEW p \in Parents, CancelChildren(T, p)
  PROVE  io' \in Seq(FileWrites)
<1>1. PICK s \in Orders({c \in T : Cancelled(c) # job[c]}) :
        io' = SaveJobs(s) \o <<SaveTop(p), SaveQueue>>
  BY DEF CancelChildren
<1>2. s \in Seq(Children)
  BY OrderType
<1>3. SaveJobs(s) \in Seq(FileWrites) /\ <<SaveTop(p), SaveQueue>> \in Seq(FileWrites)
  BY <1>2, WritesListed
<1>. QED BY <1>1, <1>3

LEMMA CancelsProcess ==
  ASSUME RecordTypes, ProcessInvariant,
         \/ \E p \in Parents : CancelParent(p)
         \/ \E c \in Children : CancelChild(c)
  PROVE  ProcessInvariant'
<1>1. ASSUME NEW p \in Parents, CancelParent(p) PROVE ProcessInvariant'
  <2>. DEFINE T == ChildrenOf(p, job)
  <2>1. Locked /\ phase = "up" /\ UNCHANGED <<live, epoch, phase, restarting, restarts, handles>>
    BY <1>1 DEF CancelParent, history
  <2>2. CASE T # {}
    <3>1. CancelChildren(T, p) /\ T \in SUBSET Children
      BY <1>1, <2>2 DEF CancelParent, ChildrenOf
    <3>2. job' = CancelledJobs(T) /\ io' \in Seq(FileWrites)
      BY <3>1, CancelWritesListed DEF CancelChildren
    <3>. QED BY <2>1, <3>1, <3>2, CancelProcess
  <2>3. CASE T = {}
    <3>1. job' = job /\ io' = <<SaveTop(p), SaveQueue>>
      BY <1>1, <2>3 DEF CancelParent
    <3>2. io' \in Seq(FileWrites)
      BY <3>1, WritesListed
    <3>. QED BY <2>1, <3>1, <3>2, NothingSpawned, SameProcesses
  <2>. QED BY <2>2, <2>3
<1>2. ASSUME NEW c \in Children, CancelChild(c) PROVE ProcessInvariant'
  <2>1. Locked /\ phase = "up" /\ UNCHANGED <<live, epoch, phase, restarting, restarts, handles>>
    BY <1>2 DEF CancelChild, history
  <2>2. CancelChildren({c}, c[1]) /\ {c} \in SUBSET Children /\ c[1] \in Parents
    BY <1>2 DEF CancelChild, Children
  <2>3. job' = CancelledJobs({c}) /\ io' \in Seq(FileWrites)
    BY <2>2, CancelWritesListed DEF CancelChildren
  <2>. QED BY <2>1, <2>2, <2>3, CancelProcess
<1>. QED BY <1>1, <1>2

\* Only a child without a process is dispatched.
LEMMA DispatchProcess ==
  ASSUME RecordTypes, ProcessInvariant, \E i \in DOMAIN queue : DispatchSpawn(i) \/ DispatchFails(i)
  PROVE  ProcessInvariant'
<1>1. PICK i \in DOMAIN queue : DispatchSpawn(i) \/ DispatchFails(i)
  OBVIOUS
<1>. DEFINE k == queue[i]
<1>2. /\ k \in Children /\ job[k].status = "queued" /\ Locked /\ phase = "up"
      /\ UNCHANGED <<live, epoch, phase, restarting, restarts>>
  BY <1>1 DEF DispatchSpawn, DispatchFails, Selects, Eligible, Dispatching, history
<1>3. \A x \in live : x[1] # k
  BY <1>2 DEF ProcessInvariant, HasOwner, Locked, Running, ProcessActive
<1>4. CASE DispatchSpawn(i)
  <2>1. /\ handles' = handles \union {k}
        /\ job' = [job EXCEPT ![k] = [@ EXCEPT !.status = "running", !.started = TRUE, !.pid = epoch]]
        /\ io' = <<SaveQueue, SpawnOf(k), SaveJob(k), SaveTop(k[1])>>
    BY <1>4 DEF DispatchSpawn
  <2>2. job'[k].status = "running" /\ \A c \in Children : c # k => job'[c] = job[c]
    BY <1>2, <2>1 DEF RecordTypes, JobRecord
  <2>. HIDE DEF k
  <2>3. \A j \in DOMAIN io' : \A d : io'[j] = SpawnOf(d) => j = 2 /\ d = k
    BY <2>1 DEF SaveQueue, SpawnOf, SaveJob, SaveTop
  <2>4. OneSpawn'
    BY <1>2, <1>3, <2>2, <2>3 DEF OneSpawn
  <2>. QED BY <1>2, <1>3, <2>1, <2>2, <2>4, OneChildProcess
<1>5. CASE DispatchFails(i)
  <2>1. /\ handles' = handles /\ job' = [job EXCEPT ![k].status = "failed"]
        /\ io' = <<SaveQueue, SaveJob(k), SaveTop(k[1])>>
    BY <1>5 DEF DispatchFails
  <2>2. job'[k].status = "failed" /\ \A c \in Children : c # k => job'[c] = job[c]
    BY <1>2, <2>1 DEF RecordTypes, JobRecord
  <2>. HIDE DEF k
  <2>3. io' \in Seq(FileWrites)
    BY <1>2, <2>1, WritesListed
  <2>. QED BY <1>2, <1>3, <2>1, <2>2, <2>3, NothingSpawned, OneChildProcess
<1>. QED BY <1>1, <1>4, <1>5

LEMMA FinishProcess ==
  ASSUME RecordTypes, HandlesActive, ProcessInvariant, NEW k \in Children, NEW outcome \in Outcomes,
         Finish(k, outcome)
  PROVE  ProcessInvariant'
<1>1. /\ Locked /\ k \in handles /\ <<k, epoch>> \notin live /\ handles' = handles \ {k}
      /\ UNCHANGED <<live, epoch, phase, restarting, restarts>>
  BY DEF Finish, history
<1>2. Running /\ \A x \in live : x = <<x[1], x[2]>> /\ HasOwner(x)
  BY <1>1 DEF Locked, Running, ProcessInvariant, RecordTypes
<1>3. \A x \in live : x[1] = k => x[2] < epoch /\ job[k].status \in {"cancelling", "cancelled"}
  BY <1>1, <1>2 DEF HasOwner
<1>4. CASE k \in restarting
  <2>1. job' = job /\ io' = io
    BY <1>4 DEF Finish
  <2>2. job[k].status # "running"
    BY <1>1, <1>2, <1>4 DEF ProcessInvariant, RunningHeld, StopsKnown
  <2>3. \A x \in live : x[1] = k => HasOwner(x)'
    BY <1>1, <1>3, <2>1 DEF HasOwner
  <2>4. OneSpawn'
    BY <1>1, <2>1 DEF OneSpawn, Locked
  <2>. QED BY <1>1, <2>1, <2>2, <2>3, <2>4, OneChildProcess
<1>5. CASE k \notin restarting
  <2>1. /\ job' = [job EXCEPT ![k].status = FinalStatus(k, outcome)]
        /\ io' = <<SaveJob(k), SaveTop(k[1])>>
    BY <1>5 DEF Finish
  <2>2. job'[k].status = FinalStatus(k, outcome) /\ \A c \in Children : c # k => job'[c] = job[c]
    BY <2>1 DEF RecordTypes, JobRecord
  <2>3. /\ FinalStatus(k, outcome) # "running"
        /\ job[k].status \in {"cancelling", "cancelled"} => FinalStatus(k, outcome) = "cancelled"
    BY OutcomeAssumption DEF FinalStatus
  <2>4. \A x \in live : x[1] = k => HasOwner(x)'
    BY <1>1, <1>3, <2>2, <2>3 DEF HasOwner
  <2>5. io' \in Seq(FileWrites)
    BY <2>1, WritesListed
  <2>. QED BY <1>1, <2>2, <2>3, <2>4, <2>5, NothingSpawned, OneChildProcess
<1>. QED BY <1>4, <1>5

\* No child of an earlier incarnation is left running.
LEMMA ReadersProcess ==
  ASSUME RecordTypes, ProcessInvariant,
         \/ \E c \in Children : RefreshRunningJob(c) \/ WatchOrphan(c)
         \/ \E p \in Parents : RefreshParent(p)
         \/ DispatchNone \/ \E key \in Configs : ListPendingJobs(key)
  PROVE  ProcessInvariant'
<1>1. ASSUME NEW k \in Children, WatchOrphan(k) PROVE FALSE
  BY <1>1 DEF WatchOrphan, Locked, Running, ProcessInvariant, RunningHeld
<1>2. Locked /\ UNCHANGED <<live, epoch, phase, restarting, restarts, job, handles>>
  BY <1>1 DEF RefreshRunningJob, RefreshParent, DispatchNone, Dispatching, ListPendingJobs, history
<1>3. io' \in Seq(FileWrites)
  <2>1. ASSUME NEW k \in Children, RefreshRunningJob(k) PROVE io' \in Seq(FileWrites)
    <3>1. io' = <<SaveJob(k), SaveTop(k[1])>>
      BY <2>1 DEF RefreshRunningJob
    <3>. QED BY <3>1, WritesListed
  <2>2. ASSUME NEW p \in Parents, RefreshParent(p) PROVE io' \in Seq(FileWrites)
    <3>1. io' = <<SaveTop(p)>>
      BY <2>2 DEF RefreshParent
    <3>. QED BY <3>1, WritesListed
  <2>3. ASSUME DispatchNone PROVE io' \in Seq(FileWrites)
    <3>1. CASE io' = <<>>
      BY <3>1
    <3>2. CASE io' = <<SaveQueue>>
      BY <3>2, WritesListed
    <3>. QED BY <2>3, <3>1, <3>2 DEF DispatchNone
  <2>4. ASSUME NEW key \in Configs, ListPendingJobs(key) PROVE io' \in Seq(FileWrites)
    <3>1. io' = <<>>
      BY <2>4 DEF ListPendingJobs, Locked
    <3>. QED BY <3>1
  <2>. QED BY <1>1, <2>1, <2>2, <2>3, <2>4
<1>. QED BY <1>2, <1>3, NothingSpawned, SameProcesses

\* A restart puts back every child that is running.
LEMMA PrepareProcess ==
  ASSUME RecordTypes, ProcessInvariant, PrepareForRestart
  PROVE  ProcessInvariant'
<1>. DEFINE running == {c \in handles : job[c].status = "running"}
<1>1. /\ Locked /\ phase = "up" /\ phase' = "stopping" /\ restarts' = restarts + 1
      /\ restarting' = running /\ UNCHANGED <<live, epoch, handles>>
      /\ \A c \in Children : job'[c] = IF c \in running THEN Requeued(job[c]) ELSE job[c]
  BY DEF PrepareForRestart
<1>2. Running /\ Running'
  BY <1>1 DEF Running
<1>3. \A c \in Children : job'[c].status # "running"
  BY <1>1, <1>2 DEF ProcessInvariant, RunningHeld, Requeued, RecordTypes, JobRecord
<1>4. ASSUME NEW x \in live PROVE HasOwner(x)'
  <2>1. x[1] \in Children /\ HasOwner(x) /\ x[1] \notin restarting
    BY <1>1, <1>2 DEF RecordTypes, ProcessInvariant, StopsKnown
  <2>2. CASE x[1] \in running
    <3>1. x[2] = epoch /\ x[1] \in handles
      BY <2>1, <2>2 DEF HasOwner
    <3>. QED BY <1>1, <2>2, <3>1 DEF HasOwner
  <2>3. CASE x[1] \notin running
    <3>1. job'[x[1]] = job[x[1]]
      BY <1>1, <2>1, <2>3
    <3>. QED BY <1>1, <2>1, <3>1 DEF HasOwner
  <2>. QED BY <2>2, <2>3
<1>5. io' \in Seq(FileWrites)
  <2>1. CASE running = {}
    <3>1. io' = <<>>
      BY <2>1 DEF PrepareForRestart
    <3>. QED BY <3>1
  <2>2. CASE running # {}
    <3>1. PICK s \in Orders(running) : io' = RequeueWrites(s) \o <<SaveQueue>>
      BY <2>2 DEF PrepareForRestart
    <3>2. running \in SUBSET Children
      BY DEF RecordTypes
    <3>3. s \in Seq(Children)
      BY <3>2, OrderType
    <3>4. RequeueWrites(s) \in Seq(FileWrites) /\ <<SaveQueue>> \in Seq(FileWrites)
      BY <3>3, RequeuesListed, WritesListed
    <3>. QED BY <3>1, <3>4
  <2>. QED BY <2>1, <2>2
<1>6. restarts' > 0
  BY <1>1 DEF RecordTypes
<1>7. RunningHeld' /\ StopsKnown' /\ OneProcessPerJob'
  BY <1>1, <1>3, <1>6 DEF RunningHeld, StopsKnown, ProcessInvariant, OneProcessPerJob
<1>. QED BY <1>1, <1>2, <1>4, <1>5, <1>7, NothingSpawned DEF ProcessInvariant

\* What outlives the service is being cancelled, and stays so.
LEMMA ExitProcess ==
  ASSUME RecordTypes, SlotInvariant, ProcessInvariant, Exit
  PROVE  ProcessInvariant'
<1>1. /\ Locked /\ phase = "stopping" /\ phase' = "down" /\ restarting' = {}
      /\ UNCHANGED <<live, diskJob, epoch, restarts>> /\ ProcessesGone
  BY DEF Exit, NoMemory, disk, history
<1>2. Running /\ ~Running' /\ \A c \in Children : diskJob'[c] = job[c]
  BY <1>1, LockedFiles DEF SlotInvariant, Running
<1>3. \A c \in Children : diskJob'[c].status # "running"
  BY <1>1, <1>2 DEF ProcessInvariant, RunningHeld
<1>4. ASSUME NEW x \in live PROVE x[2] <= epoch /\ diskJob'[x[1]].status \in {"cancelling", "cancelled"}
  <2>1. x[1] \in Children /\ x[2] \in Nat /\ epoch \in Nat /\ x = <<x[1], x[2]>> /\ HasOwner(x)
    BY <1>2, CountAssumption DEF RecordTypes, ProcessInvariant, Epochs
  <2>2. ~(x[2] = epoch /\ x[1] \in restarting)
    BY <1>1, <2>1 DEF ProcessesGone
  <2>3. job[x[1]].status # "running"
    BY <1>2, <1>3, <2>1
  <2>. QED BY <1>2, <2>1, <2>2, <2>3 DEF HasOwner, ProcessActive
<1>5. StopsKnown' /\ OneProcessPerJob'
  BY <1>1 DEF StopsKnown, ProcessInvariant, OneProcessPerJob
<1>. QED BY <1>1, <1>2, <1>3, <1>4, <1>5 DEF ProcessInvariant

LEMMA LoadProcess ==
  ASSUME RecordTypes, SlotInvariant, ProcessInvariant, Load
  PROVE  ProcessInvariant'
<1>1. /\ phase = "down" /\ phase' = "up" /\ epoch' = epoch + 1
      /\ UNCHANGED <<live, diskJob, restarting, restarts>>
      /\ \A c \in Children : job'[c] = Reloaded(c, diskJob[c])
  BY DEF Load, disk
<1>2. ~Running /\ Running' /\ restarting' = {}
  BY <1>1 DEF Running, ProcessInvariant, StopsKnown
<1>3. \A c \in Children : /\ job'[c].status # "running"
                          /\ diskJob[c].status \in {"cancelling", "cancelled"} => job'[c].status = "cancelled"
  BY <1>1, <1>2 DEF ProcessInvariant, Reloaded, RecordTypes, JobRecord
<1>4. ASSUME NEW x \in live PROVE HasOwner(x)'
  <2>1. x[1] \in Children /\ x[2] \in Nat /\ epoch \in Nat
    BY CountAssumption DEF RecordTypes, Epochs
  <2>. QED BY <1>1, <1>2, <1>3, <2>1 DEF ProcessInvariant, HasOwner
<1>5. io' \in Seq(FileWrites)
  <2>. DEFINE jobs  == [c \in Children |-> Reloaded(c, diskJob[c])]
              stale == {c \in Children : jobs[c] # diskJob[c]}
              fresh == Refreshable(diskTop, jobs)
  <2>1. PICK s \in Orders(stale), t \in Orders(fresh) : io' = SaveJobs(s) \o SaveTops(t) \o <<SaveQueue>>
    BY DEF Load
  <2>2. stale \in SUBSET Children /\ fresh \in SUBSET Parents
    BY DEF Refreshable
  <2>. HIDE DEF stale, fresh
  <2>3. s \in Seq(Children) /\ t \in Seq(Parents)
    BY <2>2, OrderType, ParentOrderType
  <2>4. SaveJobs(s) \in Seq(FileWrites) /\ SaveTops(t) \in Seq(FileWrites) /\ <<SaveQueue>> \in Seq(FileWrites)
    BY <2>3, WritesListed
  <2>. QED BY <2>1, <2>4
<1>6. RunningHeld' /\ StopsKnown' /\ OneProcessPerJob'
  BY <1>1, <1>2, <1>3 DEF RunningHeld, StopsKnown, ProcessInvariant, OneProcessPerJob
<1>. QED BY <1>1, <1>2, <1>4, <1>5, <1>6, NothingSpawned DEF ProcessInvariant

\* The spawn finds no process of its child.
LEMMA FlushProcess ==
  ASSUME RecordTypes, SlotInvariant, ProcessInvariant, Flush
  PROVE  ProcessInvariant'
<1>1. /\ io \in Seq(Effects) /\ io # <<>> /\ io' = Tail(io) /\ Head(io) = io[1]
      /\ UNCHANGED <<job, handles, restarting, phase, epoch, restarts>>
      /\ live' = IF Head(io).op = "spawn" THEN live \union {<<Head(io).c, epoch>>} ELSE live
  BY DEF Flush, RecordTypes, memory, history
<1>2. Running /\ Running'
  BY <1>1 DEF SlotInvariant, DownKnowsNothing, Running
<1>3. 1 \in DOMAIN io /\ \A i \in DOMAIN io' : i \in Nat /\ i + 1 \in DOMAIN io /\ io'[i] = io[i + 1] /\ i + 1 # 1
  BY <1>1
<1>4. RunningHeld' /\ StopsKnown' /\ \A x \in live : HasOwner(x)'
  BY <1>1, <1>2 DEF ProcessInvariant, RunningHeld, StopsKnown, HasOwner
<1>5. CASE Head(io).op # "spawn"
  <2>1. live' = live
    BY <1>1, <1>5
  <2>2. OneSpawn'
    <3>1. OneSpawn
      BY <1>2 DEF ProcessInvariant
    <3>2. ASSUME NEW i \in DOMAIN io', NEW c \in Children, io'[i] = SpawnOf(c)
          PROVE  /\ job'[c].status = "running" /\ \A x \in live' : x[1] # c
                 /\ \A j \in DOMAIN io', d \in Children : io'[j] = SpawnOf(d) => j = i
      <4>1. job[c].status = "running" /\ (\A x \in live : x[1] # c)
            /\ \A j \in DOMAIN io, d \in Children : io[j] = SpawnOf(d) => j = i + 1
        BY <1>3, <3>1, <3>2 DEF OneSpawn
      <4>. QED BY <1>1, <1>3, <2>1, <4>1
    <3>. QED BY <3>2 DEF OneSpawn
  <2>3. OneProcessPerJob'
    BY <2>1 DEF ProcessInvariant, OneProcessPerJob
  <2>. QED BY <1>2, <1>4, <2>1, <2>2, <2>3 DEF ProcessInvariant
<1>6. CASE Head(io).op = "spawn"
  <2>1. PICK k \in Children : io[1] = SpawnOf(k)
    <3>1. io[1] \in Effects /\ io[1].op = "spawn"
      BY <1>1, <1>3, <1>6
    <3>. QED BY <3>1 DEF Effects, SaveJob, SaveTop, SpawnOf, SaveQueue
  <2>2. live' = live \union {<<k, epoch>>}
    BY <1>1, <1>6, <2>1 DEF SpawnOf
  <2>3. /\ job[k].status = "running" /\ \A x \in live : x[1] # k
        /\ \A j \in DOMAIN io, d \in Children : io[j] = SpawnOf(d) => j = 1
    BY <1>2, <1>3, <2>1 DEF ProcessInvariant, OneSpawn
  <2>4. OneSpawn'
    BY <1>3, <2>3 DEF OneSpawn
  <2>5. ASSUME NEW x, x = <<k, epoch>> PROVE HasOwner(x)'
    BY <1>1, <1>2, <2>3, <2>5 DEF ProcessInvariant, RunningHeld, HasOwner, ProcessActive
  <2>6. OneProcessPerJob'
    BY <2>2, <2>3 DEF ProcessInvariant, OneProcessPerJob
  <2>7. \A x \in live' : HasOwner(x)'
    BY <1>4, <2>2, <2>5
  <2>. QED BY <1>2, <1>4, <2>4, <2>6, <2>7 DEF ProcessInvariant
<1>. QED BY <1>5, <1>6

LEMMA ProcessStep ==
  ASSUME MaxCrashes = 0, RecordTypes, SlotInvariant, HandlesActive, ProcessInvariant,
         [Next]_vars
  PROVE  ProcessInvariant'
<1>1. CASE UNCHANGED vars
  BY <1>1 DEF vars, memory, disk, history, ProcessInvariant, StopsKnown, RunningHeld, OneSpawn, HasOwner,
     Running, OneProcessPerJob
<1>2. CASE \E x \in live : ProcessExit(x)
  <2>1. live' \subseteq live /\ UNCHANGED <<job, diskJob, handles, restarting, phase, io, epoch, restarts>>
    BY <1>2 DEF ProcessExit, memory, disk, history
  <2>. QED BY <2>1 DEF ProcessInvariant, StopsKnown, RunningHeld, OneSpawn, HasOwner, Running, OneProcessPerJob
<1>3. ~Crash
  BY DEF Crash, RecordTypes
<1>. QED BY <1>1, <1>2, <1>3, CreateBatchProcess, CreateRegisteredProcess, CancelsProcess, DispatchProcess,
            FinishProcess, ReadersProcess, PrepareProcess, ExitProcess, LoadProcess, FlushProcess
         DEF Next

\* When the service is only ever stopped and never dies, no child has two processes, of one
\* incarnation or of two: a restart waits for those it puts back, and what it does not wait
\* for is cancelled and never started again.
LEMMA ProcessesKept ==
  ASSUME MaxCrashes = 0 PROVE Spec => []ProcessInvariant
<1>1. Init => ProcessInvariant
  BY DEF Init, ProcessInvariant, StopsKnown, RunningHeld, OneSpawn, Running, OneProcessPerJob, NoJob
<1>2. RecordTypes /\ SlotInvariant /\ OutcomeInvariant /\ ProcessInvariant /\ [Next]_vars
        => ProcessInvariant'
  BY ProcessStep DEF OutcomeInvariant
<1>. QED BY <1>1, <1>2, RecordsTyped, SlotsKept, OutcomesKept, PTL DEF Spec

\* When the service is only ever stopped and never dies, no child has two processes, of one
\* incarnation or of two: a restart waits for those it puts back, and what it does not wait
\* for is cancelled and never started again.
THEOREM ProcessesUnique ==
  ASSUME MaxCrashes = 0 PROVE Spec => []OneProcessPerJob
<1>1. ProcessInvariant => OneProcessPerJob
  BY DEF ProcessInvariant
<1>. QED BY <1>1, ProcessesKept, PTL

\* As long as the service runs, neither do two processes of a lane: who dispatches counts the
\* children that are being cancelled too.
THEOREM LaneProcessesUnique ==
  ASSUME MaxCrashes = 0, MaxRestarts = 0 PROVE Spec => []OneProcessPerLane
<1>1. RecordTypes /\ SlotInvariant /\ ProcessInvariant => OneProcessPerLane
  <2>. SUFFICES ASSUME RecordTypes, SlotInvariant, ProcessInvariant,
                       NEW x \in live, NEW y \in live, Lane(x[1]) = Lane(y[1])
                PROVE  x = y
    BY DEF OneProcessPerLane
  <2>1. phase = "up"
    <3>1. ~(restarts > 0)
      BY DEF RecordTypes
    <3>. QED BY <3>1 DEF ProcessInvariant, StopsKnown
  <2>2. ASSUME NEW z \in live PROVE z[1] \in Occupied
    <3>1. z[1] \in Children /\ HasOwner(z) /\ z[2] = 1 /\ epoch = 1
      BY <2>1 DEF ProcessInvariant, Running, RecordTypes, Epochs
    <3>. QED BY <2>1, <3>1 DEF HasOwner, Occupied, Occupies
  <2>3. x[1] = y[1]
    BY <2>2 DEF SlotInvariant, LaneExclusive
  <2>. QED BY <2>3 DEF ProcessInvariant, OneProcessPerJob
<1>. QED BY <1>1, RecordsTyped, SlotsKept, ProcessesKept, PTL

-------------------------------------------------------------------------------
(* The records of the parents *)


\* A parent with children has the status they imply.
Follows(p) == p \in Refreshable(top, job) => top[p] = Refreshed(top[p], p, job)

-------------------------------------------------------------------------------
(* The refresh *)

\* A second refresh from the same children changes nothing.
LEMMA RefreshedTwice ==
  ASSUME NEW t \in TopRecord, NEW p, NEW jobs \in [Children -> JobRecord]
  PROVE  Refreshed(Refreshed(t, p, jobs), p, jobs) = Refreshed(t, p, jobs)
<1>. DEFINE kids     == ChildrenOf(p, jobs)
            statuses == {jobs[c].status : c \in kids}
            begun    == \E c \in kids : jobs[c].started
            Implied(started) == IF "cancelling" \in statuses THEN "cancelling"
                                ELSE IF "running" \in statuses THEN "running"
                                ELSE IF "queued" \in statuses
                                     THEN (IF started THEN "running" ELSE "queued")
                                ELSE AggregateTerminalStatus(statuses)
            r == Refreshed(t, p, jobs)
<1>1. \A x : kids # {} => Refreshed(x, p, jobs) = [x EXCEPT !.status = Implied(x.started \/ begun),
                                                           !.started = x.started \/ begun]
  BY DEF Refreshed
<1>2. \A x : kids = {} => Refreshed(x, p, jobs) = x
  BY DEF Refreshed
<1>. HIDE DEF kids, statuses, begun, Implied, r
<1>3. CASE kids = {}
  BY <1>2, <1>3 DEF r
<1>4. CASE kids # {}
  <2>. DEFINE b == t.started \/ begun   s == Implied(b)
  <2>1. r = [t EXCEPT !.status = s, !.started = b]
    BY <1>1, <1>4 DEF r
  <2>2. b \in BOOLEAN /\ (b \/ begun) = b
    OBVIOUS
  <2>. HIDE DEF s, b
  <2>3. r.started = b /\ r.status = s /\ [r EXCEPT !.status = s, !.started = b] = r
    BY <2>1 DEF TopRecord
  <2>4. Refreshed(r, p, jobs) = [r EXCEPT !.status = Implied(r.started \/ begun), !.started = r.started \/ begun]
    BY <1>1, <1>4
  <2>5. (r.started \/ begun) = b
    BY <2>2, <2>3, Zenon
  <2>. QED BY <2>3, <2>4, <2>5 DEF s, r
<1>. QED BY <1>3, <1>4 DEF r

\* A refresh reads the children of its parent only.
LEMMA SameFamily ==
  ASSUME NEW p, NEW old, NEW new, \A c \in Children : c[1] = p => new[c] = old[c]
  PROVE  /\ ChildrenOf(p, new) = ChildrenOf(p, old)
         /\ \A t : Refreshed(t, p, new) = Refreshed(t, p, old)
<1>1. ChildrenOf(p, new) = ChildrenOf(p, old) /\ \A c \in ChildrenOf(p, old) : new[c] = old[c]
  BY DEF ChildrenOf
<1>2. {new[c].status : c \in ChildrenOf(p, new)} = {old[c].status : c \in ChildrenOf(p, old)}
  BY <1>1
<1>3. (\E c \in ChildrenOf(p, new) : new[c].started) <=> \E c \in ChildrenOf(p, old) : old[c].started
  BY <1>1
<1>. QED BY <1>1, <1>2, <1>3, Zenon DEF Refreshed

-------------------------------------------------------------------------------
(* A parent in a step *)

LEMMA Untouched ==
  ASSUME NEW p \in Parents, Follows(p), top'[p] = top[p],
         \A c \in Children : c[1] = p => job'[c] = job[c]
  PROVE  Follows(p)'
<1>1. ChildrenOf(p, job') = ChildrenOf(p, job) /\ \A t : Refreshed(t, p, job') = Refreshed(t, p, job)
  BY SameFamily
<1>. QED BY <1>1 DEF Follows, Refreshable

LEMMA RefreshedNow ==
  ASSUME RecordTypes, RecordTypes', NEW p \in Parents,
         top'[p] = IF p \in Refreshable(top, job') THEN Refreshed(top[p], p, job') ELSE top[p]
  PROVE  Follows(p)'
<1>1. CASE p \in Refreshable(top, job')
  <2>1. top[p] \in TopRecord /\ job' \in [Children -> JobRecord]
    BY DEF RecordTypes
  <2>2. Refreshed(Refreshed(top[p], p, job'), p, job') = Refreshed(top[p], p, job')
    BY <2>1, RefreshedTwice
  <2>3. Refreshed(top'[p], p, job') = top'[p]
    BY <1>1, <2>2
  <2>. QED BY <2>3 DEF Follows
<1>2. CASE p \notin Refreshable(top, job')
  <2>1. top'[p] = top[p]
    BY <1>2
  <2>. QED BY <1>2, <2>1 DEF Follows, Refreshable
<1>. QED BY <1>1, <1>2

\* A handler that touches the children of one parent refreshes it.
LEMMA OneFamily ==
  ASSUME RecordTypes, RecordTypes', \A p \in Parents : Follows(p),
         NEW q \in Parents, top' = RefreshTop(q, job'),
         \A c \in Children : c[1] # q => job'[c] = job[c]
  PROVE  \A p \in Parents : Follows(p)'
<1>. TAKE p \in Parents
<1>1. CASE p = q
  <2>1. top'[p] = IF p \in Refreshable(top, job') THEN Refreshed(top[p], p, job') ELSE top[p]
    BY <1>1 DEF RefreshTop, RecordTypes
  <2>. QED BY <2>1, RefreshedNow
<1>2. CASE p # q
  <2>1. top'[p] = top[p]
    BY <1>2 DEF RefreshTop, RecordTypes
  <2>. QED BY <1>2, <2>1, Untouched
<1>. QED BY <1>1, <1>2

-------------------------------------------------------------------------------
(* The actions *)

\* A new parent waits, as its children do.
LEMMA NewFamily ==
  ASSUME RecordTypes, RecordTypes', Unborn, \A p \in Parents : Follows(p),
         NEW q \in Parents, q = made + 1, NEW S \in (SUBSET Lanes) \ {{}},
         top' = [top EXCEPT ![q] = top'[q]], top'[q].status = "queued", ~top'[q].started,
         \A c \in Children : job'[c] = IF c[1] = q /\ c[2] \in S THEN NewJob ELSE job[c]
  PROVE  \A p \in Parents : Follows(p)'
<1>. TAKE p \in Parents
<1>1. CASE p # q
  <2>1. top'[p] = top[p] /\ \A c \in Children : c[1] = p => job'[c] = job[c]
    BY <1>1 DEF RecordTypes
  <2>. QED BY <2>1, Untouched
<1>2. CASE p = q
  <2>. DEFINE kids == {c \in Children : c[1] = q /\ c[2] \in S}
              t    == top'[q]
  <2>1. \A c \in Children : c[1] = q => job[c] = NoJob
    BY DEF Unborn, RecordTypes
  <2>2. ChildrenOf(q, job') = kids
    BY <2>1 DEF ChildrenOf, NewJob, NoJob
  <2>3. kids # {}
    <3>1. PICK l \in S : l \in Lanes
      OBVIOUS
    <3>2. <<q, l>> \in kids
      BY <3>1 DEF Children
    <3>. QED BY <3>2
  <2>4. \A c \in kids : job'[c].status = "queued" /\ ~job'[c].started
    BY DEF NewJob, NoJob
  <2>5. {job'[c].status : c \in kids} = {"queued"} /\ ~\E c \in kids : job'[c].started
    BY <2>3, <2>4
  <2>6. t \in TopRecord /\ t.status = "queued" /\ t.started = FALSE
    BY DEF RecordTypes, TopRecord
  <2>. HIDE DEF kids, t
  <2>7. Refreshed(t, q, job') = [t EXCEPT !.status = "queued", !.started = FALSE]
    BY <2>2, <2>3, <2>5, <2>6 DEF Refreshed
  <2>8. [t EXCEPT !.status = "queued", !.started = FALSE] = t
    BY <2>6 DEF TopRecord
  <2>. QED BY <1>2, <2>7, <2>8 DEF Follows, t
<1>. QED BY <1>1, <1>2

LEMMA CreateParents ==
  ASSUME RecordTypes, RecordTypes', Unborn, \A p \in Parents : Follows(p),
         \/ \E S \in (SUBSET Lanes) \ {{}}, key \in BatchKeys : CreateTaskBatchJob(S, key)
         \/ \E l \in Lanes, key \in Requests : CreateRegisteredTaskJob(l, key)
  PROVE  \A p \in Parents : Follows(p)'
<1>1. ASSUME NEW S \in (SUBSET Lanes) \ {{}}, NEW key \in BatchKeys, CreateTaskBatchJob(S, key)
      PROVE  \A p \in Parents : Follows(p)'
  <2>1. PICK q \in Parents : q = made + 1
    BY <1>1, NewParent DEF CreateTaskBatchJob, RecordTypes
  <2>2. top' = [top EXCEPT ![q] = [status |-> "queued", started |-> FALSE, kind |-> "batch",
                                   key |-> key, lanes |-> S]]
    BY <1>1, <2>1 DEF CreateTaskBatchJob
  <2>3. top' = [top EXCEPT ![q] = top'[q]] /\ top'[q].status = "queued" /\ ~top'[q].started
    BY <2>2 DEF RecordTypes
  <2>4. \A c \in Children : job'[c] = IF c[1] = q /\ c[2] \in S THEN NewJob ELSE job[c]
    BY <1>1, <2>1 DEF CreateTaskBatchJob, Children
  <2>. QED BY <2>1, <2>3, <2>4, NewFamily
<1>2. ASSUME NEW l \in Lanes, NEW key \in Requests, CreateRegisteredTaskJob(l, key)
      PROVE  \A p \in Parents : Follows(p)'
  <2>1. PICK q \in Parents : q = made + 1
    BY <1>2, NewParent DEF CreateRegisteredTaskJob, RecordTypes
  <2>2. top' = [top EXCEPT ![q] = [status |-> "queued", started |-> FALSE, kind |-> "registered",
                                   key |-> key, lanes |-> {l}]]
        /\ job' = [job EXCEPT ![<<q, l>>] = NewJob]
    BY <1>2, <2>1 DEF CreateRegisteredTaskJob
  <2>3. top' = [top EXCEPT ![q] = top'[q]] /\ top'[q].status = "queued" /\ ~top'[q].started
    BY <2>2 DEF RecordTypes
  <2>4. \A c \in Children : job'[c] = IF c[1] = q /\ c[2] \in {l} THEN NewJob ELSE job[c]
    BY <2>2 DEF Children, RecordTypes
  <2>5. {l} \in (SUBSET Lanes) \ {{}}
    OBVIOUS
  <2>. QED BY <2>1, <2>3, <2>4, <2>5, NewFamily
<1>. QED BY <1>1, <1>2

\* A cancellation that stops a process makes the parent "cancelling" without a refresh.
LEMMA StoppedFamily ==
  ASSUME RecordTypes, RecordTypes', \A p \in Parents : Follows(p), NEW q \in Parents,
         top[q].status # "absent", ChildrenOf(q, job) # {},
         job' = CancelledJobs(ChildrenOf(q, job)),
         \E c \in ChildrenOf(q, job) : job'[c].status = "cancelling",
         top' = [top EXCEPT ![q].status = "cancelling"]
  PROVE  \A p \in Parents : Follows(p)'
<1>. DEFINE T == ChildrenOf(q, job)
<1>1. \A c \in Children : /\ job'[c].started = job[c].started
                          /\ job'[c].status = "absent" <=> job[c].status = "absent"
                          /\ c[1] # q => job'[c] = job[c]
  BY DEF CancelledJobs, Cancelled, ChildrenOf, RecordTypes, JobRecord
<1>2. ASSUME NEW p \in Parents, p # q PROVE Follows(p)'
  <2>1. top'[p] = top[p] /\ \A c \in Children : c[1] = p => job'[c] = job[c]
    BY <1>1, <1>2 DEF RecordTypes
  <2>. QED BY <2>1, Untouched
<1>3. Follows(q)'
  <2>1. ChildrenOf(q, job') = T /\ T \subseteq Children
    BY <1>1 DEF ChildrenOf
  <2>2. "cancelling" \in {job'[c].status : c \in T}
    OBVIOUS
  <2>3. (\E c \in T : job'[c].started) <=> \E c \in T : job[c].started
    BY <1>1, <2>1
  <2>4. (\E c \in T : job[c].started) => top[q].started
    <3>1. top[q] = Refreshed(top[q], q, job) /\ top[q] \in TopRecord
      BY DEF Follows, Refreshable, RecordTypes
    <3>2. Refreshed(top[q], q, job).started = (top[q].started \/ \E c \in T : job[c].started)
      BY <3>1 DEF Refreshed, TopRecord
    <3>. QED BY <3>1, <3>2
  <2>5. /\ top'[q] \in TopRecord /\ top'[q].status = "cancelling"
        /\ top'[q].started = top[q].started /\ top'[q].started \in BOOLEAN
    <3>1. top[q] \in TopRecord /\ top'[q] = [top[q] EXCEPT !.status = "cancelling"] /\ top'[q] \in TopRecord
      BY DEF RecordTypes
    <3>. QED BY <3>1 DEF TopRecord
  <2>. DEFINE t == top'[q]   b == t.started \/ \E c \in T : job'[c].started
  <2>6. b = t.started
    BY <2>3, <2>4, <2>5
  <2>. HIDE DEF T, t
  <2>7. T # {}
    BY DEF T
  <2>8. Refreshed(t, q, job') = [t EXCEPT !.status = "cancelling", !.started = b]
    BY <2>1, <2>2, <2>7 DEF Refreshed
  <2>9. [t EXCEPT !.status = "cancelling", !.started = b] = t
    BY <2>5, <2>6 DEF TopRecord, t
  <2>. QED BY <2>8, <2>9 DEF Follows, t
<1>. QED BY <1>2, <1>3

LEMMA CancelParents ==
  ASSUME RecordTypes, RecordTypes', \A p \in Parents : Follows(p),
         \/ \E p \in Parents : CancelParent(p)
         \/ \E c \in Children : CancelChild(c)
  PROVE  \A p \in Parents : Follows(p)'
<1>1. ASSUME NEW q \in Parents, CancelParent(q)
      PROVE  \A p \in Parents : Follows(p)'
  <2>. DEFINE T == ChildrenOf(q, job)
  <2>1. CASE T = {}
    <3>1. job' = job /\ \A p \in Parents : p # q => top'[p] = top[p]
      BY <1>1, <2>1 DEF CancelParent, RecordTypes
    <3>2. Follows(q)'
      BY <2>1, <3>1 DEF Follows, Refreshable
    <3>. QED BY <3>1, <3>2, Untouched
  <2>2. CASE T # {}
    <3>1. /\ top[q].status # "absent" /\ job' = CancelledJobs(T)
          /\ top' = IF \E c \in T : job'[c].status = "cancelling"
                    THEN [top EXCEPT ![q].status = "cancelling"] ELSE RefreshTop(q, job')
      BY <1>1, <2>2 DEF CancelParent, CancelChildren
    <3>2. \A c \in Children : c[1] # q => job'[c] = job[c]
      BY <3>1 DEF CancelledJobs, ChildrenOf
    <3>3. CASE \E c \in T : job'[c].status = "cancelling"
      BY <2>2, <3>1, <3>3, StoppedFamily
    <3>4. CASE ~\E c \in T : job'[c].status = "cancelling"
      BY <3>1, <3>2, <3>4, OneFamily
    <3>. QED BY <3>3, <3>4
  <2>. QED BY <2>1, <2>2
<1>2. ASSUME NEW k \in Children, CancelChild(k)
      PROVE  \A p \in Parents : Follows(p)'
  <2>1. job' = CancelledJobs({k}) /\ top' = RefreshTop(k[1], job') /\ k[1] \in Parents
    BY <1>2 DEF CancelChild, CancelChildren, Children
  <2>2. \A c \in Children : c[1] # k[1] => job'[c] = job[c]
    BY <2>1 DEF CancelledJobs
  <2>. QED BY <2>1, <2>2, OneFamily
<1>. QED BY <1>1, <1>2

\* The handlers that change one child at most.
LEMMA OneChildParents ==
  ASSUME RecordTypes, RecordTypes', \A p \in Parents : Follows(p),
         NEW k \in Children, top' = RefreshTop(k[1], job'),
         \A c \in Children : c # k => job'[c] = job[c]
  PROVE  \A p \in Parents : Follows(p)'
<1>1. k[1] \in Parents /\ \A c \in Children : c[1] # k[1] => job'[c] = job[c]
  BY DEF Children
<1>. QED BY <1>1, OneFamily

LEMMA DispatchParents ==
  ASSUME RecordTypes, RecordTypes', \A p \in Parents : Follows(p),
         \E i \in DOMAIN queue : DispatchSpawn(i) \/ DispatchFails(i)
  PROVE  \A p \in Parents : Follows(p)'
<1>1. PICK i \in DOMAIN queue : DispatchSpawn(i) \/ DispatchFails(i)
  OBVIOUS
<1>. DEFINE k == queue[i]
<1>2. k \in Children
  BY <1>1 DEF DispatchSpawn, DispatchFails, Selects, Eligible
<1>3. top' = RefreshTop(k[1], job')
  BY <1>1 DEF DispatchSpawn, DispatchFails
<1>4. \A c \in Children : c # k => job'[c] = job[c]
  BY <1>1 DEF DispatchSpawn, DispatchFails, RecordTypes
<1>. QED BY <1>2, <1>3, <1>4, OneChildParents

LEMMA SameParents ==
  ASSUME \A p \in Parents : Follows(p), UNCHANGED <<job, top>>
  PROVE  \A p \in Parents : Follows(p)'
BY DEF Follows, Refreshable

LEMMA FinishParents ==
  ASSUME RecordTypes, RecordTypes', \A p \in Parents : Follows(p),
         NEW k \in Children, NEW outcome \in Outcomes, Finish(k, outcome)
  PROVE  \A p \in Parents : Follows(p)'
<1>1. CASE k \in restarting
  BY <1>1, SameParents DEF Finish
<1>2. CASE k \notin restarting
  <2>1. job' = [job EXCEPT ![k].status = FinalStatus(k, outcome)] /\ top' = RefreshTop(k[1], job')
    BY <1>2 DEF Finish
  <2>2. \A c \in Children : c # k => job'[c] = job[c]
    BY <2>1 DEF RecordTypes
  <2>. QED BY <2>1, <2>2, OneChildParents
<1>. QED BY <1>1, <1>2

LEMMA ReaderParents ==
  ASSUME RecordTypes, RecordTypes', \A p \in Parents : Follows(p),
         \/ \E c \in Children : RefreshRunningJob(c) \/ WatchOrphan(c)
         \/ \E p \in Parents : RefreshParent(p)
  PROVE  \A p \in Parents : Follows(p)'
<1>1. ASSUME NEW k \in Children, RefreshRunningJob(k) PROVE \A p \in Parents : Follows(p)'
  BY <1>1, OneChildParents DEF RefreshRunningJob
<1>2. ASSUME NEW k \in Children, WatchOrphan(k) PROVE \A p \in Parents : Follows(p)'
  <2>1. top' = RefreshTop(k[1], job') /\ \A c \in Children : c # k => job'[c] = job[c]
    BY <1>2 DEF WatchOrphan, RecordTypes
  <2>. QED BY <2>1, OneChildParents
<1>3. ASSUME NEW q \in Parents, RefreshParent(q) PROVE \A p \in Parents : Follows(p)'
  BY <1>3, OneFamily DEF RefreshParent
<1>. QED BY <1>1, <1>2, <1>3

LEMMA PrepareParents ==
  ASSUME RecordTypes, RecordTypes', \A p \in Parents : Follows(p), PrepareForRestart
  PROVE  \A p \in Parents : Follows(p)'
<1>. DEFINE running == {c \in handles : job[c].status = "running"}
<1>1. /\ \A c \in Children : job'[c] = IF c \in running THEN Requeued(job[c]) ELSE job[c]
      /\ \A p \in Parents : top'[p] = IF \E c \in running : c[1] = p
                                      THEN RefreshTop(p, job')[p] ELSE top[p]
  BY DEF PrepareForRestart
<1>. HIDE DEF running
<1>. TAKE p \in Parents
<1>2. CASE \E c \in running : c[1] = p
  <2>1. top'[p] = RefreshTop(p, job')[p]
    BY <1>1, <1>2
  <2>2. top'[p] = IF p \in Refreshable(top, job') THEN Refreshed(top[p], p, job') ELSE top[p]
    BY <2>1 DEF RefreshTop, RecordTypes
  <2>. QED BY <2>2, RefreshedNow
<1>3. CASE ~\E c \in running : c[1] = p
  <2>1. top'[p] = top[p] /\ \A c \in Children : c[1] = p => job'[c] = job[c]
    BY <1>1, <1>3
  <2>. QED BY <2>1, Untouched
<1>. QED BY <1>2, <1>3

\* A start refreshes the parents it reads.
LEMMA LoadParents ==
  ASSUME RecordTypes, RecordTypes', Load
  PROVE  \A p \in Parents : Follows(p)'
<1>. TAKE p \in Parents
<1>1. top'[p] = IF p \in Refreshable(diskTop, job') THEN Refreshed(diskTop[p], p, job') ELSE diskTop[p]
  BY DEF Load
<1>2. CASE p \in Refreshable(diskTop, job')
  <2>1. diskTop[p] \in TopRecord /\ job' \in [Children -> JobRecord]
    BY DEF RecordTypes
  <2>2. Refreshed(Refreshed(diskTop[p], p, job'), p, job') = Refreshed(diskTop[p], p, job')
    BY <2>1, RefreshedTwice
  <2>. QED BY <1>1, <1>2, <2>2 DEF Follows
<1>3. CASE p \notin Refreshable(diskTop, job')
  <2>1. top'[p] = diskTop[p]
    BY <1>1, <1>3
  <2>. QED BY <1>3, <2>1 DEF Follows, Refreshable
<1>. QED BY <1>2, <1>3

-------------------------------------------------------------------------------
(* Every step *)

ParentInvariant == Running => \A p \in Parents : Follows(p)

LEMMA ParentStep ==
  ASSUME RecordTypes, RecordTypes', SlotInvariant, ParentInvariant, [Next]_vars
  PROVE  ParentInvariant'
<1>1. CASE UNCHANGED vars \/ Flush \/ \E x \in live : ProcessExit(x)
  <2>1. UNCHANGED <<job, top, phase>>
    BY <1>1 DEF vars, Flush, ProcessExit, memory
  <2>. QED BY <2>1, SameParents DEF ParentInvariant, Running
<1>2. CASE Exit \/ Crash
  BY <1>2 DEF Exit, Crash, NoMemory, ParentInvariant, Running
<1>3. CASE Load
  BY <1>3, LoadParents DEF ParentInvariant
<1>4. CASE Next /\ ~Exit /\ ~Crash /\ ~Load /\ ~Flush /\ ~\E x \in live : ProcessExit(x)
  <2>1. Running
    BY <1>4, Zenon DEF Next, Running, Locked, Dispatching, CreateTaskBatchJob, CreateRegisteredTaskJob,
       CancelParent, CancelChild, ListPendingJobs, DispatchNone, DispatchSpawn, DispatchFails, Finish,
       RefreshRunningJob, RefreshParent, WatchOrphan, PrepareForRestart
  <2>2. \A p \in Parents : Follows(p)
    BY <2>1 DEF ParentInvariant
  <2>3. Unborn
    BY DEF SlotInvariant
  <2>4. ASSUME \E key \in Configs : ListPendingJobs(key) PROVE \A p \in Parents : Follows(p)'
    BY <2>2, <2>4, SameParents DEF ListPendingJobs
  <2>5. ASSUME DispatchNone PROVE \A p \in Parents : Follows(p)'
    BY <2>2, <2>5, SameParents DEF DispatchNone
  <2>6. \A p \in Parents : Follows(p)'
    BY <1>4, <2>2, <2>3, <2>4, <2>5, CreateParents, CancelParents, DispatchParents, FinishParents,
       ReaderParents, PrepareParents
    DEF Next
  <2>. QED BY <2>6 DEF ParentInvariant
<1>. QED BY <1>1, <1>2, <1>3, <1>4

\* A parent's status is always the one its children imply: no reader sees a finished
\* parent with work left, or a running one with none.
THEOREM ParentsFollow == Spec => []ParentFollowsChildren
<1>1. Init => ParentInvariant
  BY DEF Init, ParentInvariant, Follows, Refreshable, NoTop
<1>2. RecordTypes /\ RecordTypes' /\ SlotInvariant /\ ParentInvariant /\ [Next]_vars => ParentInvariant'
  BY ParentStep
<1>3. ParentInvariant => ParentFollowsChildren
  BY DEF ParentInvariant, ParentFollowsChildren, Follows, Refreshable
<1>. QED BY <1>1, <1>2, <1>3, RecordsTyped, SlotsKept, PTL DEF Spec

-------------------------------------------------------------------------------
(* One job per config *)

\* What memory and the files together know of a parent: that it exists, which config it
\* belongs to, and whether a reader, now or after a restart, may find it active.
Known(p) == top[p].status # "absent" \/ diskTop[p].status # "absent"
Batch(t, key) == t.status # "absent" /\ t.kind = "batch" /\ t.key = key
Belongs(p, key) == Batch(top[p], key) \/ Batch(diskTop[p], key)
Busy(c) == job[c].status \in Active \/ diskJob[c].status \in Active
Claims(p) ==
    \/ top[p].status \in Active \/ diskTop[p].status \in Active
    \/ Known(p) /\ \E c \in Children : c[1] = p /\ Busy(c)

\* No two parents of a config claim it, and nothing is known of a parent to be created.
ConfigInvariant ==
    /\ \A p \in Parents : Known(p) => p <= made
    /\ \A p, q \in Parents, key \in Configs :
         Belongs(p, key) /\ Claims(p) /\ Belongs(q, key) /\ Claims(q) => p = q

\* A step that makes no claim.
Older(p) ==
    /\ Known(p)' => Known(p)
    /\ Claims(p)' => Claims(p)
    /\ \A key \in Configs : Belongs(p, key)' => Belongs(p, key)

\* A refresh makes a parent active when a child is, keeps its config and forgets no parent.
LEMMA RefreshedStatus ==
  ASSUME NEW t \in TopRecord, NEW p, NEW jobs \in [Children -> JobRecord],
         ChildrenOf(p, jobs) # {}
  PROVE  LET r == Refreshed(t, p, jobs)
         IN  /\ r.kind = t.kind /\ r.key = t.key /\ r.status # "absent"
             /\ r.status \in Active <=> \E c \in Children : c[1] = p /\ jobs[c].status \in Active
<1>. DEFINE kids     == ChildrenOf(p, jobs)
            statuses == {jobs[c].status : c \in kids}
            started  == t.started \/ \E c \in kids : jobs[c].started
            status   == IF "cancelling" \in statuses THEN "cancelling"
                        ELSE IF "running" \in statuses THEN "running"
                        ELSE IF "queued" \in statuses
                             THEN (IF started THEN "running" ELSE "queued")
                        ELSE AggregateTerminalStatus(statuses)
            r        == Refreshed(t, p, jobs)
<1>1. r = [t EXCEPT !.status = status, !.started = started]
  BY DEF Refreshed
<1>2. statuses \subseteq Active \union Terminal /\ statuses # {}
  BY DEF ChildrenOf, JobRecord, Status
<1>3. (\E c \in Children : c[1] = p /\ jobs[c].status \in Active) <=> statuses \intersect Active # {}
  BY DEF ChildrenOf, Active, ProcessActive
<1>. HIDE DEF statuses, started, kids
<1>4. CASE statuses \intersect Active # {}
  <2>1. status \in Active
    BY <1>4 DEF Active, ProcessActive
  <2>2. status # "absent"
    BY <2>1 DEF Active, ProcessActive
  <2>. HIDE DEF status
  <2>. QED BY <1>1, <1>3, <1>4, <2>1, <2>2 DEF TopRecord
<1>5. CASE statuses \intersect Active = {}
  <2>1. statuses \subseteq Terminal
    BY <1>2, <1>5
  <2>2. status = AggregateTerminalStatus(statuses)
    BY <1>5 DEF Active, ProcessActive
  <2>3. status \in Terminal
    <3>1. CASE \E s \in statuses : statuses = {s}
      BY <2>1, <2>2, <3>1 DEF AggregateTerminalStatus
    <3>2. CASE ~\E s \in statuses : statuses = {s}
      BY <2>2, <3>2 DEF AggregateTerminalStatus, Terminal
    <3>. QED BY <3>1, <3>2
  <2>4. status # "absent" /\ status \notin Active
    BY <2>3 DEF Terminal, Active, ProcessActive
  <2>. HIDE DEF status
  <2>. QED BY <1>1, <1>3, <1>5, <2>4 DEF TopRecord
<1>. QED BY <1>4, <1>5

\* What a handler may do to a parent's record and to its children's.
TopMove(p) ==
    \/ top'[p] = top[p]
    \/ /\ top[p].status # "absent" /\ top'[p].kind = top[p].kind /\ top'[p].key = top[p].key
       /\ top'[p].status \in Active => Claims(p)
JobMove(c) == job'[c].status \in Active => job[c].status \in Active

LEMMA HandlerOlder ==
  ASSUME NEW p \in Parents, UNCHANGED <<diskJob, diskTop>>, TopMove(p),
         \A c \in Children : c[1] = p => JobMove(c)
  PROVE  Older(p)
<1>1. \A c \in Children : c[1] = p /\ Busy(c)' => Busy(c)
  BY DEF Busy, JobMove
<1>2. Known(p)' => Known(p)
  BY DEF TopMove, Known
<1>3. top'[p].status \in Active => Claims(p)
  BY DEF TopMove, Claims
<1>4. Claims(p)' => Claims(p)
  BY <1>1, <1>2, <1>3 DEF Claims
<1>5. \A key \in Configs : Belongs(p, key)' => Belongs(p, key)
  BY DEF TopMove, Belongs, Batch
<1>. QED BY <1>2, <1>4, <1>5 DEF Older

LEMMA RefreshMove ==
  ASSUME RecordTypes, RecordTypes', NEW p \in Parents,
         \A c \in Children : c[1] = p => JobMove(c),
         top'[p] = IF p \in Refreshable(top, job') THEN Refreshed(top[p], p, job') ELSE top[p]
  PROVE  TopMove(p)
<1>1. CASE p \in Refreshable(top, job')
  <2>1. top[p] \in TopRecord /\ job' \in [Children -> JobRecord] /\ top[p].status # "absent"
        /\ ChildrenOf(p, job') # {} /\ top'[p] = Refreshed(top[p], p, job')
    BY <1>1 DEF RecordTypes, Refreshable
  <2>2. /\ top'[p].kind = top[p].kind /\ top'[p].key = top[p].key
        /\ top'[p].status \in Active => \E c \in Children : c[1] = p /\ job'[c].status \in Active
    BY <2>1, RefreshedStatus
  <2>3. top'[p].status \in Active => Claims(p)
    BY <2>1, <2>2 DEF JobMove, Claims, Known, Busy
  <2>. QED BY <2>1, <2>2, <2>3 DEF TopMove
<1>2. CASE p \notin Refreshable(top, job')
  BY <1>2 DEF TopMove
<1>. QED BY <1>1, <1>2

LEMMA RefreshOlder ==
  ASSUME RecordTypes, RecordTypes', UNCHANGED <<diskJob, diskTop>>,
         NEW q \in Parents, top' = RefreshTop(q, job'), \A c \in Children : JobMove(c)
  PROVE  \A p \in Parents : Older(p)
<1>. TAKE p \in Parents
<1>1. CASE p = q
  <2>1. top'[p] = IF p \in Refreshable(top, job') THEN Refreshed(top[p], p, job') ELSE top[p]
    BY <1>1 DEF RefreshTop, RecordTypes
  <2>. QED BY <2>1, RefreshMove, HandlerOlder
<1>2. CASE p # q
  <2>1. top'[p] = top[p]
    BY <1>2 DEF RefreshTop, RecordTypes
  <2>. QED BY <2>1, HandlerOlder DEF TopMove
<1>. QED BY <1>1, <1>2

-------------------------------------------------------------------------------
(* The steps that make no claim *)

LEMMA CancelsOlder ==
  ASSUME RecordTypes, RecordTypes',
         \/ \E p \in Parents : CancelParent(p)
         \/ \E c \in Children : CancelChild(c)
  PROVE  \A p \in Parents : Older(p)
<1>1. \A T : job' = CancelledJobs(T) => \A c \in Children : JobMove(c)
  BY DEF CancelledJobs, Cancelled, JobMove, Active, ProcessActive, RecordTypes, JobRecord
<1>2. ASSUME NEW q \in Parents, CancelParent(q) PROVE \A p \in Parents : Older(p)
  <2>. DEFINE T == ChildrenOf(q, job)
  <2>1. UNCHANGED <<diskJob, diskTop>> /\ top[q].status # "absent"
    BY <1>2 DEF CancelParent, disk
  <2>2. CASE T = {}
    <3>1. job' = job /\ top' = [top EXCEPT ![q].status = "cancelled"]
      BY <1>2, <2>2 DEF CancelParent
    <3>2. \A c \in Children : JobMove(c)
      BY <3>1 DEF JobMove
    <3>3. \A p \in Parents : TopMove(p)
      BY <2>1, <3>1 DEF TopMove, RecordTypes, TopRecord, Active, ProcessActive
    <3>. QED BY <2>1, <3>2, <3>3, HandlerOlder
  <2>3. CASE T # {}
    <3>1. /\ job' = CancelledJobs(T)
          /\ top' = IF \E c \in T : job'[c].status = "cancelling"
                    THEN [top EXCEPT ![q].status = "cancelling"] ELSE RefreshTop(q, job')
      BY <1>2, <2>3 DEF CancelParent, CancelChildren
    <3>2. \A c \in Children : JobMove(c)
      BY <1>1, <3>1
    <3>3. CASE \E c \in T : job'[c].status = "cancelling"
      <4>1. Claims(q)
        BY <2>1, <3>2, <3>3 DEF ChildrenOf, JobMove, Claims, Known, Busy, Active, ProcessActive
      <4>2. top' = [top EXCEPT ![q].status = "cancelling"]
        BY <3>1, <3>3
      <4>3. \A p \in Parents : TopMove(p)
        BY <2>1, <4>1, <4>2 DEF TopMove, RecordTypes, TopRecord
      <4>. QED BY <2>1, <3>2, <4>3, HandlerOlder
    <3>4. CASE ~\E c \in T : job'[c].status = "cancelling"
      BY <2>1, <3>1, <3>2, <3>4, RefreshOlder
    <3>. QED BY <3>3, <3>4
  <2>. QED BY <2>2, <2>3
<1>3. ASSUME NEW k \in Children, CancelChild(k) PROVE \A p \in Parents : Older(p)
  <2>1. /\ job' = CancelledJobs({k}) /\ top' = RefreshTop(k[1], job') /\ k[1] \in Parents
        /\ UNCHANGED <<diskJob, diskTop>>
    BY <1>3 DEF CancelChild, CancelChildren, Children, disk
  <2>. QED BY <1>1, <2>1, RefreshOlder
<1>. QED BY <1>2, <1>3

\* A handler that takes one active child forward.
LEMMA OneChildOlder ==
  ASSUME RecordTypes, RecordTypes', UNCHANGED <<diskJob, diskTop>>,
         NEW k \in Children, top' = RefreshTop(k[1], job'), JobMove(k),
         \A c \in Children : c # k => job'[c] = job[c]
  PROVE  \A p \in Parents : Older(p)
<1>1. k[1] \in Parents /\ \A c \in Children : JobMove(c)
  BY DEF Children, JobMove
<1>. QED BY <1>1, RefreshOlder

LEMMA DispatchOlder ==
  ASSUME RecordTypes, RecordTypes', \E i \in DOMAIN queue : DispatchSpawn(i) \/ DispatchFails(i)
  PROVE  \A p \in Parents : Older(p)
<1>1. PICK i \in DOMAIN queue : DispatchSpawn(i) \/ DispatchFails(i)
  OBVIOUS
<1>. DEFINE k == queue[i]
<1>2. k \in Children /\ job[k].status = "queued" /\ UNCHANGED <<diskJob, diskTop>>
  BY <1>1 DEF DispatchSpawn, DispatchFails, Selects, Eligible, disk
<1>3. top' = RefreshTop(k[1], job')
  BY <1>1 DEF DispatchSpawn, DispatchFails
<1>4. \A c \in Children : c # k => job'[c] = job[c]
  BY <1>1 DEF DispatchSpawn, DispatchFails, RecordTypes
<1>5. JobMove(k)
  BY <1>2 DEF JobMove, Active
<1>. QED BY <1>2, <1>3, <1>4, <1>5, OneChildOlder

LEMMA FinishOlder ==
  ASSUME RecordTypes, RecordTypes', NEW k \in Children, NEW outcome \in Outcomes, Finish(k, outcome)
  PROVE  \A p \in Parents : Older(p)
<1>1. UNCHANGED <<diskJob, diskTop>>
  BY DEF Finish, disk
<1>2. CASE k \in restarting
  <2>1. UNCHANGED <<job, top>>
    BY <1>2 DEF Finish
  <2>. QED BY <1>1, <2>1, HandlerOlder DEF TopMove, JobMove
<1>3. CASE k \notin restarting
  <2>1. job' = [job EXCEPT ![k].status = FinalStatus(k, outcome)] /\ top' = RefreshTop(k[1], job')
    BY <1>3 DEF Finish
  <2>2. \A c \in Children : c # k => job'[c] = job[c]
    BY <2>1 DEF RecordTypes
  <2>3. FinalStatus(k, outcome) \notin Active
    BY OutcomeAssumption DEF FinalStatus, Active, ProcessActive
  <2>4. JobMove(k)
    BY <2>1, <2>3 DEF JobMove, RecordTypes, JobRecord
  <2>. QED BY <1>1, <2>1, <2>2, <2>4, OneChildOlder
<1>. QED BY <1>2, <1>3

LEMMA ReadersOlder ==
  ASSUME RecordTypes, RecordTypes',
         \/ \E c \in Children : RefreshRunningJob(c) \/ WatchOrphan(c)
         \/ \E p \in Parents : RefreshParent(p)
  PROVE  \A p \in Parents : Older(p)
<1>1. ASSUME NEW k \in Children, RefreshRunningJob(k) PROVE \A p \in Parents : Older(p)
  BY <1>1, OneChildOlder DEF RefreshRunningJob, JobMove, disk
<1>2. ASSUME NEW k \in Children, WatchOrphan(k) PROVE \A p \in Parents : Older(p)
  <2>1. /\ UNCHANGED <<diskJob, diskTop>> /\ top' = RefreshTop(k[1], job') /\ job[k].status = "running"
        /\ \A c \in Children : c # k => job'[c] = job[c]
    BY <1>2 DEF WatchOrphan, RecordTypes, disk
  <2>2. JobMove(k)
    BY <2>1 DEF JobMove, Active, ProcessActive
  <2>. QED BY <2>1, <2>2, OneChildOlder
<1>3. ASSUME NEW q \in Parents, RefreshParent(q) PROVE \A p \in Parents : Older(p)
  BY <1>3, RefreshOlder DEF RefreshParent, JobMove, disk
<1>. QED BY <1>1, <1>2, <1>3

LEMMA PrepareOlder ==
  ASSUME RecordTypes, RecordTypes', PrepareForRestart
  PROVE  \A p \in Parents : Older(p)
<1>. DEFINE running == {c \in handles : job[c].status = "running"}
<1>1. /\ \A c \in Children : job'[c] = IF c \in running THEN Requeued(job[c]) ELSE job[c]
      /\ \A p \in Parents : top'[p] = IF \E c \in running : c[1] = p
                                      THEN RefreshTop(p, job')[p] ELSE top[p]
      /\ UNCHANGED <<diskJob, diskTop>>
  BY DEF PrepareForRestart, disk
<1>2. \A c \in Children : JobMove(c)
  BY <1>1 DEF JobMove, Active, ProcessActive
<1>. HIDE DEF running
<1>. TAKE p \in Parents
<1>3. CASE top'[p] = top[p]
  BY <1>1, <1>2, <1>3, HandlerOlder DEF TopMove
<1>4. CASE top'[p] = RefreshTop(p, job')[p]
  <2>1. top'[p] = IF p \in Refreshable(top, job') THEN Refreshed(top[p], p, job') ELSE top[p]
    BY <1>4 DEF RefreshTop, RecordTypes
  <2>. QED BY <1>1, <1>2, <2>1, RefreshMove, HandlerOlder
<1>. QED BY <1>1, <1>3, <1>4

LEMMA LoadOlder ==
  ASSUME RecordTypes, RecordTypes', Load
  PROVE  \A p \in Parents : Older(p)
<1>1. /\ \A p \in Parents : top'[p] = IF p \in Refreshable(diskTop, job')
                                      THEN Refreshed(diskTop[p], p, job') ELSE diskTop[p]
      /\ \A c \in Children : job'[c] = Reloaded(c, diskJob[c])
      /\ UNCHANGED <<diskJob, diskTop>>
  BY DEF Load, disk
<1>2. \A c \in Children : job'[c].status \in Active => diskJob[c].status \in Active
  BY <1>1 DEF Reloaded, Active, ProcessActive, RecordTypes, JobRecord
<1>3. \A c \in Children : Busy(c)' => Busy(c)
  BY <1>1, <1>2 DEF Busy
<1>. TAKE p \in Parents
<1>4. /\ top'[p].status # "absent" => diskTop[p].status # "absent"
      /\ top'[p].kind = diskTop[p].kind /\ top'[p].key = diskTop[p].key
      /\ top'[p].status \in Active => Claims(p)
  <2>1. CASE p \in Refreshable(diskTop, job')
    <3>1. diskTop[p] \in TopRecord /\ job' \in [Children -> JobRecord] /\ diskTop[p].status # "absent"
          /\ ChildrenOf(p, job') # {} /\ top'[p] = Refreshed(diskTop[p], p, job')
      BY <1>1, <2>1 DEF RecordTypes, Refreshable
    <3>2. /\ top'[p].kind = diskTop[p].kind /\ top'[p].key = diskTop[p].key
          /\ top'[p].status \in Active => \E c \in Children : c[1] = p /\ job'[c].status \in Active
      BY <3>1, RefreshedStatus
    <3>3. top'[p].status \in Active => Claims(p)
      BY <1>2, <3>1, <3>2 DEF Claims, Known, Busy
    <3>. QED BY <3>1, <3>2, <3>3
  <2>2. CASE p \notin Refreshable(diskTop, job')
    BY <1>1, <2>2 DEF Claims
  <2>. QED BY <2>1, <2>2
<1>5. Known(p)' => Known(p)
  BY <1>1, <1>4 DEF Known
<1>6. Claims(p)' => Claims(p)
  BY <1>1, <1>3, <1>4, <1>5 DEF Claims
<1>7. \A key \in Configs : Belongs(p, key)' => Belongs(p, key)
  BY <1>1, <1>4 DEF Belongs, Batch
<1>. QED BY <1>5, <1>6, <1>7 DEF Older

\* Writes and crashes only copy what is known, or lose it.
LEMMA CopiesOlder ==
  ASSUME \A c \in Children : /\ job'[c] = job[c] \/ job'[c] = NoJob
                             /\ diskJob'[c] \in {diskJob[c], job[c], NoJob},
         \A p \in Parents : /\ top'[p] = top[p] \/ top'[p] = NoTop
                            /\ diskTop'[p] \in {diskTop[p], top[p], NoTop}
  PROVE  \A p \in Parents : Older(p)
<1>1. \A c \in Children : Busy(c)' => Busy(c)
  BY DEF Busy, NoJob, Active, ProcessActive
<1>. TAKE p \in Parents
<1>2. Known(p)' => Known(p)
  BY DEF Known, NoTop
<1>3. Claims(p)' => Claims(p)
  BY <1>1, <1>2 DEF Claims, NoTop, Active, ProcessActive
<1>4. \A key \in Configs : Belongs(p, key)' => Belongs(p, key)
  BY DEF Belongs, Batch, NoTop
<1>. QED BY <1>2, <1>3, <1>4 DEF Older

LEMMA FlushOlder ==
  ASSUME RecordTypes, Flush PROVE \A p \in Parents : Older(p)
<1>1. UNCHANGED <<job, top>>
  BY DEF Flush, memory
<1>2. \A c \in Children : diskJob'[c] \in {diskJob[c], job[c], NoJob}
  BY DEF Flush, RecordTypes
<1>3. \A p \in Parents : diskTop'[p] \in {diskTop[p], top[p], NoTop}
  BY DEF Flush, RecordTypes
<1>. QED BY <1>1, <1>2, <1>3, CopiesOlder

LEMMA StopOlder ==
  ASSUME RecordTypes, Exit \/ Crash PROVE \A p \in Parents : Older(p)
<1>1. /\ \A c \in Children : job'[c] = NoJob
      /\ \A p \in Parents : top'[p] = NoTop
  BY DEF Exit, Crash, NoMemory
<1>2. CASE Exit
  BY <1>1, <1>2, CopiesOlder DEF Exit, disk
<1>3. CASE Crash
  <2>1. \A c \in Children : diskJob'[c] = diskJob[c] \/ diskJob'[c] = NoJob
    BY <1>3 DEF Crash, disk, RecordTypes
  <2>2. \A p \in Parents : diskTop'[p] = diskTop[p] \/ diskTop'[p] = NoTop
    BY <1>3 DEF Crash, disk, RecordTypes
  <2>. QED BY <1>1, <2>1, <2>2, CopiesOlder
<1>. QED BY <1>2, <1>3

-------------------------------------------------------------------------------
(* The steps that make a claim *)

LEMMA NoNewClaim ==
  ASSUME ConfigInvariant, made' = made, \A p \in Parents : Older(p)
  PROVE  ConfigInvariant'
BY DEF ConfigInvariant, Older

\* A submission makes one claim, for a config that had none.
LEMMA OneNewClaim ==
  ASSUME RecordTypes, ConfigInvariant, NEW q \in Parents, q = made + 1, made' = q,
         \A p \in Parents : p # q => Older(p),
         \A key \in Configs : Belongs(q, key)' =>
           \A p \in Parents : p # q => ~(Belongs(p, key) /\ Claims(p))
  PROVE  ConfigInvariant'
<1>1. made \in Nat /\ q \in Nat /\ \A p \in Parents : p \in Nat
  BY CountAssumption DEF RecordTypes, Parents
<1>2. ASSUME NEW p \in Parents, Known(p)' PROVE p <= made'
  <2>1. CASE p = q
    BY <1>1, <2>1
  <2>2. CASE p # q
    <3>1. p <= made
      BY <1>2, <2>2 DEF ConfigInvariant, Older
    <3>. QED BY <1>1, <3>1
  <2>. QED BY <2>1, <2>2
<1>3. ASSUME NEW p \in Parents, NEW r \in Parents, NEW key \in Configs,
             Belongs(p, key)', Claims(p)', Belongs(r, key)', Claims(r)', p # r
      PROVE  FALSE
  <2>1. p # q /\ r # q
    BY <1>3 DEF Older
  <2>. QED BY <1>3, <2>1 DEF ConfigInvariant, Older
<1>. QED BY <1>2, <1>3 DEF ConfigInvariant

\* With the lock free, a parent that claims its config is active in memory.
LEMMA LockedClaims ==
  ASSUME RecordTypes, Locked, DurableWhenIdle, ParentFollowsChildren, NEW p \in Parents, Claims(p)
  PROVE  top[p].status \in Active /\ \A key \in Configs : Belongs(p, key) => top[p].key = key
<1>1. diskJob = job /\ diskTop = top /\ Running
  BY DEF DurableWhenIdle, Locked, Running
<1>2. \A key \in Configs : Belongs(p, key) => top[p].key = key
  BY <1>1 DEF Belongs, Batch
<1>3. CASE top[p].status \in Active
  BY <1>2, <1>3
<1>4. CASE top[p].status \notin Active
  <2>1. top[p].status # "absent"
    BY <1>1, <1>4 DEF Claims, Known
  <2>2. PICK c \in Children : c[1] = p /\ job[c].status \in Active
    BY <1>1, <1>4 DEF Claims, Busy
  <2>3. c \in ChildrenOf(p, job)
    BY <2>2 DEF ChildrenOf, Active, ProcessActive
  <2>4. top[p] = Refreshed(top[p], p, job) /\ top[p] \in TopRecord /\ job \in [Children -> JobRecord]
    BY <1>1, <2>1, <2>3 DEF ParentFollowsChildren, Refreshable, RecordTypes
  <2>5. top[p].status \in Active
    BY <2>2, <2>3, <2>4, RefreshedStatus
  <2>. QED BY <1>2, <2>5
<1>. QED BY <1>3, <1>4

LEMMA CreateClaims ==
  ASSUME RecordTypes, RecordTypes', DurableWhenIdle, ParentFollowsChildren, ConfigInvariant,
         \/ \E S \in (SUBSET Lanes) \ {{}}, key \in BatchKeys : CreateTaskBatchJob(S, key)
         \/ \E l \in Lanes, key \in Requests : CreateRegisteredTaskJob(l, key)
  PROVE  ConfigInvariant'
<1>1. PICK q \in Parents : q = made + 1
  BY NewParent DEF CreateTaskBatchJob, CreateRegisteredTaskJob, RecordTypes
<1>2. /\ Locked /\ made' = q /\ UNCHANGED <<diskJob, diskTop>>
      /\ \A p \in Parents : p # q => top'[p] = top[p]
      /\ \A c \in Children : c[1] # q => job'[c] = job[c]
  <2>1. ASSUME NEW S \in (SUBSET Lanes) \ {{}}, NEW key \in BatchKeys, CreateTaskBatchJob(S, key)
        PROVE  /\ Locked /\ made' = q /\ UNCHANGED disk
               /\ \A p \in Parents : p # q => top'[p] = top[p]
               /\ \A c \in Children : c[1] # q => job'[c] = job[c]
    BY <1>1, <2>1 DEF CreateTaskBatchJob, RecordTypes, Children
  <2>2. ASSUME NEW l \in Lanes, NEW key \in Requests, CreateRegisteredTaskJob(l, key)
        PROVE  /\ Locked /\ made' = q /\ UNCHANGED disk
               /\ \A p \in Parents : p # q => top'[p] = top[p]
               /\ \A c \in Children : c[1] # q => job'[c] = job[c]
    BY <1>1, <2>2 DEF CreateRegisteredTaskJob, RecordTypes, Children
  <2>. QED BY <2>1, <2>2 DEF disk
<1>3. \A p \in Parents : p # q => Older(p)
  BY <1>2, HandlerOlder DEF TopMove, JobMove
<1>4. diskTop[q].status = "absent"
  <2>1. ~Known(q)
    BY <1>1, CountAssumption DEF ConfigInvariant, RecordTypes, Parents
  <2>. QED BY <2>1 DEF Known
<1>5. ASSUME NEW key \in Configs, Belongs(q, key)',
             NEW p \in Parents, p # q, Belongs(p, key), Claims(p)
      PROVE  FALSE
  <2>1. top'[q].kind = "batch" /\ top'[q].key = key
    BY <1>2, <1>4, <1>5 DEF Belongs, Batch
  <2>2. PICK S \in (SUBSET Lanes) \ {{}} : CreateTaskBatchJob(S, key)
    <3>1. ASSUME NEW S \in (SUBSET Lanes) \ {{}}, NEW k \in BatchKeys, CreateTaskBatchJob(S, k)
          PROVE  top'[q].key = k
      BY <1>1, <3>1 DEF CreateTaskBatchJob, RecordTypes
    <3>2. ASSUME NEW l \in Lanes, NEW k \in Requests, CreateRegisteredTaskJob(l, k)
          PROVE  top'[q].kind = "registered"
      BY <1>1, <3>2 DEF CreateRegisteredTaskJob, RecordTypes
    <3>. QED BY <2>1, <3>1, <3>2
  <2>3. ~ConfigIsActive(key)
    BY <2>2 DEF CreateTaskBatchJob, Configs
  <2>4. top[p].status \in Active /\ top[p].key = key
    BY <1>2, <1>5, LockedClaims
  <2>. QED BY <2>3, <2>4 DEF ConfigIsActive
<1>. QED BY <1>1, <1>2, <1>3, <1>5, OneNewClaim

LEMMA ConfigStep ==
  ASSUME RecordTypes, RecordTypes', DurableWhenIdle, ParentFollowsChildren, ConfigInvariant,
         [Next]_vars
  PROVE  ConfigInvariant'
<1>1. CASE UNCHANGED vars \/ DispatchNone \/ (\E key \in Configs : ListPendingJobs(key))
           \/ \E x \in live : ProcessExit(x)
  <2>1. UNCHANGED <<job, top, diskJob, diskTop, made>>
    BY <1>1 DEF vars, memory, disk, history, DispatchNone, ListPendingJobs, ProcessExit
  <2>2. \A p \in Parents : Older(p)
    BY <2>1, CopiesOlder
  <2>. QED BY <2>1, <2>2, NoNewClaim
<1>2. CASE \/ \E S \in (SUBSET Lanes) \ {{}}, key \in BatchKeys : CreateTaskBatchJob(S, key)
           \/ \E l \in Lanes, key \in Requests : CreateRegisteredTaskJob(l, key)
  BY <1>2, CreateClaims
<1>3. CASE (\E p \in Parents : CancelParent(p)) \/ \E c \in Children : CancelChild(c)
  <2>1. made' = made
    BY <1>3 DEF CancelParent, CancelChild, history
  <2>. QED BY <1>3, <2>1, CancelsOlder, NoNewClaim
<1>4. CASE \E i \in DOMAIN queue : DispatchSpawn(i) \/ DispatchFails(i)
  <2>1. made' = made
    BY <1>4 DEF DispatchSpawn, DispatchFails, history
  <2>. QED BY <1>4, <2>1, DispatchOlder, NoNewClaim
<1>5. CASE \E c \in Children, outcome \in Outcomes : Finish(c, outcome)
  <2>1. made' = made
    BY <1>5 DEF Finish, history
  <2>. QED BY <1>5, <2>1, FinishOlder, NoNewClaim
<1>6. CASE \/ \E c \in Children : RefreshRunningJob(c) \/ WatchOrphan(c)
           \/ \E p \in Parents : RefreshParent(p)
  <2>1. made' = made
    BY <1>6 DEF RefreshRunningJob, WatchOrphan, RefreshParent, history
  <2>. QED BY <1>6, <2>1, ReadersOlder, NoNewClaim
<1>7. CASE PrepareForRestart \/ Load
  <2>1. made' = made
    BY <1>7 DEF PrepareForRestart, Load
  <2>. QED BY <1>7, <2>1, PrepareOlder, LoadOlder, NoNewClaim
<1>8. CASE Flush \/ Exit \/ Crash
  <2>1. made' = made
    BY <1>8 DEF Flush, Exit, Crash, history
  <2>. QED BY <1>8, <2>1, FlushOlder, StopOlder, NoNewClaim
<1>. QED BY <1>1, <1>2, <1>3, <1>4, <1>5, <1>6, <1>7, <1>8 DEF Next

\* A sync config never has two active jobs, whatever crashes and restarts come between the
\* check and the writes of the job, torn writes included.
THEOREM ConfigsHaveOneJob == Spec => []OneActiveJobPerConfig
<1>1. Init => ConfigInvariant
  BY DEF Init, ConfigInvariant, Known, Belongs, Batch, NoTop
<1>2. RecordTypes /\ RecordTypes' /\ DurableWhenIdle /\ ParentFollowsChildren /\ ConfigInvariant /\ [Next]_vars
        => ConfigInvariant'
  BY ConfigStep
<1>3. ConfigInvariant => OneActiveJobPerConfig
  <2>1. \A p \in Parents, key \in Configs :
          top[p].kind = "batch" /\ top[p].key = key /\ top[p].status \in Active
            => Belongs(p, key) /\ Claims(p)
    BY DEF Belongs, Batch, Claims, Active, ProcessActive
  <2>. QED BY <2>1 DEF ConfigInvariant, OneActiveJobPerConfig
<1>. QED BY <1>1, <1>2, <1>3, RecordsTyped, RecordsDurable, ParentsFollow, PTL DEF Spec

-------------------------------------------------------------------------------
(* The queues: lists without repetition, and the positions a dispatcher keeps. *)

Distinct(q) == \A i, j \in DOMAIN q : q[i] = q[j] => i = j
Lists(q, c) == \E i \in DOMAIN q : q[i] = c

LEMMA RankValue ==
  ASSUME NEW D \in SUBSET Nat, IsFiniteSet(D), NEW i \in D
  PROVE  Rank(D, i) \in 1..Cardinality(D)
<1>. DEFINE upTo == {j \in D : j <= i}
<1>1. upTo \in SUBSET D /\ {i} \in SUBSET upTo
  OBVIOUS
<1>2. IsFiniteSet(upTo) /\ Cardinality(upTo) <= Cardinality(D)
  BY <1>1, FS_Subset
<1>3. Cardinality({i}) = 1 /\ Cardinality({i}) <= Cardinality(upTo)
  BY <1>1, <1>2, FS_Subset, FS_Singleton
<1>4. Cardinality(upTo) \in Nat /\ Cardinality(D) \in Nat
  BY <1>2, FS_CardinalityType
<1>. HIDE DEF upTo
<1>5. Cardinality(upTo) \in 1..Cardinality(D)
  BY <1>2, <1>3, <1>4
<1>. QED BY <1>5 DEF Rank, upTo

LEMMA RankGrows ==
  ASSUME NEW D \in SUBSET Nat, IsFiniteSet(D), NEW i \in D, NEW j \in D, i < j
  PROVE  Rank(D, i) < Rank(D, j)
<1>. DEFINE upTo(k) == {m \in D : m <= k}
<1>1. i \in Nat /\ j \in Nat /\ \A m \in D : m \in Nat /\ (m <= i => m <= j)
  OBVIOUS
<1>2. upTo(i) \subseteq upTo(j) /\ upTo(j) \subseteq D
  BY <1>1
<1>3. j \in upTo(j) /\ j \notin upTo(i)
  BY <1>1
<1>4. IsFiniteSet(upTo(j))
  BY <1>2, FS_Subset
<1>5. Rank(D, i) <= Rank(D, j) /\ Rank(D, i) # Rank(D, j)
  BY <1>2, <1>3, <1>4, FS_Subset DEF Rank
<1>6. Rank(D, i) \in Nat /\ Rank(D, j) \in Nat
  BY RankValue
<1>. QED BY <1>5, <1>6

\* The ranks of a finite set of positions are 1, 2, ... without a gap: an injection of a
\* finite set into another of the same size.
LEMMA RankCounts ==
  ASSUME NEW D \in SUBSET Nat, IsFiniteSet(D), NEW n \in 1..Cardinality(D)
  PROVE  \E i \in D : Rank(D, i) = n
<1>. DEFINE N == Cardinality(D)
            rank == [i \in D |-> Rank(D, i)]
<1>1. N \in Nat
  BY FS_CardinalityType
<1>2. rank \in [D -> 1..N]
  BY RankValue
<1>3. ASSUME NEW i \in D, NEW j \in D, rank[i] = rank[j] PROVE i = j
  <2>1. Rank(D, i) = Rank(D, j) /\ Rank(D, i) \in Nat
    BY <1>3, RankValue
  <2>. QED BY <2>1, RankGrows
<1>. HIDE DEF rank, N
<1>4. rank \in Injection(D, 1..N)
  BY <1>2, <1>3 DEF Injection, IsInjective
<1>5. IsFiniteSet(1..N) /\ Cardinality(1..N) = N
  BY <1>1, FS_Interval
<1>6. rank \in Surjection(D, 1..N)
  BY <1>4, <1>5, FS_Injection DEF N
<1>7. \E i \in D : rank[i] = n
  BY <1>6 DEF Surjection, N
<1>. QED BY <1>7 DEF rank

\* k has the elements of s that are in S, in their order: its position n is position e[n] of s.
Selection(e, k, s, S) ==
    /\ e \in [DOMAIN k -> DOMAIN s]
    /\ \A n \in DOMAIN k : k[n] = s[e[n]] /\ s[e[n]] \in S
    /\ \A m, n \in DOMAIN k : m < n => e[m] < e[n]
    /\ \A i \in DOMAIN s : s[i] \in S => \E n \in DOMAIN k : e[n] = i

LEMMA KeptPositions ==
  ASSUME NEW T, NEW s \in Seq(T), NEW S
  PROVE  Kept(s, S) \in Seq(T) /\ \E e : Selection(e, Kept(s, S), s, S)
<1>. DEFINE D == {i \in DOMAIN s : s[i] \in S}
            N == Cardinality(D)
            e == [n \in 1..N |-> CHOOSE i \in D : Rank(D, i) = n]
<1>1. DOMAIN s = 1..Len(s) /\ Len(s) \in Nat /\ IsFiniteSet(DOMAIN s) /\ D \in SUBSET Nat
  BY FS_Interval
<1>2. IsFiniteSet(D) /\ N \in Nat
  BY <1>1, FS_Subset, FS_CardinalityType
<1>3. Kept(s, S) = [n \in 1..N |-> s[e[n]]]
  BY DEF Kept
<1>4. \A n \in 1..N : e[n] \in D /\ Rank(D, e[n]) = n
  BY <1>1, <1>2, RankCounts
<1>5. e \in [1..N -> D]
  BY <1>4
<1>. HIDE DEF e, N
<1>6. Kept(s, S) \in Seq(T) /\ DOMAIN Kept(s, S) = 1..N /\ e \in [1..N -> DOMAIN s]
  <2>1. \A n \in 1..N : e[n] \in 1..Len(s) /\ s[e[n]] \in T
    BY <1>1, <1>4, ElementOfSeq
  <2>2. Kept(s, S) \in [1..N -> T]
    BY <2>1, <1>3
  <2>3. Kept(s, S) \in Seq(T)
    BY <2>2, <1>2
  <2>. QED BY <2>2, <2>3, <1>5
<1>7. \A n \in 1..N : Kept(s, S)[n] = s[e[n]] /\ s[e[n]] \in S
  BY <1>3, <1>4
<1>8. ASSUME NEW m \in 1..N, NEW n \in 1..N, m < n PROVE e[m] < e[n]
  <2>1. e[m] \in D /\ e[n] \in D /\ Rank(D, e[m]) = m /\ Rank(D, e[n]) = n
    BY <1>4
  <2>2. ~(e[n] < e[m]) /\ e[n] # e[m]
    BY <2>1, <1>1, <1>2, <1>8, RankGrows
  <2>3. e[m] \in Nat /\ e[n] \in Nat
    BY <2>1, <1>1
  <2>. QED BY <2>2, <2>3
<1>9. ASSUME NEW i \in DOMAIN s, s[i] \in S PROVE \E n \in 1..N : e[n] = i
  <2>1. i \in D /\ Rank(D, i) \in 1..N
    BY <1>1, <1>2, <1>9, RankValue DEF N
  <2>2. PICK n \in 1..N : n = Rank(D, i)
    BY <2>1
  <2>3. e[n] \in D /\ Rank(D, e[n]) = n
    BY <1>4
  <2>4. ~(e[n] < i) /\ ~(i < e[n])
    BY <2>1, <2>2, <2>3, <1>1, <1>2, RankGrows
  <2>5. e[n] \in Nat /\ i \in Nat
    BY <2>1, <2>3, <1>1
  <2>. QED BY <2>4, <2>5
<1>10. /\ \A m, n \in 1..N : m < n => e[m] < e[n]
       /\ \A i \in DOMAIN s : s[i] \in S => \E n \in 1..N : e[n] = i
  BY <1>8, <1>9
<1>11. /\ \A n \in DOMAIN Kept(s, S) : Kept(s, S)[n] = s[e[n]] /\ s[e[n]] \in S
       /\ \A m, n \in DOMAIN Kept(s, S) : m < n => e[m] < e[n]
       /\ \A i \in DOMAIN s : s[i] \in S => \E n \in DOMAIN Kept(s, S) : e[n] = i
  BY <1>6, <1>7, <1>10
<1>12. Kept(s, S) \in Seq(T) /\ e \in [DOMAIN Kept(s, S) -> DOMAIN s]
  BY <1>6
<1>. QED BY <1>11, <1>12 DEF Selection

LEMMA KeptList ==
  ASSUME NEW T, NEW s \in Seq(T), NEW S
  PROVE  /\ Kept(s, S) \in Seq(T)
         /\ \A c : Lists(Kept(s, S), c) <=> c \in S /\ Lists(s, c)
         /\ Distinct(s) => Distinct(Kept(s, S))
<1>. DEFINE k == Kept(s, S)
<1>1. PICK e : Selection(e, k, s, S)
  BY KeptPositions
<1>2. k \in Seq(T)
  BY KeptPositions
<1>. HIDE DEF k
<1>. USE DEF Selection
<1>3. ASSUME NEW c, Lists(k, c) PROVE c \in S /\ Lists(s, c)
  BY <1>1, <1>3 DEF Lists
<1>4. ASSUME NEW c, c \in S, Lists(s, c) PROVE Lists(k, c)
  BY <1>1, <1>4 DEF Lists
<1>5. ASSUME Distinct(s), NEW m \in DOMAIN k, NEW n \in DOMAIN k, k[m] = k[n] PROVE m = n
  <2>1. e[m] = e[n] /\ e[m] \in DOMAIN s
    BY <1>1, <1>5 DEF Distinct
  <2>2. m \in Nat /\ n \in Nat /\ e[m] \in Nat
    BY <1>2, <2>1
  <2>3. ~(m < n) /\ ~(n < m)
    BY <1>1, <2>1, <2>2
  <2>. QED BY <2>2, <2>3
<1>. QED BY <1>2, <1>3, <1>4, <1>5 DEF k, Distinct

LEMMA ConcatList ==
  ASSUME NEW T, NEW s \in Seq(T), NEW t \in Seq(T)
  PROVE  /\ s \o t \in Seq(T)
         /\ \A c : Lists(s \o t, c) <=> Lists(s, c) \/ Lists(t, c)
         /\ Distinct(s) /\ Distinct(t) /\ (\A c : ~(Lists(s, c) /\ Lists(t, c))) => Distinct(s \o t)
<1>. DEFINE u == s \o t
<1>1. /\ u \in Seq(T) /\ Len(s) \in Nat /\ Len(t) \in Nat
      /\ DOMAIN u = 1..(Len(s) + Len(t)) /\ DOMAIN s = 1..Len(s) /\ DOMAIN t = 1..Len(t)
  OBVIOUS
<1>2. \A i \in DOMAIN u : \/ i \in DOMAIN s /\ u[i] = s[i]
                          \/ i - Len(s) \in DOMAIN t /\ u[i] = t[i - Len(s)]
  BY <1>1
<1>3. \A i \in DOMAIN s : i \in DOMAIN u /\ u[i] = s[i]
  BY <1>1
<1>4. \A i \in DOMAIN t : Len(s) + i \in DOMAIN u /\ u[Len(s) + i] = t[i]
  BY <1>1
<1>. HIDE DEF u
<1>5. \A c : Lists(u, c) <=> Lists(s, c) \/ Lists(t, c)
  BY <1>2, <1>3, <1>4 DEF Lists
<1>6. ASSUME Distinct(s), Distinct(t), \A c : ~(Lists(s, c) /\ Lists(t, c)),
             NEW i \in DOMAIN u, NEW j \in DOMAIN u, u[i] = u[j]
      PROVE  i = j
  <2>1. CASE i \in DOMAIN s /\ u[i] = s[i] /\ j \in DOMAIN s /\ u[j] = s[j]
    BY <2>1, <1>6 DEF Distinct
  <2>2. CASE /\ i - Len(s) \in DOMAIN t /\ u[i] = t[i - Len(s)]
             /\ j - Len(s) \in DOMAIN t /\ u[j] = t[j - Len(s)]
    <3>1. i - Len(s) = j - Len(s)
      BY <2>2, <1>6 DEF Distinct
    <3>. QED BY <3>1, <1>1
  <2>3. ~(Lists(s, u[i]) /\ Lists(t, u[i]))
    BY <1>6
  <2>. QED BY <2>1, <2>2, <2>3, <1>2, <1>6 DEF Lists
<1>. QED BY <1>1, <1>5, <1>6 DEF u, Distinct

LEMMA OrderList ==
  ASSUME NEW S \in SUBSET Children, NEW s \in Orders(S)
  PROVE  s \in Seq(Children) /\ Distinct(s) /\ \A c : Lists(s, c) <=> c \in S
<1>1. s \in Seq(S) /\ s \in Seq(Children) /\ \A x \in S : \E i \in DOMAIN s : s[i] = x
  BY OrderType
<1>2. \A i \in DOMAIN s : s[i] \in S
  BY <1>1
<1>. QED BY <1>1, <1>2, OrderOnce DEF Lists, Distinct

LEMMA OneList ==
  ASSUME NEW c \in Children
  PROVE  <<c>> \in Seq(Children) /\ Distinct(<<c>>) /\ \A d : Lists(<<c>>, d) <=> d = c
<1>1. <<c>> \in Seq(Children) /\ DOMAIN <<c>> = {1} /\ <<c>>[1] = c
  OBVIOUS
<1>. QED BY <1>1 DEF Distinct, Lists

-------------------------------------------------------------------------------
(* The queue lists what is queued *)

\* q lists the children queued by the records jobs, each once.
QueueOf(q, jobs) ==
    /\ q \in Seq(Children) /\ Distinct(q)
    /\ \A c \in Children : jobs[c].status = "queued" <=> Lists(q, c)

QueueInvariant == QueueOf(queue, job) /\ diskQueue \in Seq(Children) /\ Distinct(diskQueue)

\* Entries are dropped: those of the children that are not queued any more.
LEMMA KeptQueue ==
  ASSUME NEW q, NEW jobs, NEW more, NEW S, QueueOf(q, jobs),
         \A c \in Children : more[c].status = "queued" <=> jobs[c].status = "queued" /\ c \in S
  PROVE  QueueOf(Kept(q, S), more)
<1>1. q \in Seq(Children) /\ Distinct(q)
  BY DEF QueueOf
<1>2. Kept(q, S) \in Seq(Children) /\ Distinct(Kept(q, S))
      /\ \A c : Lists(Kept(q, S), c) <=> c \in S /\ Lists(q, c)
  BY <1>1, KeptList
<1>. QED BY <1>2 DEF QueueOf

\* Entries are added in front or behind: the children that were not queued and are now.
LEMMA JoinedQueue ==
  ASSUME NEW q, NEW jobs, NEW more, NEW t \in Seq(Children), NEW S, QueueOf(q, jobs), Distinct(t),
         \A c : Lists(t, c) <=> c \in S,
         \A c \in S : c \in Children /\ jobs[c].status # "queued",
         \A c \in Children : more[c].status = "queued" <=> jobs[c].status = "queued" \/ c \in S
  PROVE  QueueOf(q \o t, more) /\ QueueOf(t \o q, more)
<1>1. q \in Seq(Children) /\ Distinct(q) /\ \A c : ~(Lists(q, c) /\ Lists(t, c))
  BY DEF QueueOf
<1>2. /\ q \o t \in Seq(Children) /\ Distinct(q \o t)
      /\ \A c : Lists(q \o t, c) <=> Lists(q, c) \/ Lists(t, c)
  BY <1>1, ConcatList
<1>3. /\ t \o q \in Seq(Children) /\ Distinct(t \o q)
      /\ \A c : Lists(t \o q, c) <=> Lists(t, c) \/ Lists(q, c)
  BY <1>1, ConcatList
<1>. QED BY <1>2, <1>3 DEF QueueOf

\* _load_queue: what the file lists, then what it does not.
LEMMA LoadedQueue ==
  ASSUME diskQueue \in Seq(Children), Distinct(diskQueue), NEW jobs, NEW q \in LoadedQueues(jobs)
  PROVE  QueueOf(q, jobs)
<1>. DEFINE queued  == {c \in Children : jobs[c].status = "queued"}
            ordered == Kept(diskQueue, queued)
            S       == queued \ ToSet(ordered)
<1>1. PICK rest \in Orders(S) : q = ordered \o rest
  BY DEF LoadedQueues, ByCreation
<1>2. /\ ordered \in Seq(Children) /\ Distinct(ordered)
      /\ \A c : Lists(ordered, c) <=> c \in queued /\ Lists(diskQueue, c)
  BY KeptList
<1>3. S \in SUBSET Children
  OBVIOUS
<1>4. rest \in Seq(Children) /\ Distinct(rest) /\ \A c : Lists(rest, c) <=> c \in S
  BY <1>3, OrderList
<1>. HIDE DEF ordered
<1>5. \A c : c \in S <=> c \in queued /\ ~Lists(ordered, c)
  BY DEF ToSet, Lists
<1>6. q \in Seq(Children) /\ Distinct(q) /\ \A c : Lists(q, c) <=> Lists(ordered, c) \/ Lists(rest, c)
  BY <1>1, <1>2, <1>4, <1>5, ConcatList
<1>7. \A c \in Children : c \in queued <=> Lists(q, c)
  BY <1>2, <1>4, <1>5, <1>6
<1>. QED BY <1>6, <1>7 DEF QueueOf

\* In a queue that lists what is queued no entry is stale.
LEMMA NothingPruned ==
  ASSUME QueueOf(queue, job), NEW n \in 0..Len(queue)
  PROVE  Pruned(n) = queue
<1>1. ASSUME NEW j \in 1..n PROVE job[queue[j]].status = "queued"
  <2>1. j \in DOMAIN queue /\ queue[j] \in Children
    BY DEF QueueOf
  <2>. QED BY <2>1 DEF QueueOf, Lists
<1>. QED BY <1>1 DEF Pruned

\* A handler that changes which children are queued in neither file nor memory.
LEMMA SameQueue ==
  ASSUME QueueInvariant, UNCHANGED <<queue, diskQueue>>,
         \A c \in Children : job'[c].status = "queued" <=> job[c].status = "queued"
  PROVE  QueueInvariant'
BY DEF QueueInvariant, QueueOf, Distinct, Lists

LEMMA NewQueue ==
  ASSUME QueueInvariant, UNCHANGED diskQueue, QueueOf(queue', job')
  PROVE  QueueInvariant'
BY DEF QueueInvariant, Distinct

LEMMA CreateBatchQueue ==
  ASSUME RecordTypes, Unborn, QueueInvariant,
         NEW S \in (SUBSET Lanes) \ {{}}, NEW key \in BatchKeys, CreateTaskBatchJob(S, key)
  PROVE  QueueInvariant'
<1>1. PICK p \in Parents : p = made + 1
  BY NewParent DEF CreateTaskBatchJob, RecordTypes
<1>. DEFINE kids == {p} \X S
<1>2. kids \in SUBSET Children /\ \A c \in kids : c[1] > made
  BY <1>1 DEF Children, RecordTypes
<1>3. PICK s \in Orders(kids) : queue' = queue \o s
  BY <1>1 DEF CreateTaskBatchJob
<1>4. /\ UNCHANGED diskQueue
      /\ \A c \in Children : job'[c] = IF c \in kids THEN NewJob ELSE job[c]
  BY <1>1 DEF CreateTaskBatchJob, disk
<1>5. \A c \in kids : c \in Children /\ job[c].status # "queued"
  BY <1>2 DEF Unborn, NoJob
<1>6. \A c \in Children : job'[c].status = "queued" <=> job[c].status = "queued" \/ c \in kids
  BY <1>4 DEF NewJob, NoJob
<1>7. s \in Seq(Children) /\ Distinct(s) /\ \A c : Lists(s, c) <=> c \in kids
  BY <1>2, OrderList
<1>. HIDE DEF kids
<1>8. QueueOf(queue', job')
  BY <1>3, <1>5, <1>6, <1>7, JoinedQueue DEF QueueInvariant
<1>. QED BY <1>4, <1>8, NewQueue

LEMMA CreateRegisteredQueue ==
  ASSUME RecordTypes, Unborn, QueueInvariant,
         NEW l \in Lanes, NEW key \in Requests, CreateRegisteredTaskJob(l, key)
  PROVE  QueueInvariant'
<1>1. PICK p \in Parents : p = made + 1
  BY NewParent DEF CreateRegisteredTaskJob, RecordTypes
<1>. DEFINE x == <<p, l>>
<1>2. PICK k \in Children : k = x /\ k[1] > made
  <2>1. p > made
    BY <1>1 DEF RecordTypes
  <2>2. x \in Children /\ x[1] = p
    BY DEF Children
  <2>. QED BY <2>1, <2>2
<1>3. /\ UNCHANGED diskQueue /\ queue' = Append(queue, k)
      /\ \A c \in Children : job'[c] = IF c = k THEN NewJob ELSE job[c]
  BY <1>1, <1>2 DEF CreateRegisteredTaskJob, RecordTypes, disk
<1>4. queue' = queue \o <<k>>
  BY <1>3 DEF QueueInvariant, QueueOf
<1>5. \A c \in {k} : c \in Children /\ job[c].status # "queued"
  BY <1>2 DEF Unborn, NoJob
<1>6. \A c \in Children : job'[c].status = "queued" <=> job[c].status = "queued" \/ c \in {k}
  BY <1>3 DEF NewJob, NoJob
<1>7. <<k>> \in Seq(Children) /\ Distinct(<<k>>) /\ \A c : Lists(<<k>>, c) <=> c \in {k}
  BY OneList
<1>8. QueueOf(queue', job')
  BY <1>4, <1>5, <1>6, <1>7, JoinedQueue DEF QueueInvariant
<1>. QED BY <1>3, <1>8, NewQueue

LEMMA CancelChildrenQueue ==
  ASSUME QueueInvariant, NEW T \in SUBSET Children, NEW p \in Parents, CancelChildren(T, p),
         UNCHANGED diskQueue
  PROVE  QueueInvariant'
<1>. DEFINE S == Children \ {c \in T : job[c].status = "queued"}
<1>1. queue' = Kept(queue, S)
      /\ \A c \in Children : job'[c] = IF c \in T THEN Cancelled(c) ELSE job[c]
  BY DEF CancelChildren, CancelledJobs
<1>2. \A c \in T : Cancelled(c).status # "queued"
  BY DEF Cancelled
<1>3. \A c \in Children : job'[c].status = "queued" <=> job[c].status = "queued" /\ c \in S
  BY <1>1, <1>2
<1>. HIDE DEF S
<1>4. QueueOf(queue', job')
  BY <1>1, <1>3, KeptQueue DEF QueueInvariant
<1>. QED BY <1>4, NewQueue

LEMMA CancelQueue ==
  ASSUME QueueInvariant,
         (\E p \in Parents : CancelParent(p)) \/ (\E c \in Children : CancelChild(c))
  PROVE  QueueInvariant'
<1>1. ASSUME NEW p \in Parents, CancelParent(p) PROVE QueueInvariant'
  <2>1. CASE ChildrenOf(p, job) = {}
    BY <1>1, <2>1, SameQueue DEF CancelParent, disk
  <2>2. CASE ChildrenOf(p, job) # {}
    <3>1. ChildrenOf(p, job) \in SUBSET Children
      BY DEF ChildrenOf
    <3>. QED BY <1>1, <2>2, <3>1, CancelChildrenQueue DEF CancelParent, disk
  <2>. QED BY <2>1, <2>2
<1>2. ASSUME NEW c \in Children, CancelChild(c) PROVE QueueInvariant'
  <2>1. c[1] \in Parents
    BY DEF Children
  <2>. QED BY <1>2, <2>1, CancelChildrenQueue DEF CancelChild, disk
<1>. QED BY <1>1, <1>2

\* What starts, or fails to, leaves the queue; nothing else does.
LEMMA DispatchQueue ==
  ASSUME RecordTypes, QueueInvariant, NEW i \in DOMAIN queue, DispatchSpawn(i) \/ DispatchFails(i)
  PROVE  QueueInvariant'
<1>1. PICK k \in Children : k = queue[i] /\ job[k].status = "queued"
  BY DEF DispatchSpawn, DispatchFails, Selects, Eligible
<1>2. i \in 0..Len(queue)
  BY DEF QueueInvariant, QueueOf
<1>3. UNCHANGED diskQueue /\ queue' = Kept(queue, Children \ {k})
  BY <1>1, <1>2, NothingPruned DEF DispatchSpawn, DispatchFails, QueueInvariant, disk
<1>4. \A c \in Children : c # k => job'[c] = job[c]
  BY <1>1 DEF DispatchSpawn, DispatchFails, RecordTypes
<1>5. job'[k].status # "queued"
  <2>1. job[k] \in JobRecord /\ job \in [Children -> JobRecord]
    BY DEF RecordTypes
  <2>2. CASE DispatchSpawn(i)
    <3>1. job'[k] = [job[k] EXCEPT !.status = "running", !.started = TRUE, !.pid = epoch]
      BY <1>1, <2>1, <2>2 DEF DispatchSpawn
    <3>. QED BY <2>1, <3>1 DEF JobRecord
  <2>3. CASE DispatchFails(i)
    <3>1. job'[k] = [job[k] EXCEPT !.status = "failed"]
      BY <1>1, <2>1, <2>3 DEF DispatchFails
    <3>. QED BY <2>1, <3>1 DEF JobRecord
  <2>. QED BY <2>2, <2>3
<1>6. \A c \in Children : job'[c].status = "queued" <=> job[c].status = "queued" /\ c \in Children \ {k}
  BY <1>4, <1>5
<1>7. QueueOf(queue', job')
  BY <1>3, <1>6, KeptQueue DEF QueueInvariant
<1>. QED BY <1>3, <1>7, NewQueue

LEMMA DispatchNoneQueue ==
  ASSUME QueueInvariant, DispatchNone PROVE QueueInvariant' /\ queue' = queue
<1>. DEFINE scanned == IF Cardinality(ActiveJobs) < MaxParallel THEN Len(queue) ELSE 0
<1>1. scanned \in 0..Len(queue)
  BY DEF QueueInvariant, QueueOf
<1>2. queue' = queue
  BY <1>1, NothingPruned DEF DispatchNone, QueueInvariant
<1>. QED BY <1>2, SameQueue DEF DispatchNone, disk

\* A child that ends was not queued: it had a process that was not put back.
LEMMA FinishQueue ==
  ASSUME RecordTypes, HandlesActive, QueueInvariant,
         NEW k \in Children, NEW outcome \in Outcomes, Finish(k, outcome)
  PROVE  QueueInvariant'
<1>1. UNCHANGED <<queue, diskQueue>> /\ k \in handles
  BY DEF Finish, disk
<1>2. CASE k \in restarting
  BY <1>1, <1>2, SameQueue DEF Finish
<1>3. CASE k \notin restarting
  <2>1. job[k].status \in ProcessActive
    BY <1>1, <1>3 DEF HandlesActive
  <2>2. FinalStatus(k, outcome) # "queued" /\ job[k].status # "queued"
    BY <2>1, OutcomeAssumption DEF FinalStatus, ProcessActive
  <2>3. \A c \in Children : job'[c].status = IF c = k THEN FinalStatus(k, outcome) ELSE job[c].status
    BY <1>3 DEF Finish, RecordTypes, JobRecord
  <2>. QED BY <1>1, <2>2, <2>3, SameQueue
<1>. QED BY <1>2, <1>3

LEMMA PrepareQueue ==
  ASSUME RecordTypes, QueueInvariant, PrepareForRestart PROVE QueueInvariant'
<1>. DEFINE running == {c \in handles : job[c].status = "running"}
<1>1. running \in SUBSET Children /\ UNCHANGED diskQueue
  BY DEF PrepareForRestart, RecordTypes, disk
<1>2. \A c \in Children : job'[c] = IF c \in running THEN Requeued(job[c]) ELSE job[c]
  BY DEF PrepareForRestart
<1>3. CASE running = {}
  BY <1>1, <1>2, <1>3, SameQueue DEF PrepareForRestart
<1>4. CASE running # {}
  <2>1. PICK s \in Orders(running) : queue' = s \o Kept(queue, Children \ running)
    BY <1>4 DEF PrepareForRestart, PutBack
  <2>2. s \in Seq(Children) /\ Distinct(s) /\ \A c : Lists(s, c) <=> c \in running
    BY <1>1, OrderList
  <2>3. \A c \in Children : job[c].status = "queued" <=>
          job[c].status = "queued" /\ c \in Children \ running
    OBVIOUS
  <2>4. \A c \in running : c \in Children /\ job[c].status # "queued"
    BY <1>1
  <2>5. \A c \in Children : job'[c].status = "queued" <=> job[c].status = "queued" \/ c \in running
    BY <1>2 DEF Requeued, RecordTypes, JobRecord
  <2>. HIDE DEF running
  <2>6. QueueOf(Kept(queue, Children \ running), job)
    BY <2>3, KeptQueue DEF QueueInvariant
  <2>7. QueueOf(queue', job')
    BY <2>1, <2>2, <2>4, <2>5, <2>6, JoinedQueue
  <2>. QED BY <1>1, <2>7, NewQueue
<1>. QED BY <1>3, <1>4

LEMMA ReloadQueue ==
  ASSUME QueueInvariant, UNCHANGED diskQueue, queue' \in LoadedQueues(job')
  PROVE  QueueInvariant'
<1>1. QueueOf(queue', job')
  BY LoadedQueue DEF QueueInvariant
<1>. QED BY <1>1, NewQueue

LEMMA DownQueue ==
  ASSUME QueueInvariant, NoMemory, UNCHANGED diskQueue PROVE QueueInvariant'
<1>1. queue' = <<>> /\ \A c \in Children : job'[c].status # "queued"
  BY DEF NoMemory, NoJob
<1>2. QueueOf(queue', job')
  BY <1>1 DEF QueueOf, Distinct, Lists
<1>. QED BY <1>2, NewQueue

LEMMA FlushQueue ==
  ASSUME QueueInvariant, Flush PROVE QueueInvariant'
<1>1. UNCHANGED <<job, queue>> /\ (diskQueue' = queue \/ diskQueue' = diskQueue)
  BY DEF Flush, memory
<1>. QED BY <1>1 DEF QueueInvariant, QueueOf, Distinct, Lists

LEMMA QueueStep ==
  ASSUME RecordTypes, SlotInvariant, HandlesActive, QueueInvariant, [Next]_vars
  PROVE  QueueInvariant'
<1>1. Unborn
  BY DEF SlotInvariant
<1>2. CASE \/ \E c \in Children : RefreshRunningJob(c)
           \/ \E p \in Parents : RefreshParent(p)
           \/ \E key \in Configs : ListPendingJobs(key)
           \/ \E x \in live : ProcessExit(x)
           \/ UNCHANGED vars
  <2>1. UNCHANGED <<job, queue, diskQueue>>
    BY <1>2 DEF RefreshRunningJob, RefreshParent, ListPendingJobs, ProcessExit, vars, memory, disk
  <2>. QED BY <2>1, SameQueue
<1>3. CASE \E c \in Children : WatchOrphan(c)
  BY <1>3, ReloadQueue DEF WatchOrphan, disk
<1>4. CASE Load
  BY <1>4, ReloadQueue DEF Load, disk
<1>5. CASE Exit \/ Crash
  BY <1>5, DownQueue DEF Exit, Crash, disk
<1>. QED BY <1>1, <1>2, <1>3, <1>4, <1>5, CreateBatchQueue, CreateRegisteredQueue, CancelQueue,
            DispatchNoneQueue, DispatchQueue, FinishQueue, PrepareQueue, FlushQueue
         DEF Next
\* The inductive invariant: the queue in memory lists the queued children, each once, and
\* the queue file, which may lag behind, nothing twice.
THEOREM QueueKept == Spec => []QueueInvariant
<1>1. Init => QueueInvariant
  <2>. SUFFICES ASSUME Init PROVE QueueInvariant
    OBVIOUS
  <2>1. queue = <<>> /\ diskQueue = <<>> /\ \A c \in Children : job[c].status # "queued"
    BY DEF Init, NoJob
  <2>. QED BY <2>1 DEF QueueInvariant, QueueOf, Distinct, Lists
<1>2. RecordTypes /\ SlotInvariant /\ OutcomeInvariant /\ QueueInvariant /\ [Next]_vars
        => QueueInvariant'
  BY QueueStep DEF OutcomeInvariant
<1>. QED BY <1>1, <1>2, RecordsTyped, SlotsKept, OutcomesKept, PTL DEF Spec

\* No submission, cancellation, exit, restart, requeue or reload forgets a queued child or
\* lists one twice, whatever a crash left of the queue file.
THEOREM QueueIsExact == Spec => []QueueExact
<1>1. QueueInvariant => QueueExact
  BY DEF QueueInvariant, QueueOf, QueueExact, Distinct, Lists
<1>. QED BY <1>1, QueueKept, PTL

\* The two queues are lists of children, so that the state has its type as a whole.
THEOREM TypesHold == Spec => []TypeOK
<1>1. RecordTypes /\ QueueInvariant => TypeOK
  BY DEF QueueInvariant, QueueOf, TypeOK
<1>. QED BY <1>1, RecordsTyped, QueueKept, PTL

-------------------------------------------------------------------------------
(* No wakeup is lost *)

\* What is kept of NoLostWakeup while the lock is held.
Awake == phase = "up" /\ ~kick => NothingEligible

\* A thread leaves _dispatch_next only when nothing can start, and whoever frees a slot, adds
\* work or takes some away calls it again.
LEMMA AwakeStep ==
  ASSUME QueueInvariant, Awake, [Next]_vars PROVE Awake'
<1>1. CASE kick' \/ phase' # "up"
  BY <1>1 DEF Awake
<1>2. CASE UNCHANGED <<job, queue, kick, phase>>
  BY <1>2 DEF Awake, NothingEligible, Eligible, ActiveJobs
<1>3. CASE DispatchNone
  <2>1. NothingEligible /\ UNCHANGED <<job, queue>>
    BY <1>3, DispatchNoneQueue DEF DispatchNone
  <2>. QED BY <2>1 DEF Awake, NothingEligible, Eligible, ActiveJobs
<1>4. CASE \E i \in DOMAIN queue : DispatchSpawn(i) \/ DispatchFails(i)
  BY <1>1, <1>4 DEF DispatchSpawn, DispatchFails, Dispatching
<1>5. CASE \/ \E S \in (SUBSET Lanes) \ {{}}, key \in BatchKeys : CreateTaskBatchJob(S, key)
           \/ \E l \in Lanes, key \in Requests : CreateRegisteredTaskJob(l, key)
           \/ \E p \in Parents : CancelParent(p)
           \/ \E c \in Children : CancelChild(c) \/ WatchOrphan(c)
           \/ \E c \in Children, outcome \in Outcomes : Finish(c, outcome)
           \/ Load
  BY <1>1, <1>5 DEF CreateTaskBatchJob, CreateRegisteredTaskJob, CancelParent, CancelChild,
                    WatchOrphan, Finish, Load
<1>6. CASE PrepareForRestart \/ Exit \/ Crash
  BY <1>1, <1>6 DEF PrepareForRestart, Exit, Crash, NoMemory
<1>7. CASE \/ \E c \in Children : RefreshRunningJob(c)
           \/ \E p \in Parents : RefreshParent(p)
           \/ \E key \in Configs : ListPendingJobs(key)
           \/ \E x \in live : ProcessExit(x)
           \/ Flush
           \/ UNCHANGED vars
  BY <1>2, <1>7 DEF RefreshRunningJob, RefreshParent, ListPendingJobs, ProcessExit, Flush, vars, memory
<1>. QED BY <1>3, <1>4, <1>5, <1>6, <1>7 DEF Next

\* A queued child that could start never waits for nobody: some thread will look at it.
THEOREM WakeupsReach == Spec => []NoLostWakeup
<1>1. Init => Awake
  BY DEF Init, Awake, NothingEligible
<1>2. QueueInvariant /\ Awake /\ [Next]_vars => Awake'
  BY AwakeStep
<1>3. Awake => NoLostWakeup
  BY DEF Awake, NoLostWakeup, NothingEligible
<1>. QED BY <1>1, <1>2, <1>3, QueueKept, PTL DEF Spec

-------------------------------------------------------------------------------
(* Lanes are first in, first out *)

InLaneOrder(q) ==
    \A i, j \in DOMAIN q : i < j /\ Lane(q[i]) = Lane(q[j]) => q[i][1] < q[j][1]
RunningFirst ==
    \A c, d \in Children :
        job[c].status = "running" /\ job[d].status = "queued" /\ Lane(c) = Lane(d) => c[1] < d[1]

\* The queue has each lane in the order of submission, behind the child of it that runs; a
\* service that was stopped has left such a queue, and all of it, in the file.
LaneInvariant ==
    /\ Running => InLaneOrder(queue) /\ RunningFirst
    /\ ~Running => InLaneOrder(diskQueue) /\ QueueOf(diskQueue, diskJob)

LEMMA KeptInLanes ==
  ASSUME NEW q \in Seq(Children), NEW S, InLaneOrder(q) PROVE InLaneOrder(Kept(q, S))
<1>. DEFINE k == Kept(q, S)
<1>1. PICK e : Selection(e, k, q, S)
  BY KeptPositions
<1>. HIDE DEF k
<1>. SUFFICES ASSUME NEW i \in DOMAIN k, NEW j \in DOMAIN k, i < j, Lane(k[i]) = Lane(k[j])
              PROVE  k[i][1] < k[j][1]
  BY DEF InLaneOrder, k
<1>2. e[i] \in DOMAIN q /\ e[j] \in DOMAIN q /\ e[i] < e[j] /\ k[i] = q[e[i]] /\ k[j] = q[e[j]]
  BY <1>1 DEF Selection
<1>. QED BY <1>2 DEF InLaneOrder

LEMMA JoinedInLanes ==
  ASSUME NEW s \in Seq(Children), NEW t \in Seq(Children), InLaneOrder(s), InLaneOrder(t),
         \A c, d \in Children : Lists(s, c) /\ Lists(t, d) /\ Lane(c) = Lane(d) => c[1] < d[1]
  PROVE  InLaneOrder(s \o t)
<1>. DEFINE u == s \o t
<1>1. /\ u \in Seq(Children) /\ Len(s) \in Nat /\ Len(t) \in Nat
      /\ DOMAIN u = 1..(Len(s) + Len(t)) /\ DOMAIN s = 1..Len(s) /\ DOMAIN t = 1..Len(t)
  OBVIOUS
<1>2. \A i \in DOMAIN u : \/ i \in DOMAIN s /\ u[i] = s[i]
                          \/ i - Len(s) \in DOMAIN t /\ u[i] = t[i - Len(s)]
  BY <1>1
<1>. HIDE DEF u
<1>. SUFFICES ASSUME NEW i \in DOMAIN u, NEW j \in DOMAIN u, i < j, Lane(u[i]) = Lane(u[j])
              PROVE  u[i][1] < u[j][1]
  BY DEF InLaneOrder, u
<1>3. CASE i \in DOMAIN s /\ u[i] = s[i] /\ j \in DOMAIN s /\ u[j] = s[j]
  BY <1>3 DEF InLaneOrder
<1>4. CASE /\ i - Len(s) \in DOMAIN t /\ u[i] = t[i - Len(s)]
           /\ j - Len(s) \in DOMAIN t /\ u[j] = t[j - Len(s)]
  <2>1. i - Len(s) < j - Len(s)
    BY <1>1
  <2>. QED BY <1>4, <2>1 DEF InLaneOrder
<1>5. CASE i \in DOMAIN s /\ u[i] = s[i] /\ j - Len(s) \in DOMAIN t /\ u[j] = t[j - Len(s)]
  <2>1. u[i] \in Children /\ u[j] \in Children
    BY <1>1
  <2>2. Lists(s, u[i]) /\ Lists(t, u[j])
    BY <1>5 DEF Lists
  <2>. QED BY <2>1, <2>2
<1>6. CASE i - Len(s) \in DOMAIN t /\ j \in DOMAIN s
  <2>1. i > Len(s) /\ j <= Len(s)
    BY <1>1, <1>6
  <2>. QED BY <1>1, <2>1
<1>. QED BY <1>2, <1>3, <1>4, <1>5, <1>6

\* What starts is the first of its lane: an earlier one would have been selected.
LEMMA FirstOfLane ==
  ASSUME QueueInvariant, InLaneOrder(queue), NEW i \in DOMAIN queue, Selects(i),
         NEW d \in Children, job[d].status = "queued", d # queue[i], Lane(d) = Lane(queue[i])
  PROVE  queue[i][1] < d[1]
<1>1. PICK j \in DOMAIN queue : queue[j] = d
  BY DEF QueueInvariant, QueueOf, Lists
<1>2. i \in Nat /\ j \in Nat /\ i # j /\ 1 <= j
  BY <1>1 DEF QueueInvariant, QueueOf
<1>3. Eligible(d)
  BY DEF Selects, Eligible
<1>4. ~(j < i)
  <2>1. j < i => j \in 1..(i - 1)
    BY <1>2
  <2>. QED BY <1>1, <1>3, <2>1 DEF Selects
<1>5. i < j
  BY <1>2, <1>4
<1>. QED BY <1>1, <1>5 DEF InLaneOrder

\* A handler that adds nothing to the queue and starts nothing.
LEMMA LanesShrink ==
  ASSUME QueueInvariant, LaneInvariant, Running, Running',
         queue' = queue \/ \E S : queue' = Kept(queue, S),
         \A c \in Children : /\ job'[c].status = "running" => job[c].status = "running"
                             /\ job'[c].status = "queued" => job[c].status = "queued"
  PROVE  LaneInvariant'
<1>1. queue \in Seq(Children) /\ InLaneOrder(queue) /\ RunningFirst
  BY DEF QueueInvariant, QueueOf, LaneInvariant
<1>2. InLaneOrder(queue')
  BY <1>1, KeptInLanes
<1>3. RunningFirst'
  BY <1>1 DEF RunningFirst
<1>. QED BY <1>2, <1>3 DEF LaneInvariant, InLaneOrder

\* A submission: the children t of a new parent go behind all others.
LEMMA LanesGrow ==
  ASSUME RecordTypes, Unborn, QueueInvariant, LaneInvariant, Running, Running',
         NEW t \in Seq(Children), Distinct(t), queue' = queue \o t,
         \A c \in Children : Lists(t, c) => c[1] = made + 1,
         \A c \in Children : IF Lists(t, c) THEN job'[c].status = "queued" ELSE job'[c] = job[c]
  PROVE  LaneInvariant'
<1>1. queue \in Seq(Children) /\ InLaneOrder(queue) /\ RunningFirst
  BY DEF QueueInvariant, QueueOf, LaneInvariant
<1>2. \A c \in Children : c[1] \in Nat /\ made \in Nat
  BY CountAssumption DEF Children, Parents, RecordTypes
<1>3. \A c, d \in Children : job[c].status # "absent" /\ Lists(t, d) => c[1] < d[1]
  BY <1>2 DEF Unborn, NoJob
<1>4. InLaneOrder(t)
  <2>. SUFFICES ASSUME NEW i \in DOMAIN t, NEW j \in DOMAIN t, i < j, Lane(t[i]) = Lane(t[j])
                PROVE  FALSE
    BY DEF InLaneOrder
  <2>1. t[i] \in Children /\ t[j] \in Children /\ Lists(t, t[i]) /\ Lists(t, t[j])
    BY DEF Lists
  <2>2. t[i][1] = t[j][1]
    BY <2>1
  <2>3. t[i] = t[j]
    <3>1. \A c \in Children : \E p \in Parents, l \in Lanes : c = <<p, l>>
      BY DEF Children
    <3>2. PICK p \in Parents, l \in Lanes : t[i] = <<p, l>>
      BY <2>1, <3>1
    <3>3. PICK q \in Parents, m \in Lanes : t[j] = <<q, m>>
      BY <2>1, <3>1
    <3>. QED BY <2>1, <2>2, <3>2, <3>3 DEF Lane
  <2>4. i = j /\ i \in Nat
    BY <2>3 DEF Distinct
  <2>. QED BY <2>4
<1>5. \A c, d \in Children : Lists(queue, c) /\ Lists(t, d) /\ Lane(c) = Lane(d) => c[1] < d[1]
  BY <1>3 DEF QueueInvariant, QueueOf
<1>6. InLaneOrder(queue')
  BY <1>1, <1>4, <1>5, JoinedInLanes
<1>7. RunningFirst'
  BY <1>1, <1>3 DEF RunningFirst
<1>. QED BY <1>6, <1>7 DEF LaneInvariant, InLaneOrder

LEMMA CreateLanes ==
  ASSUME RecordTypes, Unborn, QueueInvariant, LaneInvariant,
         \/ \E S \in (SUBSET Lanes) \ {{}}, key \in BatchKeys : CreateTaskBatchJob(S, key)
         \/ \E l \in Lanes, key \in Requests : CreateRegisteredTaskJob(l, key)
  PROVE  LaneInvariant'
<1>1. ASSUME NEW S \in (SUBSET Lanes) \ {{}}, NEW key \in BatchKeys, CreateTaskBatchJob(S, key)
      PROVE  LaneInvariant'
  <2>1. PICK p \in Parents : p = made + 1
    BY <1>1, NewParent DEF CreateTaskBatchJob, RecordTypes
  <2>. DEFINE kids == {p} \X S
  <2>2. PICK s \in Orders(kids) : queue' = queue \o s
    BY <1>1, <2>1 DEF CreateTaskBatchJob
  <2>3. /\ Running /\ Running'
        /\ \A c \in Children : job'[c] = IF c \in kids THEN NewJob ELSE job[c]
    BY <1>1, <2>1 DEF CreateTaskBatchJob, Locked, Running
  <2>4. kids \in SUBSET Children /\ \A c \in kids : c[1] = made + 1
    BY <2>1 DEF Children
  <2>5. s \in Seq(Children) /\ Distinct(s) /\ \A c : Lists(s, c) <=> c \in kids
    BY <2>4, OrderList
  <2>6. \A c \in Children : IF Lists(s, c) THEN job'[c].status = "queued" ELSE job'[c] = job[c]
    BY <2>3, <2>5 DEF NewJob, NoJob
  <2>. HIDE DEF kids
  <2>. QED BY <2>2, <2>3, <2>4, <2>5, <2>6, LanesGrow
<1>2. ASSUME NEW l \in Lanes, NEW key \in Requests, CreateRegisteredTaskJob(l, key)
      PROVE  LaneInvariant'
  <2>1. PICK p \in Parents : p = made + 1
    BY <1>2, NewParent DEF CreateRegisteredTaskJob, RecordTypes
  <2>. DEFINE x == <<p, l>>
  <2>2. PICK k \in Children : k = x /\ k[1] = made + 1
    <3>1. x \in Children /\ x[1] = p
      BY DEF Children
    <3>. QED BY <2>1, <3>1
  <2>3. /\ Running /\ Running' /\ queue' = Append(queue, k)
        /\ \A c \in Children : job'[c] = IF c = k THEN NewJob ELSE job[c]
    BY <1>2, <2>1, <2>2 DEF CreateRegisteredTaskJob, RecordTypes, Locked, Running
  <2>4. queue' = queue \o <<k>>
    BY <2>3 DEF QueueInvariant, QueueOf
  <2>5. <<k>> \in Seq(Children) /\ Distinct(<<k>>) /\ \A c : Lists(<<k>>, c) <=> c = k
    BY OneList
  <2>6. \A c \in Children : IF Lists(<<k>>, c) THEN job'[c].status = "queued" ELSE job'[c] = job[c]
    BY <2>3, <2>5 DEF NewJob, NoJob
  <2>. QED BY <2>2, <2>3, <2>4, <2>5, <2>6, LanesGrow
<1>. QED BY <1>1, <1>2

LEMMA CancelLanes ==
  ASSUME QueueInvariant, LaneInvariant,
         (\E p \in Parents : CancelParent(p)) \/ (\E c \in Children : CancelChild(c))
  PROVE  LaneInvariant'
<1>1. Running /\ Running'
  BY DEF CancelParent, CancelChild, Locked, Running
<1>2. \A c \in Children : Cancelled(c) = job[c] \/ Cancelled(c).status \notin {"running", "queued"}
  BY DEF Cancelled
<1>3. queue' = queue \/ \E S : queue' = Kept(queue, S)
  BY DEF CancelParent, CancelChild, CancelChildren
<1>4. \A c \in Children : job'[c] = job[c] \/ job'[c] = Cancelled(c)
  <2>1. job' = job \/ \E T : job' = CancelledJobs(T)
    BY DEF CancelParent, CancelChild, CancelChildren
  <2>. QED BY <2>1 DEF CancelledJobs
<1>5. \A c \in Children : /\ job'[c].status = "running" => job[c].status = "running"
                          /\ job'[c].status = "queued" => job[c].status = "queued"
  BY <1>2, <1>4
<1>. QED BY <1>1, <1>3, <1>5, LanesShrink

LEMMA DispatchLanes ==
  ASSUME RecordTypes, QueueInvariant, LaneInvariant,
         NEW i \in DOMAIN queue, DispatchSpawn(i) \/ DispatchFails(i)
  PROVE  LaneInvariant'
<1>1. PICK k \in Children : k = queue[i] /\ job[k].status = "queued" /\ Selects(i)
  BY DEF DispatchSpawn, DispatchFails, Selects, Eligible
<1>2. \A c \in Children : c # k => job'[c] = job[c]
  BY <1>1 DEF DispatchSpawn, DispatchFails, RecordTypes
<1>3. Running /\ Running' /\ queue \in Seq(Children) /\ \E S : queue' = Kept(queue, S)
  <2>1. Running /\ Running' /\ queue \in Seq(Children)
    BY DEF DispatchSpawn, DispatchFails, Dispatching, Locked, Running, QueueInvariant, QueueOf
  <2>2. Pruned(i) = queue
    BY <2>1, NothingPruned DEF QueueInvariant
  <2>. QED BY <2>1, <2>2 DEF DispatchSpawn, DispatchFails
<1>4. InLaneOrder(queue) /\ RunningFirst
  BY <1>3 DEF LaneInvariant
<1>5. InLaneOrder(queue')
  BY <1>3, <1>4, KeptInLanes
<1>6. job'[k].status # "queued"
  <2>1. job[k] \in JobRecord /\ job \in [Children -> JobRecord]
    BY DEF RecordTypes
  <2>2. CASE DispatchSpawn(i)
    <3>1. job'[k] = [job[k] EXCEPT !.status = "running", !.started = TRUE, !.pid = epoch]
      BY <1>1, <2>1, <2>2 DEF DispatchSpawn
    <3>. QED BY <2>1, <3>1 DEF JobRecord
  <2>3. CASE DispatchFails(i)
    <3>1. job'[k] = [job[k] EXCEPT !.status = "failed"]
      BY <1>1, <2>1, <2>3 DEF DispatchFails
    <3>. QED BY <2>1, <3>1 DEF JobRecord
  <2>. QED BY <2>2, <2>3
<1>7. \A d \in Children : job[d].status = "queued" /\ d # k /\ Lane(d) = Lane(k) => k[1] < d[1]
  BY <1>1, <1>4, FirstOfLane
<1>8. RunningFirst'
  <2>. SUFFICES ASSUME NEW c \in Children, NEW d \in Children, job'[c].status = "running",
                       job'[d].status = "queued", Lane(c) = Lane(d)
                PROVE  c[1] < d[1]
    BY DEF RunningFirst
  <2>1. d # k /\ job[d].status = "queued"
    BY <1>2, <1>6
  <2>2. CASE c = k
    BY <1>7, <2>1, <2>2
  <2>3. CASE c # k
    BY <1>2, <1>4, <2>1, <2>3 DEF RunningFirst
  <2>. QED BY <2>2, <2>3
<1>. QED BY <1>3, <1>5, <1>8 DEF LaneInvariant, InLaneOrder

LEMMA FinishLanes ==
  ASSUME RecordTypes, HandlesActive, QueueInvariant, LaneInvariant,
         NEW k \in Children, NEW outcome \in Outcomes, Finish(k, outcome)
  PROVE  LaneInvariant'
<1>1. Running /\ Running' /\ queue' = queue
  BY DEF Finish, Locked, Running
<1>2. \A c \in Children : job'[c] = job[c] \/ job'[c].status = FinalStatus(k, outcome)
  BY DEF Finish, RecordTypes, JobRecord
<1>3. FinalStatus(k, outcome) \notin {"queued", "running"}
  BY OutcomeAssumption DEF FinalStatus
<1>. QED BY <1>1, <1>2, <1>3, LanesShrink

\* What runs is put in front of what waits, and of each lane at most one runs.
LEMMA PrepareLanes ==
  ASSUME RecordTypes, LaneExclusive, RunningHeld, QueueInvariant, LaneInvariant, PrepareForRestart
  PROVE  LaneInvariant'
<1>. DEFINE running == {c \in handles : job[c].status = "running"}
            kept    == Kept(queue, Children \ running)
<1>1. running \in SUBSET Children /\ Running /\ Running'
  BY DEF PrepareForRestart, RecordTypes, Locked, Running
<1>2. \A c \in Children : job'[c] = IF c \in running THEN Requeued(job[c]) ELSE job[c]
  BY DEF PrepareForRestart
<1>3. queue \in Seq(Children) /\ InLaneOrder(queue) /\ RunningFirst
  BY <1>1 DEF QueueInvariant, QueueOf, LaneInvariant
<1>4. RunningFirst'
  <2>1. \A c \in Children : job[c].status = "running" => c \in running
    BY DEF RunningHeld
  <2>2. \A c \in Children : job'[c].status # "running"
    BY <1>2, <2>1 DEF Requeued, RecordTypes, JobRecord
  <2>. QED BY <2>2 DEF RunningFirst
<1>5. CASE running = {}
  BY <1>1, <1>3, <1>4, <1>5 DEF PrepareForRestart, LaneInvariant, InLaneOrder
<1>6. CASE running # {}
  <2>1. PICK s \in Orders(running) : queue' = s \o kept
    BY <1>6 DEF PrepareForRestart, PutBack
  <2>2. s \in Seq(Children) /\ Distinct(s) /\ \A c : Lists(s, c) <=> c \in running
    BY <1>1, OrderList
  <2>3. \A c \in running : job[c].status = "running" /\ c \in Occupied
    BY <1>1 DEF Occupied, Occupies, ProcessActive
  <2>4. kept \in Seq(Children) /\ InLaneOrder(kept) /\ \A c : Lists(kept, c) => Lists(queue, c)
    BY <1>3, KeptInLanes, KeptList
  <2>. HIDE DEF running, kept
  <2>5. InLaneOrder(s)
    <3>. SUFFICES ASSUME NEW i \in DOMAIN s, NEW j \in DOMAIN s, i < j, Lane(s[i]) = Lane(s[j])
                  PROVE  FALSE
      BY DEF InLaneOrder
    <3>1. s[i] \in running /\ s[j] \in running
      BY <2>2 DEF Lists
    <3>2. s[i] = s[j]
      BY <2>3, <3>1 DEF LaneExclusive
    <3>3. i = j /\ i \in Nat
      BY <2>2, <3>2 DEF Distinct
    <3>. QED BY <3>3
  <2>6. \A c, d \in Children : Lists(s, c) /\ Lists(kept, d) /\ Lane(c) = Lane(d) => c[1] < d[1]
    BY <1>3, <2>2, <2>3, <2>4 DEF RunningFirst, QueueInvariant, QueueOf
  <2>7. InLaneOrder(queue')
    BY <2>1, <2>2, <2>4, <2>5, <2>6, JoinedInLanes
  <2>. QED BY <1>1, <1>4, <2>7 DEF LaneInvariant, InLaneOrder
<1>. QED BY <1>5, <1>6

\* The service stops with nothing left to write.
LEMMA ExitLanes ==
  ASSUME QueueInvariant, LaneInvariant, DurableWhenIdle, Exit PROVE LaneInvariant'
<1>1. Running /\ ~Running' /\ diskQueue' = diskQueue /\ diskJob' = diskJob
  BY DEF Exit, NoMemory, Locked, Running, disk
<1>2. diskQueue = queue /\ diskJob = job
  BY DEF Exit, DurableWhenIdle
<1>. QED BY <1>1, <1>2 DEF LaneInvariant, QueueInvariant, QueueOf, InLaneOrder, Distinct, Lists

\* It starts again with the queue of the file and nothing else.
LEMMA LoadLanes ==
  ASSUME RecordTypes, LaneInvariant, \A c \in Children : diskJob[c].status # "running", Load
  PROVE  LaneInvariant'
<1>. DEFINE queued  == {c \in Children : job'[c].status = "queued"}
            ordered == Kept(diskQueue, queued)
<1>1. ~Running /\ Running'
  BY DEF Load, Running
<1>2. InLaneOrder(diskQueue) /\ QueueOf(diskQueue, diskJob) /\ diskQueue \in Seq(Children)
  BY <1>1 DEF LaneInvariant, QueueOf
<1>3. \A c \in Children : job'[c] = Reloaded(c, diskJob[c]) /\ diskJob[c] \in JobRecord
  BY DEF Load, RecordTypes
<1>4. \A c \in Children : /\ job'[c].status # "running"
                          /\ job'[c].status = "queued" <=> diskJob[c].status = "queued"
  BY <1>3 DEF Reloaded, JobRecord
<1>5. \A c \in queued : Lists(ordered, c)
  BY <1>2, <1>4, KeptList DEF QueueOf
<1>6. PICK rest \in Orders(queued \ ToSet(ordered)) : queue' = ordered \o rest
  BY DEF Load, LoadedQueues, ByCreation
<1>7. queued \ ToSet(ordered) = {}
  BY <1>5 DEF ToSet, Lists
<1>8. rest = <<>>
  <2>1. rest \in Seq(Children) /\ \A c : ~Lists(rest, c)
    BY <1>6, <1>7, OrderList
  <2>2. DOMAIN rest = 1..Len(rest) /\ Len(rest) \in Nat /\ ~(1 \in DOMAIN rest)
    BY <2>1 DEF Lists
  <2>. QED BY <2>1, <2>2, EmptySeq
<1>9. ordered \in Seq(Children) /\ InLaneOrder(ordered)
  BY <1>2, KeptList, KeptInLanes
<1>. HIDE DEF ordered
<1>10. queue' = ordered
  BY <1>6, <1>8, <1>9, ConcatEmptySeq
<1>. QED BY <1>1, <1>4, <1>9, <1>10 DEF LaneInvariant, RunningFirst, InLaneOrder

LEMMA LaneStep ==
  ASSUME MaxCrashes = 0, RecordTypes, SlotInvariant, HandlesActive, ProcessInvariant,
         DurableWhenIdle, QueueInvariant, LaneInvariant, [Next]_vars
  PROVE  LaneInvariant'
<1>1. Unborn /\ LaneExclusive /\ (io # <<>> => Running)
  BY DEF SlotInvariant, DownKnowsNothing
<1>2. CASE \/ \E c \in Children : RefreshRunningJob(c)
           \/ \E p \in Parents : RefreshParent(p)
           \/ \E key \in Configs : ListPendingJobs(key)
           \/ DispatchNone
  <2>1. Running /\ Running' /\ UNCHANGED <<job, queue>>
    BY <1>2, DispatchNoneQueue
    DEF RefreshRunningJob, RefreshParent, ListPendingJobs, DispatchNone, Dispatching, Locked, Running
  <2>. QED BY <2>1, LanesShrink
<1>3. CASE (\E x \in live : ProcessExit(x)) \/ UNCHANGED vars
  <2>1. UNCHANGED <<job, queue, diskJob, diskQueue, phase>>
    BY <1>3 DEF ProcessExit, vars, memory, disk
  <2>. QED BY <2>1 DEF LaneInvariant, Running, RunningFirst, InLaneOrder, QueueOf, Distinct, Lists
<1>4. CASE Flush
  <2>1. Running /\ Running' /\ UNCHANGED <<job, queue>>
    BY <1>1, <1>4 DEF Flush, memory, Running
  <2>. QED BY <2>1, LanesShrink
<1>5. CASE PrepareForRestart
  <2>1. RunningHeld
    BY <1>5 DEF ProcessInvariant, PrepareForRestart, Locked, Running
  <2>. QED BY <1>1, <1>5, <2>1, PrepareLanes
<1>6. CASE Load
  <2>1. \A c \in Children : diskJob[c].status # "running"
    BY <1>6 DEF ProcessInvariant, Load, Running
  <2>. QED BY <1>6, <2>1, LoadLanes
<1>7. CASE Crash
  BY <1>7 DEF Crash, RecordTypes
<1>8. CASE \E c \in Children : WatchOrphan(c)
  BY <1>8 DEF WatchOrphan, ProcessInvariant, RunningHeld, Locked, Running
<1>. QED BY <1>1, <1>2, <1>3, <1>4, <1>5, <1>6, <1>7, <1>8, CreateLanes, CancelLanes,
            DispatchLanes, FinishLanes, ExitLanes
         DEF Next

\* Nothing but a dispatch makes a queued child run.
LEMMA OnlySpawnStarts ==
  ASSUME RecordTypes, SlotInvariant, [Next]_vars, NEW c \in Children,
         job[c].status = "queued", job'[c].status = "running"
  PROVE  \E i \in DOMAIN queue : DispatchSpawn(i) /\ c = queue[i]
<1>1. CASE \E i \in DOMAIN queue : DispatchSpawn(i)
  BY <1>1 DEF DispatchSpawn, RecordTypes
<1>2. job[c] \in JobRecord /\ Requeued(job[c]).status = "queued"
      /\ Cancelled(c).status # "running" /\ NewJob.status = "queued" /\ NoJob.status = "absent"
  BY DEF Requeued, RecordTypes, JobRecord, Cancelled, NewJob, NoJob
<1>3. CASE \/ \E S \in (SUBSET Lanes) \ {{}}, key \in BatchKeys : CreateTaskBatchJob(S, key)
           \/ \E l \in Lanes, key \in Requests : CreateRegisteredTaskJob(l, key)
  <2>1. job'[c] = job[c] \/ job'[c] = NewJob
    BY <1>3 DEF CreateTaskBatchJob, CreateRegisteredTaskJob, RecordTypes
  <2>. QED BY <1>2, <2>1
<1>4. CASE (\E p \in Parents : CancelParent(p)) \/ (\E d \in Children : CancelChild(d))
  <2>1. job' = job \/ \E T : job' = CancelledJobs(T)
    BY <1>4 DEF CancelParent, CancelChild, CancelChildren
  <2>2. job'[c] = job[c] \/ job'[c] = Cancelled(c)
    BY <2>1 DEF CancelledJobs
  <2>. QED BY <1>2, <2>2
<1>5. CASE \E i \in DOMAIN queue : DispatchFails(i)
  <2>1. job'[c] = job[c] \/ job'[c].status = "failed"
    BY <1>5 DEF DispatchFails, RecordTypes, JobRecord
  <2>. QED BY <2>1
<1>6. CASE \E d \in Children, outcome \in Outcomes : Finish(d, outcome)
  <2>1. PICK outcome \in Outcomes, d \in Children : Finish(d, outcome)
    BY <1>6
  <2>2. job'[c] = job[c] \/ job'[c].status = FinalStatus(d, outcome)
    BY <2>1 DEF Finish, RecordTypes, JobRecord
  <2>3. FinalStatus(d, outcome) # "running"
    BY OutcomeAssumption DEF FinalStatus
  <2>. QED BY <2>2, <2>3
<1>7. CASE (\E d \in Children : WatchOrphan(d)) \/ PrepareForRestart
  <2>1. job'[c] = job[c] \/ job'[c] = Requeued(job[c])
    BY <1>7 DEF WatchOrphan, PrepareForRestart, RecordTypes
  <2>. QED BY <1>2, <2>1
<1>8. CASE Exit \/ Crash
  BY <1>2, <1>8 DEF Exit, Crash, NoMemory
<1>9. CASE Load
  BY <1>2, <1>9 DEF Load, SlotInvariant, DownKnowsNothing, Running
<1>10. CASE \/ \E d \in Children : RefreshRunningJob(d)
            \/ \E p \in Parents : RefreshParent(p)
            \/ \E key \in Configs : ListPendingJobs(key)
            \/ \E x \in live : ProcessExit(x)
            \/ DispatchNone \/ Flush \/ UNCHANGED vars
  BY <1>10 DEF RefreshRunningJob, RefreshParent, ListPendingJobs, ProcessExit, DispatchNone,
               Flush, vars, memory
<1>. QED BY <1>1, <1>3, <1>4, <1>5, <1>6, <1>7, <1>8, <1>9, <1>10 DEF Next

LEMMA LanesKept ==
  ASSUME MaxCrashes = 0 PROVE Spec => []LaneInvariant
<1>1. Init => LaneInvariant
  BY DEF Init, LaneInvariant, Running, InLaneOrder, RunningFirst, NoJob
<1>2. RecordTypes /\ SlotInvariant /\ OutcomeInvariant /\ ProcessInvariant /\ DurableWhenIdle
        /\ QueueInvariant /\ LaneInvariant /\ [Next]_vars => LaneInvariant'
  BY LaneStep DEF OutcomeInvariant
<1>. QED BY <1>1, <1>2, RecordsTyped, SlotsKept, OutcomesKept, ProcessesKept, RecordsDurable,
            QueueKept, PTL DEF Spec

\* When the service is only ever stopped and never dies, the children of a lane start in the
\* order in which their parents were submitted, across any number of restarts: what was
\* running is put back in front, and the file has the whole queue when the service stops.
THEOREM LanesAreFIFO ==
  ASSUME MaxCrashes = 0 PROVE Spec => LaneFIFO
<1>1. RecordTypes /\ SlotInvariant /\ QueueInvariant /\ LaneInvariant /\ [Next]_vars
        => [\A c \in Children : job[c].status = "queued" /\ job'[c].status = "running" =>
              \A d \in Children : Lane(d) = Lane(c) /\ d[1] < c[1] => job[d].status # "queued"]_vars
  <2>. SUFFICES ASSUME RecordTypes, SlotInvariant, QueueInvariant, LaneInvariant, [Next]_vars,
                       NEW c \in Children, job[c].status = "queued", job'[c].status = "running",
                       NEW d \in Children, Lane(d) = Lane(c), d[1] < c[1], job[d].status = "queued"
                PROVE  FALSE
    OBVIOUS
  <2>1. PICK i \in DOMAIN queue : DispatchSpawn(i) /\ c = queue[i]
    BY OnlySpawnStarts
  <2>2. Selects(i) /\ InLaneOrder(queue)
    BY <2>1 DEF DispatchSpawn, Dispatching, Locked, LaneInvariant, Running
  <2>3. c[1] \in Nat /\ d[1] \in Nat
    BY CountAssumption DEF Children, Parents
  <2>4. c[1] < d[1]
    BY <2>1, <2>2, <2>3, FirstOfLane
  <2>. QED BY <2>3, <2>4
<1>. QED BY <1>1, RecordsTyped, SlotsKept, QueueKept, LanesKept, PTL DEF Spec, LaneFIFO
===============================================================================
