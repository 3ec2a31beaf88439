---------------------------- MODULE ScheduleManager ----------------------------
(***************************************************************************)
(* service/schedule_manager.py and service/sync_config_manager.py: each    *)
(* sync config owns a schedule; a poller thread submits the configs that   *)
(* are due, while the threads of service/api.py switch schedules on and    *)
(* off, edit them, run configs by hand and delete them.                    *)
(*                                                                         *)
(* Abstractions.                                                           *)
(*  - The config manager's lock makes each of its methods one step, its    *)
(*    files are replaced atomically: cfg is memory and file in one.        *)
(*    Between two such calls a thread holds nothing and may be overtaken.  *)
(*  - Time is counted in slots; a schedule is a time of a day of Day       *)
(*    slots.  Weekly and interval schedules are left out, and so is what   *)
(*    only describes a config or its last trigger: tasks, names, times and *)
(*    the last job, which mark_started notes.                              *)
(*  - A poll reads the clock and the configs in one step.                  *)
(*  - The job manager is external here (see JobManager): a config has at   *)
(*    most one active job, and creating a second is refused.  A new job    *)
(*    gets the next number.                                                *)
(***************************************************************************)
EXTENDS Integers, Sequences, FiniteSets, SequencesExt

CONSTANTS
    Configs,     \* sync configs that ever exist
    Threads,     \* API requests served at the same time
    Day,         \* slots of a day
    MaxTime,     \* bound: the last slot reached
    MaxJobs,     \* bound: jobs created
    MaxCalls,    \* bound: API requests
    MaxCrashes   \* bound: ends of the service, abrupt or not

Settings == 0..(Day - 1)
Slots    == 0..(MaxTime + Day)    \* 0: no next run, the code's empty string

ASSUME ScheduleAssumption ==
    /\ Day \in Nat \ {0} /\ IsFiniteSet(Configs)
    /\ MaxTime \in Nat \ {0} /\ MaxJobs \in Nat /\ MaxCalls \in Nat /\ MaxCrashes \in Nat

VARIABLES
    now,       \* the clock
    cfg,       \* the configs and their schedules
    job,       \* the active job of each config
    made,      \* jobs created
    poll,      \* the poller thread
    call,      \* the API threads
    fired,     \* history: slots that created a job
    repeats,   \* history: jobs created for a slot in fired
    overdue,   \* history: next runs written by a request when they had passed already
    off,       \* history: configs a request switched off or deleted last
    late,      \* history: scheduled jobs a config in off got
    raced,     \* history: configs edited while a thread was about to write a next run
               \* computed from what it had read before
    calls, crashes

history == <<fired, repeats, overdue, off, late, raced>>
bounds  == <<calls, crashes>>
vars    == <<now, cfg, job, made, poll, call, history, bounds>>

Config == [life : {"unborn", "live", "deleted"}, enabled : BOOLEAN, setting : Settings,
           next : Slots]
Job    == [id : 0..MaxJobs, status : {"none", "queued", "running"}, scheduled : BOOLEAN]
Poll   == [pc : {"wait", "enqueue", "record"}, now : 0..MaxTime,
           seen : [Configs -> Config], repair : SUBSET Configs, due : Seq(Configs)]

NewConfig == [life |-> "unborn", enabled |-> FALSE, setting |-> 0, next |-> 0]
NoJob     == [id |-> 0, status |-> "none", scheduled |-> FALSE]
Waiting   == [pc |-> "wait", now |-> 0, seen |-> [c \in Configs |-> NewConfig],
              repair |-> {}, due |-> <<>>]
Idle      == [pc |-> "idle"]

\* The types; a schedule that is off has no next run.
TypeOK ==
    /\ now \in 0..MaxTime /\ made \in 0..MaxJobs
    /\ cfg \in [Configs -> Config] /\ \A c \in Configs : cfg[c].next # 0 => cfg[c].enabled
    /\ job \in [Configs -> Job]
    /\ poll \in Poll
    /\ \A r \in Threads : call[r].pc \in {"idle", "on", "edit", "off", "cancelled",
                                          "run", "delete"}
    /\ fired \subseteq (Configs \X Slots) /\ repeats \in Nat /\ overdue \in 0..MaxCalls
    /\ off \subseteq Configs /\ late \in [Configs -> Nat] /\ raced \subseteq Configs
    /\ calls \in 0..MaxCalls /\ crashes \in 0..MaxCrashes

-------------------------------------------------------------------------------
(* Helpers *)

\* Mutant: the time of the day, today or not.
MutantNextRun(s, t) ==
    CHOOSE n \in t..(t + Day - 1) : n % Day = s

\* compute_next_run_at for an enabled daily schedule: the first time s after t.
NextRun(s, t) == CHOOSE n \in (t + 1)..(t + Day) : n % Day = s

Exists(c) == cfg[c].life = "live"
Due(c)    == Exists(c) /\ cfg[c].enabled /\ cfg[c].next <= now

\* find_active_config_job
Active(c) == job[c].status # "none"

\* Mutant: update_schedule is given the whole schedule that was read.
MutantUpdated(c, n) ==
    [cfg EXCEPT ![c].next = n, ![c].enabled = poll.seen[c].enabled]

\* Mutant: a schedule that is off keeps the next run it is given.
MutantKept(c, n) == [cfg EXCEPT ![c].next = n]

\* update_schedule with a new next_run_at: _normalize_schedule empties it when the
\* schedule is off.
Updated(c, n) == [cfg EXCEPT ![c].next = IF cfg[c].enabled THEN n ELSE 0]

\* The sorted list of the due configs: by next_run_at, then by id.
DueOrders(S) ==
    {s \in [1..Cardinality(S) -> S] :
        /\ Range(s) = S
        /\ \A i, j \in DOMAIN s : i < j => cfg[s[i]].next <= cfg[s[j]].next}

\* Some thread will write a next run of c computed from what it has read of it.
BeingWritten(c) ==
    \/ poll.pc # "wait" /\ (c \in poll.repair \/ c \in Range(poll.due))
    \/ \E r \in Threads : call[r].pc = "on" /\ call[r].c = c

\* Mutant: the next run of an edited schedule follows the settings before the edit.
MutantNextAfterEdit(c, s) == NextRun(cfg[c].setting, now)

\* The next run of c edited to s, computed from the merged settings.
NextAfterEdit(c, s) == NextRun(s, now)

\* A request writes next run n of a live config.
CountOverdue(c, n) == overdue' = IF Exists(c) /\ n <= now THEN overdue + 1 ELSE overdue

\* create_task_batch_job, when the config has no active job.
Create(c, scheduled) ==
    /\ ~Active(c) /\ made < MaxJobs
    /\ made' = made + 1
    /\ job' = [job EXCEPT ![c] = [id |-> made + 1, status |-> "queued",
                                  scheduled |-> scheduled]]

-------------------------------------------------------------------------------
(* The poller: run_due_schedules *)

\* list_configs, and the selection of what is due, from copies.
PollStart ==
    LET due == {c \in Configs : Due(c)}
    IN  /\ poll.pc = "wait" /\ due # {}
        /\ \E s \in DueOrders({c \in due : cfg[c].next # 0}) :
             poll' = [pc |-> "enqueue", now |-> now, due |-> s,
                      seen |-> [c \in Configs |-> IF c \in due THEN cfg[c] ELSE NewConfig],
                      repair |-> {c \in due : cfg[c].next = 0}]
        /\ UNCHANGED <<now, cfg, job, made, call, history, bounds>>

\* An enabled schedule without a next run gets one; a config deleted meanwhile raises
\* KeyError, which ends the poll.
Repair(c) ==
    /\ poll.pc = "enqueue" /\ c \in poll.repair
    /\ IF Exists(c)
       THEN /\ cfg' = Updated(c, NextRun(poll.seen[c].setting, poll.now))
            /\ poll' = [poll EXCEPT !.repair = @ \ {c}]
       ELSE poll' = Waiting /\ UNCHANGED cfg
    /\ UNCHANGED <<now, job, made, call, history, bounds>>

\* _enqueue_due_config: neither the switch nor the config is looked at again.
EnqueueCreate ==
    LET c    == Head(poll.due)
        slot == <<c, poll.seen[c].next>>
    IN  /\ poll.pc = "enqueue" /\ poll.repair = {} /\ poll.due # <<>>
        /\ Create(c, TRUE)
        /\ poll' = [poll EXCEPT !.pc = "record"]
        /\ fired' = fired \union {slot}
        /\ repeats' = IF slot \in fired THEN repeats + 1 ELSE repeats
        /\ late' = IF c \in off THEN [late EXCEPT ![c] = @ + 1] ELSE late
        /\ UNCHANGED <<now, cfg, call, overdue, off, raced, bounds>>

\* Mutant: a coalesced slot stays.
MutantCoalesced == [poll EXCEPT !.pc = "enqueue", !.due = Tail(@)]

\* The poll goes on to _enqueue_due_config's last call.
Coalesced == [poll EXCEPT !.pc = "record"]

\* The config has an active job, at the first look or when the job is to be created.
EnqueueCoalesce ==
    /\ poll.pc = "enqueue" /\ poll.repair = {} /\ poll.due # <<>>
    /\ Active(Head(poll.due))
    /\ poll' = Coalesced
    /\ UNCHANGED <<now, cfg, job, made, call, history, bounds>>

\* The job cannot be created for another reason: the error is recorded.
EnqueueFail ==
    /\ poll.pc = "enqueue" /\ poll.repair = {} /\ poll.due # <<>>
    /\ ~Active(Head(poll.due))
    /\ poll' = [poll EXCEPT !.pc = "record"]
    /\ UNCHANGED <<now, cfg, job, made, call, history, bounds>>

\* The update that ends _enqueue_due_config, from the settings read at the start; its
\* KeyError ends the poll.
PollRecord ==
    LET c == Head(poll.due)
    IN  /\ poll.pc = "record"
        /\ IF Exists(c)
           THEN /\ cfg' = Updated(c, NextRun(poll.seen[c].setting, poll.now))
                /\ poll' = [poll EXCEPT !.pc = "enqueue", !.due = Tail(@)]
           ELSE poll' = Waiting /\ UNCHANGED cfg
        /\ UNCHANGED <<now, job, made, call, history, bounds>>

PollEnd ==
    /\ poll.pc = "enqueue" /\ poll.repair = {} /\ poll.due = <<>>
    /\ poll' = Waiting
    /\ UNCHANGED <<now, cfg, job, made, call, history, bounds>>

-------------------------------------------------------------------------------
(* The API threads *)

Begin(r, state) ==
    /\ call[r].pc = "idle" /\ calls < MaxCalls
    /\ calls' = calls + 1
    /\ call' = [call EXCEPT ![r] = state]

Return(r) == call' = [call EXCEPT ![r] = Idle]

\* create_config: a new config's schedule is off and has the default time.
CreateConfig(c) ==
    /\ cfg[c].life = "unborn" /\ calls < MaxCalls
    /\ calls' = calls + 1
    /\ cfg' = [cfg EXCEPT ![c].life = "live"]
    /\ UNCHANGED <<now, job, made, poll, call, history, crashes>>

\* set_enabled(True): the schedule is read and its next run computed ...
SwitchOn(r, c) ==
    /\ Exists(c) /\ ~cfg[c].enabled
    /\ Begin(r, [pc |-> "on", c |-> c, next |-> NextRun(cfg[c].setting, now)])
    /\ UNCHANGED <<now, cfg, job, made, poll, history, crashes>>

\* ... and then written.
SwitchedOn(r) ==
    LET c == call[r].c
    IN  /\ call[r].pc = "on"
        /\ cfg' = IF Exists(c) THEN [cfg EXCEPT ![c].enabled = TRUE, ![c].next = call[r].next]
                  ELSE cfg
        /\ IF Exists(c) THEN off' = off \ {c} /\ late' = [late EXCEPT ![c] = 0]
           ELSE UNCHANGED <<off, late>>
        /\ CountOverdue(c, call[r].next)
        /\ Return(r)
        /\ UNCHANGED <<now, job, made, poll, fired, repeats, raced, bounds>>

\* update_schedule: refused while the schedule is off; the request names all settings.
Edit(r, c, s) ==
    /\ Exists(c) /\ cfg[c].enabled
    /\ Begin(r, [pc |-> "edit", c |-> c, setting |-> s, next |-> NextAfterEdit(c, s)])
    /\ UNCHANGED <<now, cfg, job, made, poll, history, crashes>>

Edited(r) ==
    LET c == call[r].c
    IN  /\ call[r].pc = "edit"
        /\ cfg' = IF Exists(c)
                  THEN [Updated(c, call[r].next) EXCEPT ![c].setting = call[r].setting]
                  ELSE cfg
        /\ raced' = IF BeingWritten(c) THEN raced \union {c} ELSE raced \ {c}
        /\ CountOverdue(c, call[r].next)
        /\ Return(r)
        /\ UNCHANGED <<now, job, made, poll, fired, repeats, off, late, bounds>>

\* set_enabled(False): cancel_pending_jobs lists the queued job a schedule created,
SwitchOff(r, c) ==
    /\ Exists(c) /\ cfg[c].enabled
    /\ Begin(r, [pc |-> "off", c |-> c,
                 pending |-> IF job[c].status = "queued" /\ job[c].scheduled
                             THEN job[c].id ELSE 0])
    /\ UNCHANGED <<now, cfg, job, made, poll, history, crashes>>

\* cancels it (one that has started meanwhile is only told to stop),
CancelPending(r) ==
    LET c == call[r].c
    IN  /\ call[r].pc = "off"
        /\ job' = IF job[c].id = call[r].pending /\ job[c].status = "queued"
                  THEN [job EXCEPT ![c] = NoJob] ELSE job
        /\ call' = [call EXCEPT ![r].pc = "cancelled"]
        /\ UNCHANGED <<now, cfg, made, poll, history, bounds>>

\* and the switch is written.
SwitchedOff(r) ==
    LET c == call[r].c
    IN  /\ call[r].pc = "cancelled"
        /\ cfg' = IF Exists(c) THEN [cfg EXCEPT ![c].enabled = FALSE, ![c].next = 0] ELSE cfg
        /\ off' = off \union {c}
        /\ Return(r)
        /\ UNCHANGED <<now, job, made, poll, fired, repeats, overdue, late, raced, bounds>>

\* run_sync_config: get_config, then create_task_batch_job, which may be refused.
Run(r, c) ==
    /\ Exists(c)
    /\ Begin(r, [pc |-> "run", c |-> c])
    /\ UNCHANGED <<now, cfg, job, made, poll, history, crashes>>

RunCreate(r) ==
    LET c == call[r].c
    IN  /\ call[r].pc = "run"
        /\ Create(c, FALSE) \/ UNCHANGED <<job, made>>
        /\ Return(r)
        /\ UNCHANGED <<now, cfg, poll, history, bounds>>

\* delete_sync_config: refused while the config has an active job, which is asked
\* before the config is removed.
Delete(r, c) ==
    /\ Exists(c) /\ ~Active(c)
    /\ Begin(r, [pc |-> "delete", c |-> c])
    /\ UNCHANGED <<now, cfg, job, made, poll, history, crashes>>

Deleted(r) ==
    LET c == call[r].c
    IN  /\ call[r].pc = "delete"
        /\ cfg' = IF Exists(c) THEN [cfg EXCEPT ![c] = [NewConfig EXCEPT !.life = "deleted"]]
                  ELSE cfg
        /\ off' = off \union {c}
        /\ Return(r)
        /\ UNCHANGED <<now, job, made, poll, fired, repeats, overdue, late, raced, bounds>>

-------------------------------------------------------------------------------
(* The clock, the job manager and the end of the service *)

Tick == now < MaxTime /\ now' = now + 1
        /\ UNCHANGED <<cfg, job, made, poll, call, history, bounds>>

JobStarts(c) ==
    /\ job[c].status = "queued"
    /\ job' = [job EXCEPT ![c].status = "running"]
    /\ UNCHANGED <<now, cfg, made, poll, call, history, bounds>>

\* A job ends, or is cancelled while it waits.
JobEnds(c) ==
    /\ Active(c)
    /\ job' = [job EXCEPT ![c] = NoJob]
    /\ UNCHANGED <<now, cfg, made, poll, call, history, bounds>>

\* The service stops and starts again: its threads are gone (stop_scheduler waits for
\* the poller for a few seconds only).  A job that was running is queued again, except
\* one whose process has outlived the service.
Restart ==
    /\ crashes < MaxCrashes
    /\ crashes' = crashes + 1
    /\ poll' = Waiting
    /\ call' = [r \in Threads |-> Idle]
    /\ \E S \in SUBSET {c \in Configs : job[c].status = "running"} :
         job' = [c \in Configs |-> IF c \in S THEN [job[c] EXCEPT !.status = "queued"]
                                   ELSE job[c]]
    /\ UNCHANGED <<now, cfg, made, history, calls>>

-------------------------------------------------------------------------------
\* A config is new, or comes from a legacy schedule file, which may lack a next run
\* and here is set to the default time.
Init ==
    /\ now = 1 /\ made = 0
    /\ cfg \in [Configs -> {NewConfig, [NewConfig EXCEPT !.life = "live", !.enabled = TRUE]}]
    /\ job = [c \in Configs |-> NoJob]
    /\ poll = Waiting
    /\ call = [r \in Threads |-> Idle]
    /\ fired = {} /\ repeats = 0 /\ overdue = 0
    /\ off = {} /\ late = [c \in Configs |-> 0] /\ raced = {}
    /\ calls = 0 /\ crashes = 0

PollStep ==
    \/ PollStart \/ EnqueueCreate \/ EnqueueCoalesce \/ EnqueueFail \/ PollRecord \/ PollEnd
    \/ \E c \in Configs : Repair(c)

ApiStep ==
    \/ \E c \in Configs : CreateConfig(c)
    \/ \E r \in Threads, c \in Configs : SwitchOn(r, c)
    \/ \E r \in Threads, c \in Configs, s \in Settings : Edit(r, c, s)
    \/ \E r \in Threads, c \in Configs : SwitchOff(r, c)
    \/ \E r \in Threads, c \in Configs : Run(r, c)
    \/ \E r \in Threads, c \in Configs : Delete(r, c)
    \/ \E r \in Threads : SwitchedOn(r)
    \/ \E r \in Threads : Edited(r)
    \/ \E r \in Threads : CancelPending(r)
    \/ \E r \in Threads : SwitchedOff(r)
    \/ \E r \in Threads : RunCreate(r)
    \/ \E r \in Threads : Deleted(r)

Next ==
    \/ PollStep
    \/ ApiStep
    \/ Tick
    \/ \E c \in Configs : JobStarts(c)
    \/ \E c \in Configs : JobEnds(c)
    \/ Restart

Spec == Init /\ [][Next]_vars

\* The poller thread runs (_scheduler_loop catches what a poll raises and polls again).
Fairness == WF_vars(PollStep)

LiveSpec == Spec /\ Fairness

-------------------------------------------------------------------------------
(* Properties *)

\* A slot creates one job: _enqueue_due_config moves next_run_at on after it created
\* the job, and nothing brings the slot back, except a service that ended between the
\* two, and a request that computed a next run before the slot and wrote it after.
SlotFiredOnce == repeats <= crashes + overdue

\* A schedule that was switched off, or whose config was deleted, stays so until it is
\* switched on, whatever copies the poller and the other requests still hold; only the
\* poll that had seen it due can create one more job.
SwitchOffHolds ==
    \A c \in off : late[c] <= 1 /\ ~(Exists(c) /\ cfg[c].enabled)

\* The next run agrees with the settings, unless they were edited while a poll or a
\* switch-on computed it: next_run_at is stored beside the settings, and all of its
\* writers but one read them earlier.
NextRunFollowsSettings ==
    \A c \in Configs \ raced :
        Exists(c) /\ cfg[c].next # 0 => cfg[c].next % Day = cfg[c].setting

\* A schedule that is due does not stay due: started, coalesced, refused or failed, its
\* next run is moved on, though a deleted config may end the poll before its turn.
NeverStuck == \A c \in Configs : Due(c) ~> ~Due(c)
=============================================================================
