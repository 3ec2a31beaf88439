------------------------- MODULE ScheduleManagerProofs -------------------------
(* The safety properties of ScheduleManager, for any number of configs, requests, slots, jobs
   and crashes. *)
EXTENDS ScheduleManager, FiniteSetTheorems, TLAPS

Calls ==
    {Idle}
    \union [pc : {"on"}, c : Configs, next : Slots \ {0}]
    \union [pc : {"edit"}, c : Configs, setting : Settings, next : Slots \ {0}]
    \union [pc : {"off", "cancelled"}, c : Configs, pending : 0..MaxJobs]
    \union [pc : {"run", "delete"}, c : Configs]

\* A request under way carries what its handler has read; a config that does not exist is off.
CallsOK ==
    /\ call \in [Threads -> Calls]
    /\ \A c \in Configs : cfg[c].life # "live" => ~cfg[c].enabled

\* Every request counts as overdue once at most.
Busy == {r \in Threads : call[r].pc # "idle"}
OverdueOK == IsFiniteSet(Busy) /\ Cardinality(Busy) + overdue <= calls

\* The configs whose turn is still to come in this poll.
Ahead ==
    CASE poll.pc = "enqueue" -> Range(poll.due)
      [] poll.pc = "record"  -> Range(Tail(poll.due))
      [] OTHER               -> {}

\* A poll takes each config once, and each was due when it began.
PollOK ==
    /\ poll.pc = "wait" => poll = Waiting
    /\ poll.pc = "record" => poll.due # <<>>
    /\ IsInjective(poll.due)
    /\ poll.now <= now
    /\ \A c \in Range(poll.due) : poll.seen[c].next \in 1..poll.now

\* The poll was begun after every slot that fired.
FiredOK == \A slot \in fired : slot[2] # 0 /\ slot[2] <= (IF poll.pc = "wait" THEN now ELSE poll.now)

\* A slot that fired may fire again if it is the next run of its config, except while the poll is about
\* to move that on, or if the poll has it ahead.
Recording(c) == poll.pc = "record" /\ c = Head(poll.due)
Suspect(c) ==
    \/ <<c, cfg[c].next>> \in fired /\ ~Recording(c)
    \/ c \in Ahead /\ <<c, poll.seen[c].next>> \in fired
Suspects == {c \in Configs : Suspect(c)}
RepeatsOK == Cardinality(Suspects) + repeats <= crashes + overdue

\* Whoever is about to write a next run computed it from the present settings, or c is in raced.
SettingsOK ==
    /\ \A c \in Configs \ raced :
          /\ cfg[c].next # 0 => cfg[c].next % Day = cfg[c].setting
          /\ cfg[c].life # "deleted" /\ c \in poll.repair \union Range(poll.due)
                => poll.seen[c].setting = cfg[c].setting
    /\ \A r \in Threads :
          /\ call[r].pc = "on" /\ call[r].c \notin raced /\ cfg[call[r].c].life # "deleted"
                => call[r].next % Day = cfg[call[r].c].setting
          /\ call[r].pc = "edit" => call[r].next % Day = call[r].setting

\* The one late job of a config is of the poll that has passed it.
OffOK ==
    \A c \in Configs :
        /\ c \notin off => late[c] = 0
        /\ c \in off => ~cfg[c].enabled
        /\ late[c] <= 1
        /\ late[c] = 1 => c \notin Ahead

IInv == TypeOK /\ CallsOK /\ OverdueOK /\ PollOK /\ FiredOK /\ RepeatsOK /\ SettingsOK /\ OffOK

--------------------------------------------------------------------------------
(* Times of the day. *)

LEMMA Division ==
    ASSUME NEW d \in Nat \ {0}, NEW t \in Nat
    PROVE  \E q \in Int, r \in 0..(d - 1) : t = d * q + r
<1>1. ASSUME NEW q \in Int, q = t \div d, NEW r \in Int, r = t % d
      PROVE  t = d * q + r /\ r \in 0..(d - 1)
  BY <1>1
<1>2. t \div d \in Int /\ t % d \in Int
  OBVIOUS
<1> QED
  BY <1>1, <1>2

LEMMA Remainder ==
    ASSUME NEW d \in Nat \ {0}, NEW s \in 0..(d - 1), NEW q \in Int
    PROVE  (d * q + s) % d = s
OBVIOUS

\* Every time of the day comes within a day.
LEMMA TimeComes ==
    ASSUME NEW d \in Nat \ {0}, NEW s \in 0..(d - 1), NEW t \in Nat
    PROVE  \E n \in (t + 1)..(t + d) : n % d = s
<1>1. PICK q \in Int, r \in 0..(d - 1) : t = d * q + r
  BY Division
<1>2. PICK m \in Int : m = d * q
  OBVIOUS
<1>3. d * (q + 1) = m + d
  BY <1>2
<1>4. (m + s) % d = s
  BY <1>2, Remainder
<1>5. ((m + d) + s) % d = s
  <2>1. (d * (q + 1) + s) % d = s
    BY Remainder
  <2> QED
    BY <1>3, <2>1
<1>6. t = m + r
  BY <1>1, <1>2
<1>7. CASE r < s
  <2>1. m + s \in (t + 1)..(t + d)
    BY <1>6, <1>7
  <2> QED
    BY <1>4, <2>1
<1>8. CASE s <= r
  <2>1. (m + d) + s \in (t + 1)..(t + d)
    BY <1>6, <1>8
  <2> QED
    BY <1>5, <2>1
<1> QED
  BY <1>7, <1>8

LEMMA NextRunComes ==
    ASSUME NEW s \in Settings, NEW t \in 0..MaxTime
    PROVE  /\ NextRun(s, t) \in Slots \ {0}
           /\ NextRun(s, t) > t
           /\ NextRun(s, t) % Day = s
<1>1. t \in Nat /\ Day \in Nat /\ MaxTime \in Nat
  BY ScheduleAssumption
<1>2. \E n \in (t + 1)..(t + Day) : n % Day = s
  BY <1>1, ScheduleAssumption, TimeComes DEF Settings
<1>3. NextRun(s, t) \in (t + 1)..(t + Day) /\ NextRun(s, t) % Day = s
  BY <1>2 DEF NextRun
<1> QED
  BY <1>1, <1>3 DEF Slots

--------------------------------------------------------------------------------
(* The order of a poll. *)

LEMMA Behind ==
    ASSUME NEW s \in Seq(Configs), s # <<>>, IsInjective(s)
    PROVE  /\ Tail(s) \in Seq(Configs) /\ IsInjective(Tail(s))
           /\ Head(s) \in Configs /\ Head(s) \in Range(s)
           /\ Range(Tail(s)) = Range(s) \ {Head(s)}
<1> DEFINE n == Len(s)
<1>1. n \in Nat \ {0} /\ s \in [1..n -> Configs] /\ Head(s) = s[1]
  OBVIOUS
<1>2. Tail(s) \in Seq(Configs) /\ DOMAIN Tail(s) = 1..(n - 1) /\ \A i \in 1..(n - 1) : Tail(s)[i] = s[i + 1]
  OBVIOUS
<1>3. \A i, j \in 1..n : s[i] = s[j] => i = j
  BY <1>1 DEF IsInjective
<1>4. IsInjective(Tail(s))
  BY <1>1, <1>2, <1>3 DEF IsInjective
<1>5. Range(s) = {s[i] : i \in 1..n}
  BY <1>1 DEF Range
<1>6. Range(Tail(s)) = {s[i + 1] : i \in 1..(n - 1)}
  BY <1>2 DEF Range
<1>7. \A i \in 1..(n - 1) : i + 1 \in 1..n /\ s[i + 1] # s[1]
  BY <1>1, <1>3
<1>8. \A i \in 1..n : i # 1 => i - 1 \in 1..(n - 1) /\ s[i] = s[(i - 1) + 1]
  BY <1>1
<1>9. Range(Tail(s)) \subseteq Range(s) \ {s[1]}
  BY <1>5, <1>6, <1>7
<1>10. Range(s) \ {s[1]} \subseteq Range(Tail(s))
  <2> SUFFICES ASSUME NEW c \in Range(s), c # s[1]
               PROVE  c \in Range(Tail(s))
    BY Zenon
  <2>1. PICK i \in 1..n : c = s[i]
    BY <1>5, Zenon
  <2>2. i # 1
    BY <2>1, Zenon
  <2>3. i - 1 \in 1..(n - 1) /\ c = s[(i - 1) + 1]
    BY <1>8, <2>1, <2>2, Zenon
  <2> DEFINE j == i - 1
  <2>4. j \in 1..(n - 1) /\ c = s[j + 1]
    BY <2>3
  <2> HIDE DEF j
  <2> QED
    BY <1>6, <2>4, Zenon
<1> QED
  BY <1>1, <1>2, <1>4, <1>5, <1>9, <1>10

LEMMA OrderOf ==
    ASSUME NEW S \in SUBSET Configs, NEW s \in DueOrders(S)
    PROVE  s \in Seq(Configs) /\ Range(s) = S /\ IsInjective(s)
<1>1. IsFiniteSet(S) /\ Cardinality(S) \in Nat
  BY ScheduleAssumption, FS_Subset, FS_CardinalityType
<1>2. s \in [1..Cardinality(S) -> S] /\ Range(s) = S
  BY DEF DueOrders
<1>3. s \in Seq(Configs)
  BY <1>1, <1>2
<1>4. IsInjective(s)
  <2>1. IsFiniteSet(1..Cardinality(S)) /\ Cardinality(1..Cardinality(S)) = Cardinality(S)
    BY <1>1, FS_Interval
  <2>2. s \in Surjection(1..Cardinality(S), S)
    BY <1>2 DEF Surjection, Range
  <2>3. s \in Injection(1..Cardinality(S), S)
    BY <1>1, <2>1, <2>2, FS_SurjSameCardinalityImpliesInj
  <2> QED
    BY <1>2, <2>3 DEF Injection, IsInjective
<1> QED
  BY <1>2, <1>3, <1>4

--------------------------------------------------------------------------------
(* What the steps have in common. *)

Begins(r) ==
    \/ \E c \in Configs : SwitchOn(r, c) \/ SwitchOff(r, c) \/ Run(r, c) \/ Delete(r, c)
    \/ \E c \in Configs, s \in Settings : Edit(r, c, s)

Returns(r) == SwitchedOn(r) \/ Edited(r) \/ SwitchedOff(r) \/ RunCreate(r) \/ Deleted(r)

JobStep == \E c \in Configs : JobStarts(c) \/ JobEnds(c)

LEMMA Steps ==
    ASSUME [Next]_vars
    PROVE  \/ PollStep
           \/ \E c \in Configs : CreateConfig(c)
           \/ \E r \in Threads : Begins(r) \/ Returns(r) \/ CancelPending(r)
           \/ Tick \/ JobStep \/ Restart \/ UNCHANGED vars
BY DEF Next, ApiStep, Begins, Returns, JobStep

\* What a request has read when it begins.
LEMMA BeginsWith ==
    ASSUME TypeOK, NEW r \in Threads, Begins(r)
    PROVE  /\ call[r].pc = "idle" /\ calls < MaxCalls /\ calls' = calls + 1
           /\ UNCHANGED <<now, cfg, job, made, poll, history, crashes>>
           /\ \E state \in Calls :
                 /\ state.pc # "idle" /\ call' = [call EXCEPT ![r] = state]
                 /\ state.pc = "on" => state.next % Day = cfg[state.c].setting
                 /\ state.pc = "edit" => state.next % Day = state.setting
<1>1. cfg \in [Configs -> Config] /\ job \in [Configs -> Job] /\ now \in 0..MaxTime
  BY DEF TypeOK
<1>2. \A c \in Configs : cfg[c].setting \in Settings /\ job[c].id \in 0..MaxJobs
  BY <1>1 DEF Config, Job
<1>3. CASE \E c \in Configs : SwitchOn(r, c)
  <2> PICK c \in Configs : SwitchOn(r, c)
    BY <1>3
  <2> DEFINE state == [pc |-> "on", c |-> c, next |-> NextRun(cfg[c].setting, now)]
  <2>1. NextRun(cfg[c].setting, now) \in Slots \ {0} /\ NextRun(cfg[c].setting, now) % Day = cfg[c].setting
    BY <1>1, <1>2, NextRunComes
  <2>2. state \in Calls /\ state.pc = "on" /\ state.next % Day = cfg[state.c].setting
    BY <2>1 DEF Calls
  <2>3. Begin(r, state) /\ UNCHANGED <<now, cfg, job, made, poll, history, crashes>>
    BY DEF SwitchOn
  <2> HIDE DEF state
  <2> QED
    BY <2>2, <2>3 DEF Begin
<1>4. CASE \E c \in Configs, s \in Settings : Edit(r, c, s)
  <2> PICK c \in Configs, s \in Settings : Edit(r, c, s)
    BY <1>4
  <2> DEFINE state == [pc |-> "edit", c |-> c, setting |-> s, next |-> NextAfterEdit(c, s)]
  <2>1. NextAfterEdit(c, s) \in Slots \ {0} /\ NextAfterEdit(c, s) % Day = s
    BY <1>1, NextRunComes DEF NextAfterEdit
  <2>2. state \in Calls /\ state.pc = "edit" /\ state.next % Day = state.setting
    BY <2>1 DEF Calls
  <2>3. Begin(r, state) /\ UNCHANGED <<now, cfg, job, made, poll, history, crashes>>
    BY DEF Edit
  <2> HIDE DEF state
  <2> QED
    BY <2>2, <2>3 DEF Begin
<1>5. CASE \E c \in Configs : SwitchOff(r, c)
  <2> PICK c \in Configs : SwitchOff(r, c)
    BY <1>5
  <2> DEFINE id == IF job[c].status = "queued" /\ job[c].scheduled THEN job[c].id ELSE 0
             state == [pc |-> "off", c |-> c, pending |-> id]
  <2>1. id \in 0..MaxJobs
    BY <1>2, ScheduleAssumption
  <2>2. state \in Calls /\ state.pc = "off"
    BY <2>1 DEF Calls
  <2>3. Begin(r, state) /\ UNCHANGED <<now, cfg, job, made, poll, history, crashes>>
    BY DEF SwitchOff
  <2> HIDE DEF state
  <2> QED
    BY <2>2, <2>3 DEF Begin
<1>6. CASE \E c \in Configs : Run(r, c) \/ Delete(r, c)
  <2> PICK c \in Configs, pc \in {"run", "delete"} :
         /\ Begin(r, [pc |-> pc, c |-> c])
         /\ UNCHANGED <<now, cfg, job, made, poll, history, crashes>>
    BY <1>6 DEF Run, Delete
  <2> DEFINE state == [pc |-> pc, c |-> c]
  <2>1. state \in Calls /\ state.pc \in {"run", "delete"}
    BY DEF Calls
  <2>2. Begin(r, state)
    OBVIOUS
  <2> HIDE DEF state
  <2> QED
    BY <2>1, <2>2 DEF Begin
<1> QED
  BY <1>3, <1>4, <1>5, <1>6 DEF Begins

\* The requests by how far they are.
LEMMA CallForms ==
    ASSUME NEW x \in Calls
    PROVE  /\ x.pc \in {"idle", "on", "edit", "off", "cancelled", "run", "delete"}
           /\ x.pc # "idle" => x.c \in Configs
           /\ x.pc \in {"on", "edit"} => x.next \in Slots \ {0}
           /\ x.pc = "edit" => x.setting \in Settings
           /\ x.pc = "off" => [x EXCEPT !.pc = "cancelled"] \in Calls
BY DEF Calls, Idle

LEMMA IdleForm == Idle \in Calls /\ Idle.pc = "idle"
BY DEF Calls, Idle

--------------------------------------------------------------------------------
(* Requests are counted. *)

LEMMA OverdueKeeps ==
    ASSUME TypeOK, CallsOK, OverdueOK, [Next]_vars
    PROVE  OverdueOK' /\ overdue' \in 0..MaxCalls /\ calls' \in 0..MaxCalls
<1>1. /\ call \in [Threads -> Calls] /\ calls \in 0..MaxCalls /\ overdue \in Nat
      /\ IsFiniteSet(Busy) /\ Cardinality(Busy) \in Nat /\ Cardinality(Busy) + overdue <= calls
      /\ MaxCalls \in Nat
  BY ScheduleAssumption, FS_CardinalityType DEF TypeOK, CallsOK, OverdueOK
<1>2. CASE \/ PollStep \/ Tick \/ JobStep \/ UNCHANGED vars
           \/ \E c \in Configs : CreateConfig(c)
  <2>1. call' = call /\ overdue' = overdue
    BY <1>2 DEF PollStep, PollStart, Repair, EnqueueCreate, EnqueueCoalesce, EnqueueFail, PollRecord,
       PollEnd, Tick, JobStep, JobStarts, JobEnds, CreateConfig, vars, history
  <2>2. calls' = calls \/ (calls < MaxCalls /\ calls' = calls + 1)
    BY <1>2 DEF PollStep, PollStart, Repair, EnqueueCreate, EnqueueCoalesce, EnqueueFail, PollRecord,
       PollEnd, Tick, JobStep, JobStarts, JobEnds, CreateConfig, vars, bounds
  <2>3. Busy' = Busy
    BY <2>1 DEF Busy
  <2> QED
    BY <1>1, <2>1, <2>2, <2>3 DEF OverdueOK
<1>3. CASE \E r \in Threads : Begins(r)
  <2>1. PICK r \in Threads : Begins(r)
    BY <1>3
  <2>2. PICK state \in Calls : state.pc # "idle" /\ call' = [call EXCEPT ![r] = state]
    BY <2>1, BeginsWith
  <2>3. call[r].pc = "idle" /\ calls < MaxCalls /\ calls' = calls + 1 /\ overdue' = overdue
    BY <2>1, BeginsWith DEF history
  <2>4. Busy' = Busy \union {r} /\ r \notin Busy
    BY <1>1, <2>2, <2>3 DEF Busy
  <2>5. IsFiniteSet(Busy') /\ Cardinality(Busy') = Cardinality(Busy) + 1
    BY <1>1, <2>4, FS_AddElement
  <2> QED
    BY <1>1, <2>3, <2>5 DEF OverdueOK
<1>4. CASE \E r \in Threads : Returns(r)
  <2>1. PICK r \in Threads : Returns(r)
    BY <1>4
  <2>2. /\ call[r].pc # "idle" /\ call' = [call EXCEPT ![r] = Idle] /\ calls' = calls
        /\ overdue' \in {overdue, overdue + 1}
    BY <2>1 DEF Returns, SwitchedOn, Edited, SwitchedOff, RunCreate, Deleted, Return, CountOverdue, history,
       bounds
  <2>3. Busy' = Busy \ {r} /\ r \in Busy
    BY <1>1, <2>2, IdleForm DEF Busy
  <2>4. IsFiniteSet(Busy') /\ Cardinality(Busy') = Cardinality(Busy) - 1
    BY <1>1, <2>3, FS_RemoveElement
  <2>5. Cardinality(Busy') \in Nat
    BY <2>4, FS_CardinalityType
  <2> QED
    BY <1>1, <2>2, <2>4, <2>5 DEF OverdueOK
<1>5. CASE \E r \in Threads : CancelPending(r)
  <2>1. PICK r \in Threads : CancelPending(r)
    BY <1>5
  <2>2. /\ call[r].pc = "off" /\ call' = [call EXCEPT ![r].pc = "cancelled"]
        /\ calls' = calls /\ overdue' = overdue
    BY <2>1 DEF CancelPending, history, bounds
  <2>3. call'[r].pc = "cancelled" /\ \A q \in Threads : q # r => call'[q] = call[q]
    BY <1>1, <2>2, CallForms DEF Calls, Idle
  <2>4. Busy' = Busy
    BY <2>2, <2>3 DEF Busy
  <2> QED
    BY <1>1, <2>2, <2>4 DEF OverdueOK
<1>6. CASE Restart
  <2>1. Busy' = {} /\ overdue' = overdue /\ calls' = calls
    BY <1>6, IdleForm DEF Restart, Busy, history
  <2>2. IsFiniteSet(Busy') /\ Cardinality(Busy') = 0
    BY <2>1, FS_EmptySet
  <2> QED
    BY <1>1, <2>1, <2>2 DEF OverdueOK
<1> QED
  BY <1>2, <1>3, <1>4, <1>5, <1>6, Steps

--------------------------------------------------------------------------------
(* Types. *)

\* A write of a next run.
LEMMA UpdatedType ==
    ASSUME TypeOK, CallsOK, NEW c \in Configs, NEW n \in Slots
    PROVE  /\ Updated(c, n) \in [Configs -> Config]
           /\ \A d \in Configs :
                 /\ Updated(c, n)[d].life = cfg[d].life
                 /\ Updated(c, n)[d].enabled = cfg[d].enabled
                 /\ Updated(c, n)[d].setting = cfg[d].setting
                 /\ d # c => Updated(c, n)[d] = cfg[d]
                 /\ d = c => Updated(c, n)[d].next \in {0, n}
                 /\ Updated(c, n)[d].next # 0 => Updated(c, n)[d].enabled
<1>1. 0 \in Slots /\ cfg \in [Configs -> Config] /\ \A d \in Configs : cfg[d].next # 0 => cfg[d].enabled
  BY ScheduleAssumption DEF TypeOK, Slots
<1>2. \A d \in Configs : cfg[d] \in Config
  BY <1>1
<1>3. CASE cfg[c].enabled
  BY <1>1, <1>2, <1>3 DEF Updated, Config
<1>4. CASE ~cfg[c].enabled
  BY <1>1, <1>2, <1>4 DEF Updated, Config
<1> QED
  BY <1>3, <1>4

\* What the poller has at hand.
LEMMA PollTypes ==
    ASSUME TypeOK, PollOK
    PROVE  /\ poll.now \in 0..MaxTime /\ poll.repair \subseteq Configs /\ poll.due \in Seq(Configs)
           /\ \A c \in Configs : poll.seen[c] \in Config /\ poll.seen[c].setting \in Settings
                                  /\ poll.seen[c].next \in Slots
           /\ poll.pc = "record" => poll.due # <<>>
           /\ poll.due # <<>> => Head(poll.due) \in Configs /\ Tail(poll.due) \in Seq(Configs)
           /\ \A c \in Configs : NextRun(poll.seen[c].setting, poll.now) \in Slots \ {0}
                                  /\ NextRun(poll.seen[c].setting, poll.now) > poll.now
                                  /\ NextRun(poll.seen[c].setting, poll.now) % Day = poll.seen[c].setting
<1>1. poll \in Poll
  BY DEF TypeOK
<1>2. \A c \in Configs : poll.seen[c] \in Config
  BY <1>1 DEF Poll
<1>3. \A c \in Configs : poll.seen[c].setting \in Settings /\ poll.seen[c].next \in Slots
  BY <1>2 DEF Config
<1>4. poll.now \in 0..MaxTime /\ poll.repair \subseteq Configs /\ poll.due \in Seq(Configs)
  BY <1>1 DEF Poll
<1>5. poll.due # <<>> => Head(poll.due) \in Configs /\ Tail(poll.due) \in Seq(Configs)
  BY <1>4
<1> QED
  BY <1>2, <1>3, <1>4, <1>5, NextRunComes DEF PollOK

LEMMA WaitingType == Waiting \in Poll
<1>1. 0 \in 0..MaxTime /\ 0 \in Slots /\ 0 \in Settings
  BY ScheduleAssumption DEF Slots, Settings
<1>2. NewConfig \in Config
  BY <1>1 DEF NewConfig, Config
<1>3. <<>> \in Seq(Configs)
  OBVIOUS
<1> QED
  BY <1>1, <1>2, <1>3 DEF Waiting, Poll

\* A step of the poller keeps the types.
LEMMA PollStepTypes ==
    ASSUME TypeOK, CallsOK, PollOK, PollStep
    PROVE  /\ poll' \in Poll /\ cfg' \in [Configs -> Config]
           /\ \A c \in Configs : cfg'[c].next # 0 => cfg'[c].enabled
           /\ \A c \in Configs : cfg'[c].life = cfg[c].life /\ cfg'[c].enabled = cfg[c].enabled
                                  /\ cfg'[c].setting = cfg[c].setting
           /\ job' \in [Configs -> Job] /\ made' \in 0..MaxJobs
           /\ fired' \subseteq Configs \X Slots /\ repeats' \in Nat /\ late' \in [Configs -> Nat]
<1> USE PollTypes
<1>1. /\ poll \in Poll /\ cfg \in [Configs -> Config] /\ job \in [Configs -> Job] /\ made \in 0..MaxJobs
      /\ fired \subseteq Configs \X Slots /\ repeats \in Nat /\ late \in [Configs -> Nat] /\ now \in 0..MaxTime
      /\ \A c \in Configs : cfg[c].next # 0 => cfg[c].enabled
  BY DEF TypeOK
<1>2. CASE PollStart
  <2> DEFINE due == {c \in Configs : Due(c)}
             new == {c \in due : cfg[c].next # 0}
             seen == [c \in Configs |-> IF c \in due THEN cfg[c] ELSE NewConfig]
             fix == {c \in due : cfg[c].next = 0}
  <2>1. PICK s \in DueOrders(new) :
           poll' = [pc |-> "enqueue", now |-> now, due |-> s, seen |-> seen, repair |-> fix]
    BY <1>2 DEF PollStart
  <2>2. s \in Seq(Configs)
    BY OrderOf
  <2>3. NewConfig \in Config
    BY ScheduleAssumption DEF NewConfig, Config, Slots, Settings
  <2>4. seen \in [Configs -> Config] /\ fix \in SUBSET Configs
    BY <1>1, <2>3
  <2> HIDE DEF seen, fix
  <2>5. poll' \in Poll
    BY <1>1, <2>1, <2>2, <2>4 DEF Poll
  <2> QED
    BY <1>1, <1>2, <2>5 DEF PollStart, history
<1>3. CASE \E c \in Configs : Repair(c)
  <2> PICK c \in Configs : Repair(c)
    BY <1>3
  <2> DEFINE n == NextRun(poll.seen[c].setting, poll.now)
             rest == poll.repair \ {c}
  <2>1. n \in Slots /\ rest \in SUBSET Configs
    BY <1>1
  <2>2. \/ cfg' = Updated(c, n) /\ poll' = [poll EXCEPT !.repair = rest]
        \/ cfg' = cfg /\ poll' = Waiting
    BY DEF Repair
  <2>3. UNCHANGED <<job, made, history>>
    BY DEF Repair
  <2> HIDE DEF n, rest
  <2>4. poll' \in Poll
    BY <1>1, <2>1, <2>2, WaitingType DEF Poll
  <2>5. /\ cfg' \in [Configs -> Config] /\ \A e \in Configs : cfg'[e].next # 0 => cfg'[e].enabled
        /\ \A e \in Configs : cfg'[e].life = cfg[e].life /\ cfg'[e].enabled = cfg[e].enabled
                                /\ cfg'[e].setting = cfg[e].setting
    <3>1. CASE cfg' = Updated(c, n)
      BY <2>1, <3>1, UpdatedType
    <3>2. CASE cfg' = cfg
      BY <1>1, <3>2
    <3> QED
      BY <2>2, <3>1, <3>2
  <2> QED
    BY <1>1, <2>3, <2>4, <2>5 DEF history
<1>4. CASE EnqueueCreate
  <2> DEFINE c == Head(poll.due)
             slot == <<c, poll.seen[c].next>>
  <2>1. c \in Configs /\ slot \in Configs \X Slots
    BY <1>4 DEF EnqueueCreate
  <2>2. poll' \in Poll
    BY <1>1, <1>4 DEF EnqueueCreate, Poll
  <2>3. Create(c, TRUE) /\ fired' = fired \union {slot} /\ cfg' = cfg /\ repeats' \in {repeats, repeats + 1}
        /\ late' \in {late, [late EXCEPT ![c] = @ + 1]}
    BY <1>4 DEF EnqueueCreate
  <2>4. late' \in [Configs -> Nat]
    <3>1. late \in [Configs -> Nat] /\ late' \in {late, [late EXCEPT ![c] = @ + 1]}
      BY <1>1, <2>3
    <3> HIDE DEF c
    <3> QED
      BY <2>1, <3>1
  <2>5. job' \in [Configs -> Job] /\ made' \in 0..MaxJobs
    BY <1>1, <2>1, <2>3, ScheduleAssumption DEF Create, Job
  <2>6. fired' \subseteq Configs \X Slots /\ repeats' \in Nat
    <3> HIDE DEF slot
    <3> QED
      BY <1>1, <2>1, <2>3
  <2>7. /\ cfg' \in [Configs -> Config] /\ \A e \in Configs : cfg'[e].next # 0 => cfg'[e].enabled
        /\ \A e \in Configs : cfg'[e].life = cfg[e].life /\ cfg'[e].enabled = cfg[e].enabled
                                /\ cfg'[e].setting = cfg[e].setting
    BY <1>1, <2>3
  <2> QED
    BY <2>2, <2>4, <2>5, <2>6, <2>7
<1>5. CASE EnqueueCoalesce \/ EnqueueFail
  <2>1. poll' \in Poll
    BY <1>1, <1>5 DEF EnqueueCoalesce, EnqueueFail, Coalesced, Poll
  <2> QED
    BY <1>1, <1>5, <2>1 DEF EnqueueCoalesce, EnqueueFail, history
<1>6. CASE PollRecord
  <2> DEFINE c == Head(poll.due)
             n == NextRun(poll.seen[c].setting, poll.now)
             rest == Tail(poll.due)
  <2>1. c \in Configs /\ n \in Slots /\ rest \in Seq(Configs)
    BY <1>6 DEF PollRecord
  <2>2. \/ cfg' = Updated(c, n) /\ poll' = [poll EXCEPT !.pc = "enqueue", !.due = rest]
        \/ cfg' = cfg /\ poll' = Waiting
    BY <1>6 DEF PollRecord
  <2>3. UNCHANGED <<job, made, history>>
    BY <1>6 DEF PollRecord
  <2> HIDE DEF c, n, rest
  <2>4. poll' \in Poll
    BY <1>1, <2>1, <2>2, WaitingType DEF Poll
  <2>5. /\ cfg' \in [Configs -> Config] /\ \A e \in Configs : cfg'[e].next # 0 => cfg'[e].enabled
        /\ \A e \in Configs : cfg'[e].life = cfg[e].life /\ cfg'[e].enabled = cfg[e].enabled
                                /\ cfg'[e].setting = cfg[e].setting
    <3>1. CASE cfg' = Updated(c, n)
      BY <2>1, <3>1, UpdatedType
    <3>2. CASE cfg' = cfg
      BY <1>1, <3>2
    <3> QED
      BY <2>2, <3>1, <3>2
  <2> QED
    BY <1>1, <2>3, <2>4, <2>5 DEF history
<1>7. CASE PollEnd
  BY <1>1, <1>7, WaitingType DEF PollEnd, history
<1> QED
  BY <1>2, <1>3, <1>4, <1>5, <1>6, <1>7 DEF PollStep

\* A request that ends keeps the types.
LEMMA ReturnTypes ==
    ASSUME TypeOK, CallsOK, NEW r \in Threads, Returns(r)
    PROVE  /\ cfg' \in [Configs -> Config]
           /\ \A d \in Configs : cfg'[d].next # 0 => cfg'[d].enabled
           /\ \A d \in Configs : cfg'[d].life # "live" => ~cfg'[d].enabled
           /\ job' \in [Configs -> Job] /\ made' \in 0..MaxJobs
           /\ off' \subseteq Configs /\ raced' \subseteq Configs /\ late' \in [Configs -> Nat]
           /\ call[r].c \in Configs /\ call' = [call EXCEPT ![r] = Idle]
           /\ UNCHANGED <<now, poll, fired, repeats, calls, crashes>>
<1> DEFINE c == call[r].c
           n == call[r].next
           s == call[r].setting
<1>1. /\ cfg \in [Configs -> Config] /\ job \in [Configs -> Job] /\ made \in 0..MaxJobs
      /\ off \subseteq Configs /\ raced \subseteq Configs /\ late \in [Configs -> Nat] /\ MaxJobs \in Nat
      /\ \A d \in Configs : cfg[d].next # 0 => cfg[d].enabled
      /\ \A d \in Configs : cfg[d].life # "live" => ~cfg[d].enabled
  BY ScheduleAssumption DEF TypeOK, CallsOK
<1>2. call[r] \in Calls /\ 0 \in Slots /\ 0 \in Settings
  BY ScheduleAssumption DEF CallsOK, Slots, Settings
<1>3. call[r].pc # "idle" => c \in Configs
  BY <1>2, CallForms
<1>4. call[r].pc \in {"on", "edit"} => n \in Slots \ {0}
  BY <1>2, CallForms
<1>5. call[r].pc = "edit" => s \in Settings
  BY <1>2, CallForms
<1>6. \A d \in Configs : cfg[d] \in Config
  BY <1>1
<1>7. UNCHANGED <<now, poll, fired, repeats, calls, crashes>> /\ call' = [call EXCEPT ![r] = Idle]
      /\ c \in Configs
  BY <1>3 DEF Returns, SwitchedOn, Edited, SwitchedOff, RunCreate, Deleted, Return, history, bounds
<1>8. CASE SwitchedOn(r)
  <2> DEFINE x == [cfg[c] EXCEPT !.enabled = TRUE, !.next = n]
  <2>1. c \in Configs /\ n \in Slots /\ cfg[c] \in Config
    BY <1>3, <1>4, <1>6, <1>8 DEF SwitchedOn
  <2>2. cfg' = cfg \/ (cfg[c].life = "live" /\ cfg' = [cfg EXCEPT ![c] = x])
    BY <1>8 DEF SwitchedOn, Exists
  <2>3. off' \in {off, off \ {c}} /\ late' \in {late, [late EXCEPT ![c] = 0]} /\ UNCHANGED <<job, made, raced>>
    BY <1>8 DEF SwitchedOn
  <2>4. x \in Config /\ x.enabled /\ x.life = cfg[c].life
    BY <2>1 DEF Config
  <2> HIDE DEF c, n, x
  <2>5. late' \in [Configs -> Nat]
    BY <1>1, <2>1, <2>3
  <2>6. cfg' \in [Configs -> Config]
    BY <1>1, <2>2, <2>4
  <2>7. \A d \in Configs : cfg'[d] \in {cfg[d], x}
    BY <1>1, <2>1, <2>2
  <2>8. \A d \in Configs : /\ cfg'[d].next # 0 => cfg'[d].enabled
                           /\ cfg'[d].life # "live" => ~cfg'[d].enabled
    <3>1. CASE cfg' = cfg
      BY <1>1, <3>1
    <3>2. CASE cfg[c].life = "live"
      BY <1>1, <2>4, <2>7, <3>2
    <3> QED
      BY <2>2, <3>1, <3>2
  <2> QED
    BY <1>1, <1>7, <2>3, <2>5, <2>6, <2>8 DEF c
<1>9. CASE Edited(r)
  <2>1. c \in Configs /\ n \in Slots /\ s \in Settings
    BY <1>3, <1>4, <1>5, <1>9 DEF Edited
  <2>2. cfg' \in {cfg, [Updated(c, n) EXCEPT ![c].setting = s]}
    BY <1>9 DEF Edited
  <2>3. raced' \in {raced \union {c}, raced \ {c}} /\ UNCHANGED <<job, made, off, late>>
    BY <1>9 DEF Edited
  <2> DEFINE u == Updated(c, n)
             x == [u[c] EXCEPT !.setting = s]
  <2>4. /\ u \in [Configs -> Config]
        /\ \A d \in Configs : u[d].life = cfg[d].life /\ u[d].enabled = cfg[d].enabled
                               /\ (u[d].next # 0 => u[d].enabled)
    BY <2>1, UpdatedType
  <2>5. cfg' \in {cfg, [u EXCEPT ![c] = x]}
    BY <2>2
  <2>6. u[c] \in Config
    BY <2>1, <2>4
  <2>7. x \in Config /\ x.life = u[c].life /\ x.enabled = u[c].enabled /\ x.next = u[c].next
    BY <2>1, <2>6 DEF Config
  <2> HIDE DEF c, n, s, u, x
  <2>8. cfg' \in [Configs -> Config]
    BY <1>1, <2>4, <2>5, <2>7
  <2>9. ASSUME NEW d \in Configs
        PROVE  /\ cfg'[d].next # 0 => cfg'[d].enabled
               /\ cfg'[d].life # "live" => ~cfg'[d].enabled
    <3>1. cfg'[d] \in {cfg[d], u[d]} \/ (d = c /\ cfg'[d] = x)
      BY <2>4, <2>5
    <3>2. CASE cfg'[d] = cfg[d]
      BY <1>1, <3>2
    <3>3. CASE cfg'[d] = u[d]
      BY <1>1, <2>4, <3>3
    <3>4. CASE d = c /\ cfg'[d] = x
      BY <1>1, <2>4, <2>7, <3>4
    <3> QED
      BY <3>1, <3>2, <3>3, <3>4
  <2> QED
    BY <1>1, <1>7, <2>1, <2>3, <2>8, <2>9 DEF c
<1>10. CASE SwitchedOff(r)
  <2> DEFINE x == [cfg[c] EXCEPT !.enabled = FALSE, !.next = 0]
  <2>1. c \in Configs /\ cfg[c] \in Config
    BY <1>3, <1>6, <1>10 DEF SwitchedOff
  <2>2. cfg' \in {cfg, [cfg EXCEPT ![c] = x]}
    BY <1>10 DEF SwitchedOff
  <2>3. off' = off \union {c} /\ UNCHANGED <<job, made, late, raced>>
    BY <1>10 DEF SwitchedOff
  <2>4. x \in Config /\ x.next = 0 /\ ~x.enabled
    BY <1>2, <2>1 DEF Config
  <2> HIDE DEF c, x
  <2>5. cfg' \in [Configs -> Config] /\ \A d \in Configs : cfg'[d] \in {cfg[d], x}
    BY <1>1, <2>1, <2>2, <2>4
  <2>6. \A d \in Configs : /\ cfg'[d].next # 0 => cfg'[d].enabled
                           /\ cfg'[d].life # "live" => ~cfg'[d].enabled
    BY <1>1, <2>4, <2>5
  <2> QED
    BY <1>1, <1>7, <2>1, <2>3, <2>5, <2>6 DEF c
<1>11. CASE RunCreate(r)
  <2> DEFINE x == [id |-> made + 1, status |-> "queued", scheduled |-> FALSE]
  <2>1. c \in Configs
    BY <1>3, <1>11 DEF RunCreate
  <2>2. \/ made < MaxJobs /\ made' = made + 1 /\ job' = [job EXCEPT ![c] = x]
        \/ UNCHANGED <<job, made>>
    BY <1>11 DEF RunCreate, Create
  <2>3. UNCHANGED <<cfg, off, raced, late>>
    BY <1>11 DEF RunCreate, history
  <2>4. made < MaxJobs => x \in Job
    BY <1>1 DEF Job
  <2> HIDE DEF c, x
  <2>5. job' \in [Configs -> Job] /\ made' \in 0..MaxJobs
    BY <1>1, <2>1, <2>2, <2>4
  <2> QED
    BY <1>1, <1>7, <2>3, <2>5 DEF c
<1>12. CASE Deleted(r)
  <2> DEFINE gone == [NewConfig EXCEPT !.life = "deleted"]
  <2>1. c \in Configs
    BY <1>3, <1>12 DEF Deleted
  <2>2. cfg' \in {cfg, [cfg EXCEPT ![c] = gone]}
    BY <1>12 DEF Deleted
  <2>3. off' = off \union {c} /\ UNCHANGED <<job, made, late, raced>>
    BY <1>12 DEF Deleted
  <2>4. gone \in Config /\ ~gone.enabled /\ gone.next = 0
    BY <1>2 DEF NewConfig, Config
  <2> HIDE DEF c, gone
  <2>5. cfg' \in [Configs -> Config] /\ \A d \in Configs : cfg'[d] \in {cfg[d], gone}
    BY <1>1, <2>1, <2>2, <2>4
  <2>6. \A d \in Configs : /\ cfg'[d].next # 0 => cfg'[d].enabled
                           /\ cfg'[d].life # "live" => ~cfg'[d].enabled
    BY <1>1, <2>4, <2>5
  <2> QED
    BY <1>1, <1>7, <2>1, <2>3, <2>5, <2>6 DEF c
<1> QED
  BY <1>8, <1>9, <1>10, <1>11, <1>12 DEF Returns

LEMMA TypesKeep ==
    ASSUME TypeOK, CallsOK, OverdueOK, PollOK, [Next]_vars
    PROVE  TypeOK' /\ CallsOK'
<1>1. OverdueOK' /\ overdue' \in 0..MaxCalls /\ calls' \in 0..MaxCalls
  BY OverdueKeeps
<1>2. /\ now \in 0..MaxTime /\ made \in 0..MaxJobs
      /\ cfg \in [Configs -> Config] /\ \A c \in Configs : cfg[c].next # 0 => cfg[c].enabled
      /\ job \in [Configs -> Job] /\ poll \in Poll
      /\ fired \subseteq (Configs \X Slots) /\ repeats \in Nat
      /\ off \subseteq Configs /\ late \in [Configs -> Nat] /\ raced \subseteq Configs
      /\ crashes \in 0..MaxCrashes
      /\ call \in [Threads -> Calls] /\ \A c \in Configs : cfg[c].life # "live" => ~cfg[c].enabled
  BY DEF TypeOK, CallsOK
<1>3. ASSUME call' \in [Threads -> Calls]
      PROVE  \A r \in Threads : call'[r].pc \in {"idle", "on", "edit", "off", "cancelled", "run", "delete"}
  BY <1>3, CallForms
<1>4. CASE PollStep
  <2>1. UNCHANGED <<now, call, off, raced, crashes>>
    BY <1>4 DEF PollStep, PollStart, Repair, EnqueueCreate, EnqueueCoalesce, EnqueueFail, PollRecord,
       PollEnd, history, bounds
  <2> QED
    BY <1>1, <1>2, <1>3, <1>4, <2>1, PollStepTypes DEF TypeOK, CallsOK
<1>5. CASE \E c \in Configs : CreateConfig(c)
  <2>1. PICK c \in Configs : CreateConfig(c)
    BY <1>5
  <2>2. cfg' = [cfg EXCEPT ![c].life = "live"] /\ UNCHANGED <<now, job, made, poll, call, history, crashes>>
    BY <2>1 DEF CreateConfig
  <2>3. \A d \in Configs : cfg[d] \in Config
    BY <1>2
  <2>4. cfg' \in [Configs -> Config]
    BY <1>2, <2>2, <2>3 DEF Config
  <2> QED
    BY <1>1, <1>2, <1>3, <2>2, <2>3, <2>4 DEF TypeOK, CallsOK, history
<1>6. CASE \E r \in Threads : Begins(r)
  <2>1. PICK r \in Threads : Begins(r)
    BY <1>6
  <2>2. PICK state \in Calls : call' = [call EXCEPT ![r] = state]
    BY <2>1, BeginsWith
  <2>3. UNCHANGED <<now, cfg, job, made, poll, history, crashes>>
    BY <2>1, BeginsWith
  <2>4. call' \in [Threads -> Calls]
    BY <1>2, <2>2
  <2> QED
    BY <1>1, <1>2, <1>3, <2>3, <2>4 DEF TypeOK, CallsOK, history
<1>7. CASE \E r \in Threads : Returns(r)
  <2>1. PICK r \in Threads : Returns(r)
    BY <1>7
  <2>2. call' = [call EXCEPT ![r] = Idle] /\ UNCHANGED <<now, poll, fired, repeats, calls, crashes>>
    BY <2>1, ReturnTypes
  <2>3. call' \in [Threads -> Calls]
    BY <1>2, <2>2, IdleForm
  <2> QED
    BY <1>1, <1>2, <1>3, <2>1, <2>2, <2>3, ReturnTypes DEF TypeOK, CallsOK
<1>8. CASE \E r \in Threads : CancelPending(r)
  <2>1. PICK r \in Threads : CancelPending(r)
    BY <1>8
  <2>2. /\ call[r].pc = "off" /\ call' = [call EXCEPT ![r].pc = "cancelled"]
        /\ UNCHANGED <<now, cfg, made, poll, history, bounds>>
        /\ job' \in {job, [job EXCEPT ![call[r].c] = NoJob]}
    BY <2>1 DEF CancelPending
  <2>3. call' \in [Threads -> Calls]
    BY <1>2, <2>2, CallForms
  <2>4. NoJob \in Job
    BY ScheduleAssumption DEF NoJob, Job
  <2>5. job' \in [Configs -> Job]
    BY <1>2, <2>2, <2>4
  <2> QED
    BY <1>1, <1>2, <1>3, <2>2, <2>3, <2>5 DEF TypeOK, CallsOK, history, bounds
<1>9. CASE Tick
  <2>1. now' \in 0..MaxTime /\ UNCHANGED <<cfg, job, made, poll, call, history, bounds>>
    BY <1>2, <1>9, ScheduleAssumption DEF Tick
  <2> QED
    BY <1>1, <1>2, <1>3, <2>1 DEF TypeOK, CallsOK, history, bounds
<1>10. CASE JobStep
  <2>1. PICK c \in Configs : JobStarts(c) \/ JobEnds(c)
    BY <1>10 DEF JobStep
  <2>2. /\ job' \in {[job EXCEPT ![c].status = "running"], [job EXCEPT ![c] = NoJob]}
        /\ UNCHANGED <<now, cfg, made, poll, call, history, bounds>>
    BY <2>1 DEF JobStarts, JobEnds
  <2>3. NoJob \in Job /\ job[c] \in Job
    BY <1>2, ScheduleAssumption DEF NoJob, Job
  <2> DEFINE x == [job[c] EXCEPT !.status = "running"]
  <2>5. x \in Job /\ job' \in {[job EXCEPT ![c] = x], [job EXCEPT ![c] = NoJob]}
    BY <2>2, <2>3 DEF Job
  <2> HIDE DEF x
  <2>4. job' \in [Configs -> Job]
    BY <1>2, <2>3, <2>5
  <2> QED
    BY <1>1, <1>2, <1>3, <2>2, <2>4 DEF TypeOK, CallsOK, history, bounds
<1>11. CASE Restart
  <2>1. /\ crashes' \in 0..MaxCrashes /\ poll' = Waiting /\ call' = [r \in Threads |-> Idle]
        /\ UNCHANGED <<now, cfg, made, history, calls>>
    BY <1>2, <1>11, ScheduleAssumption DEF Restart
  <2>2. call' \in [Threads -> Calls]
    BY <2>1, IdleForm
  <2>3. PICK S \in SUBSET Configs :
           job' = [c \in Configs |-> IF c \in S THEN [job[c] EXCEPT !.status = "queued"] ELSE job[c]]
    BY <1>11 DEF Restart
  <2>4. \A c \in Configs : job[c] \in Job /\ [job[c] EXCEPT !.status = "queued"] \in Job
    <3> TAKE c \in Configs
    <3>1. job[c] \in Job
      BY <1>2
    <3> QED
      BY <3>1 DEF Job
  <2>5. job' \in [Configs -> Job]
    BY <2>3, <2>4
  <2> QED
    BY <1>1, <1>2, <1>3, <2>1, <2>2, <2>5, WaitingType DEF TypeOK, CallsOK, history
<1>12. CASE UNCHANGED vars
  BY <1>1, <1>2, <1>3, <1>12 DEF vars, history, bounds, TypeOK, CallsOK
<1> QED
  BY <1>4, <1>5, <1>6, <1>7, <1>8, <1>9, <1>10, <1>11, <1>12, Steps

--------------------------------------------------------------------------------
(* The poll. *)

LEMMA NothingDue == Waiting.due = <<>> /\ Range(Waiting.due) = {} /\ Waiting.pc = "wait"
BY DEF Waiting, Range

\* What a poll has ahead of it.
LEMMA AheadForm ==
    ASSUME TypeOK, PollOK
    PROVE  /\ Ahead \subseteq Range(poll.due) /\ Range(poll.due) \subseteq Configs
           /\ poll.pc = "wait" => Ahead = {} /\ poll.repair = {} /\ Range(poll.due) = {}
           /\ poll.pc = "enqueue" => Ahead = Range(poll.due)
           /\ poll.pc = "record" => /\ Ahead = Range(Tail(poll.due)) /\ Head(poll.due) \in Range(poll.due)
                                     /\ Head(poll.due) \notin Ahead
<1>1. poll.pc \in {"wait", "enqueue", "record"} /\ poll.due \in Seq(Configs) /\ IsInjective(poll.due)
  BY DEF TypeOK, Poll, PollOK
<1>2. Range(poll.due) \subseteq Configs
  BY <1>1 DEF Range
<1>3. CASE poll.pc = "wait"
  BY <1>2, <1>3, NothingDue DEF PollOK, Ahead, Waiting
<1>4. CASE poll.pc = "enqueue"
  BY <1>2, <1>4 DEF Ahead
<1>5. CASE poll.pc = "record"
  <2>1. Range(Tail(poll.due)) = Range(poll.due) \ {Head(poll.due)} /\ Head(poll.due) \in Range(poll.due)
    BY <1>1, <1>5, Behind DEF PollOK
  <2> QED
    BY <1>2, <1>5, <2>1 DEF Ahead
<1> QED
  BY <1>1, <1>3, <1>4, <1>5

\* The poll begins, moves on, or ends; the rest leaves it alone.
Begun ==
    /\ poll.pc = "wait" /\ poll'.pc = "enqueue" /\ poll'.now = now
    /\ poll'.due \in Seq(Configs) /\ IsInjective(poll'.due)
    /\ Range(poll'.due) = {c \in Configs : Due(c) /\ cfg[c].next # 0}
    /\ poll'.repair \subseteq {c \in Configs : Due(c)}
    /\ \A c \in Configs : Due(c) => poll'.seen[c] = cfg[c]
    /\ UNCHANGED <<now, cfg, call, history, crashes>>

MovedOn ==
    /\ poll.pc # "wait" /\ poll'.now = poll.now /\ poll'.seen = poll.seen
    /\ poll'.repair \subseteq poll.repair
    /\ \/ poll.pc = "enqueue" /\ poll'.pc = "enqueue" /\ poll'.due = poll.due
       \/ poll.pc = "enqueue" /\ poll'.pc = "record" /\ poll'.due = poll.due /\ poll.due # <<>>
       \/ poll.pc = "record" /\ poll'.pc = "enqueue" /\ poll'.due = Tail(poll.due)

LEMMA StartForm ==
    ASSUME TypeOK, PollStart
    PROVE  /\ Begun /\ Ahead' = {c \in Configs : Due(c) /\ cfg[c].next # 0}
           /\ \A c \in Ahead' : poll'.seen[c] = cfg[c]
<1> DEFINE due == {c \in Configs : Due(c)}
           new == {c \in due : cfg[c].next # 0}
           seen == [c \in Configs |-> IF c \in due THEN cfg[c] ELSE NewConfig]
           fix == {c \in due : cfg[c].next = 0}
<1>1. PICK s \in DueOrders(new) :
         poll' = [pc |-> "enqueue", now |-> now, due |-> s, seen |-> seen, repair |-> fix]
  BY DEF PollStart
<1>2. s \in Seq(Configs) /\ Range(s) = new /\ IsInjective(s)
  BY OrderOf
<1>3. \A c \in Configs : Due(c) => seen[c] = cfg[c]
  OBVIOUS
<1>4. poll.pc = "wait" /\ UNCHANGED <<now, cfg, call, history, crashes>>
  BY DEF PollStart, bounds
<1>5. fix \subseteq due /\ new = {c \in Configs : Due(c) /\ cfg[c].next # 0}
  OBVIOUS
<1> HIDE DEF seen, fix, new
<1>6. /\ poll'.pc = "enqueue" /\ poll'.now = now /\ poll'.due = s /\ poll'.seen = seen
      /\ poll'.repair = fix
  BY <1>1
<1>7. Begun
  BY <1>2, <1>3, <1>4, <1>5, <1>6 DEF Begun
<1>8. Ahead' = Range(poll'.due)
  BY <1>6 DEF Ahead
<1> QED
  BY <1>7, <1>8 DEF Begun

LEMMA PollForms ==
    ASSUME TypeOK, PollOK, [Next]_vars
    PROVE  PollStart \/ MovedOn \/ poll' = Waiting \/ poll' = poll
<1>1. poll \in Poll
  BY DEF TypeOK
<1>3. CASE \E c \in Configs : Repair(c)
  BY <1>1, <1>3 DEF Repair, MovedOn, Poll
<1>4. CASE EnqueueCreate \/ EnqueueCoalesce \/ EnqueueFail
  BY <1>1, <1>4 DEF EnqueueCreate, EnqueueCoalesce, EnqueueFail, Coalesced, MovedOn, Poll
<1>5. CASE PollRecord
  BY <1>1, <1>5 DEF PollRecord, MovedOn, Poll
<1>6. CASE PollEnd \/ Restart
  BY <1>6 DEF PollEnd, Restart
<1>7. CASE \E c \in Configs : CreateConfig(c)
  BY <1>7 DEF CreateConfig
<1>8. CASE \E r \in Threads : Begins(r) \/ Returns(r) \/ CancelPending(r)
  BY <1>8, BeginsWith DEF Returns, SwitchedOn, Edited, SwitchedOff, RunCreate, Deleted, CancelPending
<1>9. CASE Tick \/ JobStep \/ UNCHANGED vars
  BY <1>9 DEF Tick, JobStep, JobStarts, JobEnds, vars
<1> QED
  BY <1>3, <1>4, <1>5, <1>6, <1>7, <1>8, <1>9, Steps DEF PollStep

\* The clock.
LEMMA ClockForms ==
    ASSUME TypeOK, [Next]_vars
    PROVE  now' = now \/ now' = now + 1
<1>1. CASE \E r \in Threads : Begins(r)
  BY <1>1, BeginsWith
<1>2. CASE ~\E r \in Threads : Begins(r)
  BY <1>2, Steps DEF PollStep, PollStart, Repair, EnqueueCreate, EnqueueCoalesce, EnqueueFail, PollRecord,
     PollEnd, CreateConfig, Returns, SwitchedOn, Edited, SwitchedOff, RunCreate, Deleted, CancelPending,
     Tick, JobStep, JobStarts, JobEnds, Restart, vars
<1> QED
  BY <1>1, <1>2

LEMMA PollKeeps ==
    ASSUME TypeOK, PollOK, [Next]_vars
    PROVE  PollOK'
<1>1. now \in Nat /\ poll.now \in Nat /\ poll.now <= now /\ poll.due \in Seq(Configs)
      /\ IsInjective(poll.due)
  BY DEF TypeOK, Poll, PollOK
<1>2. now' >= now /\ now' \in Nat
  BY <1>1, ClockForms
<1>3. CASE poll' = poll
  BY <1>1, <1>2, <1>3 DEF PollOK
<1>4. CASE poll' = Waiting
  BY <1>1, <1>2, <1>4, NothingDue DEF PollOK, Waiting, IsInjective
<1>5. CASE Begun
  <2>1. \A c \in Configs : Due(c) /\ cfg[c].next # 0 => cfg[c].next \in 1..now
    BY <1>1 DEF TypeOK, Config, Slots, Due
  <2> QED
    BY <1>1, <1>5, <2>1 DEF PollOK, Begun
<1>6. CASE MovedOn
  <2>1. poll.pc = "record" => /\ IsInjective(Tail(poll.due))
                              /\ Range(Tail(poll.due)) \subseteq Range(poll.due)
    BY <1>1, Behind DEF PollOK
  <2> QED
    BY <1>1, <1>2, <1>6, <2>1 DEF PollOK, MovedOn
<1> QED
  BY <1>3, <1>4, <1>5, <1>6, PollForms, StartForm

\* A slot fires in a poll that has seen it.
LEMMA FiredForms ==
    ASSUME TypeOK, PollOK, [Next]_vars
    PROVE  \/ fired' = fired /\ repeats' = repeats
           \/ EnqueueCreate
<1> QED
  BY Steps, BeginsWith DEF PollStep, PollStart, Repair, EnqueueCoalesce, EnqueueFail, PollRecord,
     PollEnd, CreateConfig, Returns, SwitchedOn, Edited, SwitchedOff, RunCreate, Deleted, CancelPending,
     Tick, JobStep, JobStarts, JobEnds, Restart, vars, history

LEMMA FiredKeeps ==
    ASSUME TypeOK, PollOK, FiredOK, [Next]_vars
    PROVE  FiredOK'
<1> DEFINE Bound == IF poll.pc = "wait" THEN now ELSE poll.now
<1>1. now \in Nat /\ poll.now \in Nat /\ poll.now <= now /\ fired \subseteq Configs \X Slots
      /\ \A slot \in Configs \X Slots : slot[2] \in Nat
  BY ScheduleAssumption DEF TypeOK, Poll, PollOK, Slots
<1>2. now' \in {now, now + 1}
  BY ClockForms
<1>3. Bound' >= Bound
  BY <1>1, <1>2, PollForms, StartForm, NothingDue DEF Begun, MovedOn
<1>4. Bound \in Nat /\ Bound' \in Nat
  BY <1>1, <1>2, PollForms, StartForm, NothingDue DEF Begun, MovedOn
<1>5. \A slot \in fired : slot[2] # 0 /\ slot[2] <= Bound
  BY DEF FiredOK
<1>6. ASSUME NEW slot \in fired' PROVE slot[2] # 0 /\ slot[2] <= Bound'
  <2>1. CASE slot \in fired
    <3>1. slot[2] \in Nat
      BY <1>1, <2>1
    <3> QED
      BY <1>3, <1>4, <1>5, <2>1, <3>1
  <2>2. CASE slot \notin fired
    <3>1. EnqueueCreate
      BY <2>2, <1>6, FiredForms
    <3> DEFINE c == Head(poll.due)
    <3>2. slot = <<c, poll.seen[c].next>> /\ poll.due # <<>> /\ poll'.pc = "record" /\ poll'.now = poll.now
      BY <1>6, <2>2, <3>1 DEF EnqueueCreate, TypeOK, Poll
    <3>3. c \in Range(poll.due)
      BY <3>2, Behind DEF TypeOK, Poll, PollOK
    <3>4. poll.seen[c].next \in 1..poll.now
      BY <3>3 DEF PollOK
    <3> QED
      BY <1>1, <3>2, <3>4
  <2> QED
    BY <2>1, <2>2
<1> QED
  BY <1>6 DEF FiredOK

\* What a poll has ahead shrinks, once it has begun.
LEMMA AheadShrinks ==
    ASSUME TypeOK, PollOK, [Next]_vars, ~PollStart
    PROVE  /\ Ahead' \subseteq Ahead
           /\ \A c \in Ahead' : poll'.seen[c] = poll.seen[c]
<1> USE AheadForm
<1>1. CASE poll' = poll
  BY <1>1 DEF Ahead
<1>2. CASE poll' = Waiting
  BY <1>2, NothingDue DEF Ahead
<1>3. CASE MovedOn
  <2>1. poll.due \in Seq(Configs) /\ IsInjective(poll.due)
    BY DEF TypeOK, Poll, PollOK
  <2>2. poll.due # <<>> => Range(Tail(poll.due)) \subseteq Range(poll.due)
    BY <2>1, Behind
  <2>3. Ahead' \subseteq Ahead
    BY <1>3, <2>2 DEF MovedOn, Ahead
  <2> QED
    BY <1>3, <2>3 DEF MovedOn
<1> QED
  BY <1>1, <1>2, <1>3, PollForms

LEMMA CreateForms ==
    ASSUME TypeOK, PollOK, EnqueueCreate
    PROVE  LET c == Head(poll.due) IN
           /\ c \in Configs /\ c \in Ahead /\ Ahead' = Ahead \ {c}
           /\ poll'.pc = "record" /\ Head(poll'.due) = c /\ poll.pc = "enqueue" /\ poll'.seen = poll.seen
           /\ fired' = fired \union {<<c, poll.seen[c].next>>}
           /\ repeats' = IF <<c, poll.seen[c].next>> \in fired THEN repeats + 1 ELSE repeats
           /\ late' = IF c \in off THEN [late EXCEPT ![c] = @ + 1] ELSE late
           /\ UNCHANGED <<cfg, off, overdue, crashes>>
<1>1. poll.pc = "enqueue" /\ poll.due # <<>> /\ poll' = [poll EXCEPT !.pc = "record"]
  BY DEF EnqueueCreate
<1>2. poll \in Poll /\ poll.due \in Seq(Configs) /\ IsInjective(poll.due)
  BY DEF TypeOK, Poll, PollOK
<1>3. poll'.pc = "record" /\ poll'.due = poll.due /\ poll'.seen = poll.seen
  BY <1>1, <1>2 DEF Poll
<1>4. /\ Head(poll.due) \in Configs /\ Head(poll.due) \in Range(poll.due)
      /\ Range(Tail(poll.due)) = Range(poll.due) \ {Head(poll.due)}
  BY <1>1, <1>2, Behind
<1>5. Ahead = Range(poll.due) /\ Ahead' = Range(Tail(poll.due))
  BY <1>1, <1>3 DEF Ahead
<1> QED
  BY <1>1, <1>3, <1>4, <1>5 DEF EnqueueCreate, bounds

\* What the poller writes.
LEMMA PollWrites ==
    ASSUME TypeOK, CallsOK, PollOK, PollStep, ~PollStart
    PROVE  \/ cfg' = cfg
           \/ \E c \in Configs :
                 /\ cfg' = Updated(c, NextRun(poll.seen[c].setting, poll.now)) /\ cfg[c].life = "live"
                 /\ c \in poll.repair \union Range(poll.due)
                 /\ poll.pc = "record" => c = Head(poll.due)
<1>1. CASE \E c \in Configs : Repair(c)
  BY <1>1 DEF Repair, Exists
<1>2. CASE PollRecord
  BY <1>2, PollTypes, AheadForm DEF PollRecord, Exists
<1> QED
  BY <1>1, <1>2 DEF PollStep, EnqueueCreate, EnqueueCoalesce, EnqueueFail, PollEnd

\* What a request writes when it returns.
LEMMA ReturnWrites ==
    ASSUME TypeOK, CallsOK, NEW r \in Threads, Returns(r)
    PROVE  /\ \A d \in Configs :
                 \/ cfg'[d].next \in {0, cfg[d].next}
                 \/ /\ d = call[r].c /\ cfg'[d].next = call[r].next
                    /\ call[r].next <= now => overdue' = overdue + 1
           /\ overdue' \in {overdue, overdue + 1}
           /\ call[r].pc \in {"on", "edit"} => call[r].next \in Nat \ {0}
<1>1. /\ cfg \in [Configs -> Config] /\ call[r] \in Calls /\ overdue \in Nat
      /\ 0 \in Slots /\ Slots \subseteq Nat
  BY ScheduleAssumption DEF TypeOK, CallsOK, Slots
<1>2. /\ call[r].c \in Configs
      /\ call[r].pc \in {"on", "edit"} => call[r].next \in Slots \ {0}
  BY <1>1, ReturnTypes, CallForms
<1>3. CASE SwitchedOn(r)
  BY <1>1, <1>2, <1>3 DEF SwitchedOn, CountOverdue
<1>4. CASE Edited(r)
  <2> DEFINE c == call[r].c
             n == call[r].next
             s == call[r].setting
             u == Updated(c, n)
  <2>1. c \in Configs /\ n \in Slots /\ n \in Nat
    BY <1>1, <1>2, <1>4 DEF Edited
  <2>2. u \in [Configs -> Config] /\ \A d \in Configs : (d # c => u[d] = cfg[d]) /\ (d = c => u[d].next \in {0, n})
    BY <2>1, UpdatedType
  <2>3. CASE Exists(c)
    <3>1. cfg' = [u EXCEPT ![c].setting = s]
      BY <1>4, <2>3 DEF Edited
    <3>2. overdue' = IF n <= now THEN overdue + 1 ELSE overdue
      BY <1>4, <2>3 DEF Edited, CountOverdue
    <3> HIDE DEF c, n, s, u
    <3>3. \A d \in Configs : cfg'[d].next = u[d].next
      <4> TAKE d \in Configs
      <4>1. u[d] \in Config
        BY <2>2
      <4>2. cfg'[d] = u[d] \/ cfg'[d] = [u[d] EXCEPT !.setting = s]
        BY <2>2, <3>1
      <4> QED
        BY <4>1, <4>2 DEF Config
    <3> QED
      BY <1>1, <1>2, <2>1, <2>2, <3>2, <3>3 DEF c, n
  <2>4. CASE ~Exists(c)
    BY <1>1, <1>2, <1>4, <2>4 DEF Edited, CountOverdue
  <2> QED
    BY <2>3, <2>4
<1>5. CASE SwitchedOff(r)
  BY <1>1, <1>2, <1>5 DEF SwitchedOff
<1>6. CASE RunCreate(r)
  BY <1>1, <1>2, <1>6 DEF RunCreate, history
<1>7. CASE Deleted(r)
  BY <1>1, <1>2, <1>7 DEF Deleted, NewConfig
<1> QED
  BY <1>3, <1>4, <1>5, <1>6, <1>7 DEF Returns

--------------------------------------------------------------------------------
(* Slots fire once. *)

LEMMA NotFired ==
    ASSUME FiredOK, NEW c, NEW n \in Nat,
           \/ n = 0 \/ (poll.pc = "wait" /\ n > now)
           \/ (poll.now \in Nat /\ now \in Nat /\ poll.now <= now /\ n > now)
           \/ (poll.pc # "wait" /\ n > poll.now),
           now \in Nat, poll.now \in Nat
    PROVE  <<c, n>> \notin fired
BY DEF FiredOK

LEMMA FewerSuspects ==
    ASSUME TypeOK, RepeatsOK, Suspects' \subseteq Suspects, repeats' = repeats, crashes' = crashes,
           overdue' \in {overdue, overdue + 1}
    PROVE  RepeatsOK'
<1>1. IsFiniteSet(Suspects)
  BY ScheduleAssumption, FS_Subset DEF Suspects
<1>2. IsFiniteSet(Suspects') /\ Cardinality(Suspects') <= Cardinality(Suspects)
  BY <1>1, FS_Subset
<1>3. Cardinality(Suspects) \in Nat /\ Cardinality(Suspects') \in Nat
  BY <1>1, <1>2, FS_CardinalityType
<1> QED
  BY <1>2, <1>3 DEF RepeatsOK, TypeOK

LEMMA OneMoreSuspect ==
    ASSUME TypeOK, RepeatsOK, NEW c, Suspects' \subseteq Suspects \union {c}, repeats' = repeats,
           crashes' + overdue' = crashes + overdue + 1
    PROVE  RepeatsOK'
<1>1. IsFiniteSet(Suspects)
  BY ScheduleAssumption, FS_Subset DEF Suspects
<1>2. IsFiniteSet(Suspects \union {c}) /\ Cardinality(Suspects \union {c}) <= Cardinality(Suspects) + 1
  <2>1. Cardinality(Suspects) \in Nat
    BY <1>1, FS_CardinalityType
  <2> QED
    BY <1>1, <2>1, FS_AddElement
<1>3. IsFiniteSet(Suspects') /\ Cardinality(Suspects') <= Cardinality(Suspects \union {c})
  BY <1>2, FS_Subset
<1>4. /\ Cardinality(Suspects) \in Nat /\ Cardinality(Suspects') \in Nat
      /\ Cardinality(Suspects \union {c}) \in Nat
  BY <1>1, <1>2, <1>3, FS_CardinalityType
<1> QED
  BY <1>2, <1>3, <1>4 DEF RepeatsOK, TypeOK

LEMMA RepeatsKeep ==
    ASSUME TypeOK, CallsOK, OverdueOK, PollOK, FiredOK, RepeatsOK, [Next]_vars
    PROVE  RepeatsOK'
<1>1. /\ now \in Nat /\ poll.now \in Nat /\ poll.now <= now /\ repeats \in Nat /\ crashes \in Nat
      /\ overdue \in Nat /\ cfg \in [Configs -> Config] /\ \A c \in Configs : cfg[c].next \in Nat
      /\ Slots \subseteq Nat
  BY ScheduleAssumption DEF TypeOK, Poll, PollOK, Config, Slots
<1>2. \A c \in Configs : <<c, 0>> \notin fired
  BY DEF FiredOK
<1>3. CASE EnqueueCreate
  <2> DEFINE c == Head(poll.due)
             slot == <<c, poll.seen[c].next>>
  <2>1. /\ c \in Configs /\ c \in Ahead /\ Ahead' = Ahead \ {c} /\ poll'.pc = "record"
        /\ Head(poll'.due) = c /\ poll.pc = "enqueue" /\ poll'.seen = poll.seen
        /\ fired' = fired \union {slot} /\ UNCHANGED <<cfg, overdue, crashes>>
        /\ repeats' = IF slot \in fired THEN repeats + 1 ELSE repeats
    BY <1>3, CreateForms
  <2> HIDE DEF c
  <2>2. Suspects' \subseteq Suspects \ {c}
    BY <2>1 DEF Suspects, Suspect, Recording
  <2>3. CASE slot \notin fired
    BY <2>1, <2>2, <2>3, FewerSuspects
  <2>4. CASE slot \in fired
    <3>1. c \in Suspects
      BY <2>1, <2>4 DEF Suspects, Suspect
    <3>2. IsFiniteSet(Suspects) /\ Cardinality(Suspects) \in Nat
      BY ScheduleAssumption, FS_Subset, FS_CardinalityType DEF Suspects
    <3>3. IsFiniteSet(Suspects \ {c}) /\ Cardinality(Suspects \ {c}) = Cardinality(Suspects) - 1
      BY <3>1, <3>2, FS_RemoveElement
    <3>4. IsFiniteSet(Suspects') /\ Cardinality(Suspects') <= Cardinality(Suspects \ {c})
      BY <2>2, <3>3, FS_Subset
    <3>5. Cardinality(Suspects') \in Nat
      BY <3>4, FS_CardinalityType
    <3> QED
      BY <1>1, <2>1, <2>4, <3>2, <3>3, <3>4, <3>5 DEF RepeatsOK
  <2> QED
    BY <2>3, <2>4
<1>4. CASE Restart
  <2> DEFINE c == Head(poll.due)
  <2>1. poll' = Waiting /\ cfg' = cfg /\ fired' = fired /\ repeats' = repeats /\ overdue' = overdue
        /\ crashes' = crashes + 1
    BY <1>4 DEF Restart, history
  <2>2. Ahead' = {}
    BY <2>1, NothingDue DEF Ahead
  <2>3. Suspects' \subseteq Suspects \union {c}
    BY <2>1, <2>2 DEF Suspects, Suspect, Recording
  <2> QED
    BY <1>1, <2>1, <2>3, OneMoreSuspect
<1>5. CASE PollStep /\ ~EnqueueCreate
  <2>1. fired' = fired /\ repeats' = repeats /\ overdue' = overdue /\ crashes' = crashes
    BY <1>5 DEF PollStep, PollStart, Repair, EnqueueCoalesce, EnqueueFail, PollRecord, PollEnd, history,
       bounds
  <2>2. CASE PollStart
    <3>1. /\ Begun /\ Ahead' = {c \in Configs : Due(c) /\ cfg[c].next # 0}
          /\ \A c \in Ahead' : poll'.seen[c] = cfg[c]
      BY <2>2, StartForm
    <3>2. Suspects' \subseteq Suspects
      BY <2>1, <3>1 DEF Begun, Suspects, Suspect, Recording
    <3> QED
      BY <2>1, <3>2, FewerSuspects
  <2>3. CASE ~PollStart
    <3>1. Ahead' \subseteq Ahead /\ \A c \in Ahead' : poll'.seen[c] = poll.seen[c]
      BY <2>3, AheadShrinks
    <3>2. poll.pc # "wait"
      BY <1>5, <2>3 DEF PollStep, Repair, EnqueueCoalesce, EnqueueFail, PollRecord, PollEnd
    <3>3. ASSUME NEW d \in Configs, <<d, cfg'[d].next>> \in fired
          PROVE  cfg'[d] = cfg[d]
      <4>1. CASE cfg' = cfg
        BY <4>1
      <4>2. CASE \E c \in Configs : cfg' = Updated(c, NextRun(poll.seen[c].setting, poll.now))
        <5> PICK c \in Configs : cfg' = Updated(c, NextRun(poll.seen[c].setting, poll.now))
          BY <4>2
        <5> DEFINE n == NextRun(poll.seen[c].setting, poll.now)
        <5>1. n \in Slots /\ n > poll.now /\ n \in Nat
          BY <1>1, PollTypes
        <5>2. <<c, n>> \notin fired
          BY <1>1, <3>2, <5>1, NotFired
        <5>3. cfg' = Updated(c, n)
          OBVIOUS
        <5> HIDE DEF n
        <5>4. (d # c => cfg'[d] = cfg[d]) /\ (d = c => cfg'[d].next \in {0, n})
          BY <5>1, <5>3, UpdatedType
        <5> QED
          BY <1>2, <3>3, <5>2, <5>4
      <4> QED
        BY <1>5, <2>3, <4>1, <4>2, PollWrites
    <3>4. ASSUME NEW d \in Configs, <<d, cfg[d].next>> \in fired, Recording(d), cfg'[d] = cfg[d]
          PROVE  Recording(d)'
      <4>1. poll.pc = "record" /\ d = Head(poll.due)
        BY <3>4 DEF Recording
      <4>2. PollRecord
        BY <1>5, <2>3, <4>1 DEF PollStep, Repair, EnqueueCoalesce, EnqueueFail, PollEnd
      <4>3. CASE Exists(d)
        <5> DEFINE n == NextRun(poll.seen[d].setting, poll.now)
        <5>1. n \in Slots /\ n > poll.now /\ n \in Nat
          BY <1>1, PollTypes
        <5>2. <<d, n>> \notin fired
          BY <1>1, <3>2, <5>1, NotFired
        <5>3. cfg' = Updated(d, n)
          BY <4>1, <4>2, <4>3 DEF PollRecord
        <5> HIDE DEF n
        <5>4. cfg'[d].next \in {0, n}
          BY <5>1, <5>3, UpdatedType
        <5> QED
          BY <1>2, <3>4, <5>2, <5>4
      <4>4. CASE ~Exists(d)
        BY <1>2, <3>4, <4>4 DEF CallsOK, TypeOK, Exists
      <4> QED
        BY <4>3, <4>4
    <3>5. \A d \in Configs : Suspect(d)' => Suspect(d)
      BY <2>1, <3>1, <3>3, <3>4 DEF Suspect
    <3>6. Suspects' \subseteq Suspects
      BY <3>5 DEF Suspects
    <3> QED
      BY <2>1, <3>6, FewerSuspects
  <2> QED
    BY <2>2, <2>3
<1>6. CASE \E r \in Threads : Returns(r)
  <2> PICK r \in Threads : Returns(r)
    BY <1>6
  <2> DEFINE c == call[r].c
             n == call[r].next
  <2>1. /\ \A d \in Configs :
              \/ cfg'[d].next \in {0, cfg[d].next}
              \/ d = c /\ cfg'[d].next = n /\ (n <= now => overdue' = overdue + 1)
        /\ overdue' \in {overdue, overdue + 1}
    BY ReturnWrites
  <2>2. UNCHANGED <<now, poll, fired, repeats, calls, crashes>>
    BY ReturnTypes
  <2>3. Ahead' = Ahead
    BY <2>2 DEF Ahead
  <2> HIDE DEF c, n
  <2>4. CASE overdue' = overdue + 1
    <3>1. Suspects' \subseteq Suspects \union {c}
      BY <1>2, <2>1, <2>2, <2>3 DEF Suspects, Suspect, Recording
    <3> QED
      BY <1>1, <2>2, <2>4, <3>1, OneMoreSuspect
  <2>5. CASE overdue' = overdue
    <3>1. ASSUME NEW d \in Configs, <<d, cfg'[d].next>> \in fired
          PROVE  cfg'[d].next = cfg[d].next
      <4>1. CASE cfg'[d].next \in {0, cfg[d].next}
        BY <1>2, <3>1, <4>1
      <4>2. CASE d = c /\ cfg'[d].next = n /\ (n <= now => overdue' = overdue + 1)
        <5>1. n \in Nat /\ ~(n <= now)
          <6>1. cfg'[d].next \in Nat
            BY <1>1, ReturnTypes DEF Config
          <6> QED
            BY <1>1, <2>5, <4>2, <6>1
        <5>2. <<d, n>> \notin fired
          BY <1>1, <5>1, NotFired
        <5> QED
          BY <3>1, <4>2, <5>2
      <4> QED
        BY <2>1, <4>1, <4>2
    <3>2. Suspects' \subseteq Suspects
      BY <2>2, <2>3, <3>1 DEF Suspects, Suspect, Recording
    <3> QED
      BY <2>2, <2>5, <3>2, FewerSuspects
  <2> QED
    BY <2>1, <2>4, <2>5
<1>7. ASSUME UNCHANGED <<poll, history, crashes>>, \A d \in Configs : cfg'[d].next = cfg[d].next
      PROVE  RepeatsOK'
  <2>1. Ahead' = Ahead /\ fired' = fired /\ repeats' = repeats /\ overdue' = overdue
    BY <1>7 DEF Ahead, history
  <2>2. Suspects' \subseteq Suspects
    BY <1>7, <2>1 DEF Suspects, Suspect, Recording
  <2> QED
    BY <1>7, <2>1, <2>2, FewerSuspects
<1>8. CASE \E c \in Configs : CreateConfig(c)
  <2> PICK c \in Configs : CreateConfig(c)
    BY <1>8
  <2>1. cfg' = [cfg EXCEPT ![c].life = "live"] /\ UNCHANGED <<poll, history, crashes>>
    BY DEF CreateConfig
  <2>2. \A d \in Configs : cfg[d] \in Config
    BY <1>1
  <2>3. \A d \in Configs : cfg'[d].next = cfg[d].next
    BY <1>1, <2>1, <2>2 DEF Config
  <2> QED
    BY <1>7, <2>1, <2>3
<1>9. CASE \/ Tick \/ JobStep \/ UNCHANGED vars
           \/ \E r \in Threads : Begins(r) \/ CancelPending(r)
  <2>1. UNCHANGED <<poll, history, crashes, cfg>>
    BY <1>9, BeginsWith DEF Tick, JobStep, JobStarts, JobEnds, vars, bounds, CancelPending
  <2> QED
    BY <1>7, <2>1
<1> QED
  BY <1>3, <1>4, <1>5, <1>6, <1>8, <1>9, Steps

--------------------------------------------------------------------------------
(* A config that is off stays off. *)

LEMMA OffKeeps ==
    ASSUME TypeOK, CallsOK, PollOK, OffOK, [Next]_vars
    PROVE  OffOK'
<1>1. /\ cfg \in [Configs -> Config] /\ late \in [Configs -> Nat]
      /\ \A c \in Configs : cfg[c].life # "live" => ~cfg[c].enabled
  BY DEF TypeOK, CallsOK
<1>2. CASE PollStart
  <2>1. /\ Ahead' = {c \in Configs : Due(c) /\ cfg[c].next # 0}
        /\ UNCHANGED <<cfg, off, late>>
    BY <1>2, StartForm DEF PollStart, history
  <2>2. \A c \in Ahead' : late[c] = 0
    BY <2>1 DEF OffOK, Due
  <2> QED
    BY <2>1, <2>2 DEF OffOK
<1>3. CASE EnqueueCreate
  <2> DEFINE c == Head(poll.due)
  <2>1. /\ c \in Configs /\ c \in Ahead /\ Ahead' = Ahead \ {c} /\ UNCHANGED <<cfg, off>>
        /\ late' = IF c \in off THEN [late EXCEPT ![c] = @ + 1] ELSE late
    BY <1>3, CreateForms
  <2>2. late[c] = 0
    BY <1>1, <2>1 DEF OffOK
  <2> HIDE DEF c
  <2> QED
    BY <1>1, <2>1, <2>2 DEF OffOK
<1>4. ASSUME ~PollStart, UNCHANGED <<off, late>>, \A c \in Configs : cfg'[c].enabled = cfg[c].enabled
      PROVE  OffOK'
  BY <1>4, AheadShrinks DEF OffOK
<1>5. CASE PollStep /\ ~PollStart /\ ~EnqueueCreate
  <2>1. UNCHANGED <<off, late>>
    BY <1>5 DEF PollStep, Repair, EnqueueCoalesce, EnqueueFail, PollRecord, PollEnd, history
  <2> QED
    BY <1>4, <1>5, <2>1, PollStepTypes
<1>6. CASE ~PollStart /\ \E c \in Configs : CreateConfig(c)
  <2> PICK c \in Configs : CreateConfig(c)
    BY <1>6
  <2>1. cfg' = [cfg EXCEPT ![c].life = "live"] /\ UNCHANGED <<off, late>>
    BY DEF CreateConfig, history
  <2>2. \A d \in Configs : cfg[d] \in Config
    BY <1>1
  <2>3. \A d \in Configs : cfg'[d].enabled = cfg[d].enabled
    BY <1>1, <2>1, <2>2 DEF Config
  <2> QED
    BY <1>4, <1>6, <2>1, <2>3
<1>7. CASE ~PollStart /\ \E r \in Threads : Returns(r)
  <2> PICK r \in Threads : Returns(r)
    BY <1>7
  <2> DEFINE c == call[r].c
             n == call[r].next
             s == call[r].setting
  <2>1. c \in Configs /\ cfg[c] \in Config /\ (call[r].pc = "edit" => n \in Slots)
    BY <1>1, ReturnTypes, CallForms DEF CallsOK
  <2>2. Ahead' \subseteq Ahead
    BY <1>7, AheadShrinks
  <2>3. CASE SwitchedOn(r) /\ Exists(c)
    <3>1. cfg' = [cfg EXCEPT ![c].enabled = TRUE, ![c].next = n] /\ off' = off \ {c}
          /\ late' = [late EXCEPT ![c] = 0]
      BY <2>3 DEF SwitchedOn
    <3> HIDE DEF c, n
    <3> QED
      BY <1>1, <2>1, <2>2, <3>1 DEF OffOK
  <2>4. CASE (SwitchedOn(r) \/ Edited(r)) /\ ~Exists(c)
    <3>1. UNCHANGED <<cfg, off, late>>
      BY <2>4 DEF SwitchedOn, Edited
    <3> QED
      BY <1>4, <1>7, <3>1
  <2>5. CASE Edited(r) /\ Exists(c)
    <3> DEFINE u == Updated(c, n)
    <3>1. cfg' = [u EXCEPT ![c].setting = s] /\ UNCHANGED <<off, late>>
      BY <2>5 DEF Edited
    <3>2. u \in [Configs -> Config] /\ \A d \in Configs : u[d].enabled = cfg[d].enabled
      BY <2>1, <2>5, UpdatedType DEF Edited
    <3> HIDE DEF c, n, s, u
    <3>3. \A d \in Configs : cfg'[d].enabled = u[d].enabled
      <4> TAKE d \in Configs
      <4>1. u[d] \in Config
        BY <3>2
      <4>2. cfg'[d] = u[d] \/ cfg'[d] = [u[d] EXCEPT !.setting = s]
        BY <3>1, <3>2
      <4> QED
        BY <4>1, <4>2 DEF Config
    <3> QED
      BY <1>4, <1>7, <3>1, <3>2, <3>3
  <2>6. CASE SwitchedOff(r) \/ Deleted(r)
    <3>1. off' = off \union {c} /\ late' = late
      BY <2>6 DEF SwitchedOff, Deleted
    <3>2. CASE Exists(c)
      <4>1. ~cfg'[c].enabled /\ \A d \in Configs : d # c => cfg'[d] = cfg[d]
        BY <1>1, <2>1, <2>6, <3>2 DEF SwitchedOff, Deleted, NewConfig, Config
      <4> HIDE DEF c
      <4> QED
        BY <2>1, <2>2, <3>1, <4>1 DEF OffOK
    <3>3. CASE ~Exists(c)
      <4>1. cfg' = cfg /\ ~cfg[c].enabled
        BY <1>1, <2>1, <2>6, <3>3 DEF SwitchedOff, Deleted, Exists
      <4> HIDE DEF c
      <4> QED
        BY <2>1, <2>2, <3>1, <4>1 DEF OffOK
    <3> QED
      BY <3>2, <3>3
  <2>7. CASE RunCreate(r)
    BY <1>4, <1>7, <2>7 DEF RunCreate, history
  <2> QED
    BY <2>3, <2>4, <2>5, <2>6, <2>7 DEF Returns
<1>8. CASE ~PollStart /\ \/ Tick \/ JobStep \/ Restart \/ UNCHANGED vars
                         \/ \E r \in Threads : Begins(r) \/ CancelPending(r)
  <2>1. UNCHANGED <<off, late, cfg>>
    BY <1>8, BeginsWith DEF Tick, JobStep, JobStarts, JobEnds, Restart, vars, history, CancelPending
  <2> QED
    BY <1>4, <1>8, <2>1
<1> QED
  BY <1>2, <1>3, <1>5, <1>6, <1>7, <1>8, Steps

--------------------------------------------------------------------------------
(* A next run follows the settings. *)

LEMMA SettingsKeep ==
    ASSUME TypeOK, CallsOK, PollOK, SettingsOK, [Next]_vars
    PROVE  SettingsOK'
<1>1. /\ cfg \in [Configs -> Config] /\ call \in [Threads -> Calls] /\ 0 \in Slots
      /\ \A c \in Configs : cfg[c].life # "live" => ~cfg[c].enabled
      /\ \A c \in Configs : cfg[c].next # 0 => cfg[c].enabled
      /\ \A c \in Configs : cfg[c] \in Config
  BY ScheduleAssumption DEF TypeOK, CallsOK, Slots
<1>2. CASE PollStart
  <2>1. Begun /\ UNCHANGED <<cfg, call, raced>>
    BY <1>2, StartForm DEF PollStart, history
  <2>2. \A c \in poll'.repair \union Range(poll'.due) : poll'.seen[c] = cfg[c]
    BY <2>1 DEF Begun
  <2> QED
    BY <2>1, <2>2 DEF SettingsOK
<1>3. ASSUME ~PollStart
      PROVE  \A c \in poll'.repair \union Range(poll'.due) :
                c \in poll.repair \union Range(poll.due) /\ poll'.seen[c] = poll.seen[c]
  <2>1. poll.due \in Seq(Configs) /\ IsInjective(poll.due)
    BY DEF TypeOK, Poll, PollOK
  <2>2. poll.due # <<>> => Range(Tail(poll.due)) \subseteq Range(poll.due)
    BY <2>1, Behind
  <2>3. CASE poll' = Waiting
    BY <2>3, NothingDue DEF Waiting
  <2>4. CASE MovedOn
    BY <2>2, <2>4 DEF MovedOn, PollOK
  <2> QED
    BY <1>3, <2>3, <2>4, PollForms
<1>4. CASE PollStep /\ ~PollStart
  <2>1. UNCHANGED <<call, raced>>
    BY <1>4 DEF PollStep, Repair, EnqueueCreate, EnqueueCoalesce, EnqueueFail, PollRecord, PollEnd, history
  <2>2. \A c \in Configs : cfg'[c].life = cfg[c].life /\ cfg'[c].setting = cfg[c].setting
    BY <1>4, PollStepTypes
  <2>3. ASSUME NEW d \in Configs \ raced, cfg'[d].next # 0
        PROVE  cfg'[d].next % Day = cfg'[d].setting
    <3>1. CASE cfg'[d] = cfg[d]
      BY <2>3, <3>1 DEF SettingsOK
    <3>2. CASE cfg'[d] # cfg[d]
      <4>1. PICK c \in Configs :
               /\ cfg' = Updated(c, NextRun(poll.seen[c].setting, poll.now)) /\ cfg[c].life = "live"
               /\ c \in poll.repair \union Range(poll.due)
        BY <1>4, <3>2, PollWrites
      <4> DEFINE n == NextRun(poll.seen[c].setting, poll.now)
      <4>2. n \in Slots /\ n % Day = poll.seen[c].setting
        BY PollTypes
      <4>3. cfg' = Updated(c, n)
        BY <4>1
      <4> HIDE DEF n
      <4>4. (d # c => cfg'[d] = cfg[d]) /\ (d = c => cfg'[d].next \in {0, n})
        BY <4>2, <4>3, UpdatedType
      <4>5. d = c /\ cfg'[d].next = n
        BY <2>3, <3>2, <4>4
      <4>6. poll.seen[d].setting = cfg[d].setting
        BY <2>3, <4>1, <4>5 DEF SettingsOK
      <4> QED
        BY <2>2, <4>2, <4>5, <4>6
    <3> QED
      BY <3>1, <3>2
  <2>4. \A r \in Threads : call[r].pc = "on" => call[r].c \in Configs
    BY <1>1, CallForms
  <2> QED
    BY <1>3, <1>4, <2>1, <2>2, <2>3, <2>4 DEF SettingsOK
<1>5. CASE ~PollStart /\ \E c \in Configs : CreateConfig(c)
  <2> PICK c \in Configs : CreateConfig(c)
    BY <1>5
  <2>1. cfg' = [cfg EXCEPT ![c].life = "live"] /\ cfg[c].life = "unborn" /\ UNCHANGED <<call, raced>>
    BY DEF CreateConfig, history
  <2>2. \A d \in Configs : /\ cfg'[d].next = cfg[d].next /\ cfg'[d].setting = cfg[d].setting
                           /\ cfg'[d].life # "deleted" <=> cfg[d].life # "deleted"
    BY <1>1, <2>1 DEF Config
  <2>3. \A r \in Threads : call[r].pc = "on" => call[r].c \in Configs
    BY <1>1, CallForms
  <2> QED
    BY <1>3, <1>5, <2>1, <2>2, <2>3 DEF SettingsOK
<1>6. CASE ~PollStart /\ \E r \in Threads : Begins(r)
  <2> PICK r \in Threads : Begins(r)
    BY <1>6
  <2>1. UNCHANGED <<cfg, history>>
    BY BeginsWith
  <2>2. PICK state \in Calls :
           /\ call' = [call EXCEPT ![r] = state]
           /\ state.pc = "on" => state.next % Day = cfg[state.c].setting
           /\ state.pc = "edit" => state.next % Day = state.setting
    BY BeginsWith
  <2>3. \A q \in Threads : call'[q] \in {call[q], state} /\ (q # r => call'[q] = call[q])
    BY <1>1, <2>2
  <2> QED
    BY <1>3, <1>6, <2>1, <2>2, <2>3 DEF SettingsOK, history
<1>7. ASSUME ~PollStart, UNCHANGED <<cfg, raced>>,
             \A q \in Threads : call'[q] = call[q] \/ call'[q].pc \in {"idle", "cancelled"}
      PROVE  SettingsOK'
  BY <1>3, <1>7 DEF SettingsOK
<1>8. CASE ~PollStart /\ \E r \in Threads : CancelPending(r)
  <2> PICK r \in Threads : CancelPending(r)
    BY <1>8
  <2>1. call[r].pc = "off" /\ call' = [call EXCEPT ![r].pc = "cancelled"] /\ UNCHANGED <<cfg, raced>>
    BY DEF CancelPending, history
  <2>2. call'[r].pc = "cancelled" /\ \A q \in Threads : q # r => call'[q] = call[q]
    BY <1>1, <2>1, CallForms DEF Calls, Idle
  <2> QED
    BY <1>7, <1>8, <2>1, <2>2
<1>9. CASE ~PollStart /\ (Tick \/ JobStep \/ UNCHANGED vars \/ Restart)
  <2>1. UNCHANGED <<cfg, raced>> /\ (call' = call \/ call' = [r \in Threads |-> Idle])
    BY <1>9 DEF Tick, JobStep, JobStarts, JobEnds, vars, history, Restart
  <2>2. \A q \in Threads : call'[q] = call[q] \/ call'[q].pc = "idle"
    BY <2>1, IdleForm
  <2> QED
    BY <1>7, <1>9, <2>1, <2>2
<1>10. CASE ~PollStart /\ \E r \in Threads : Returns(r)
  <2> PICK r \in Threads : Returns(r)
    BY <1>10
  <2> DEFINE c == call[r].c
             n == call[r].next
             s == call[r].setting
  <2>1. c \in Configs /\ call' = [call EXCEPT ![r] = Idle]
    BY ReturnTypes
  <2>2. \A q \in Threads : (q # r => call'[q] = call[q]) /\ (q = r => call'[q].pc = "idle")
    BY <1>1, <2>1, IdleForm
  <2>3. \A q \in Threads : call[q].pc = "on" => call[q].c \in Configs
    BY <1>1, CallForms
  <2>4. call[r].pc \in {"on", "edit"} => n \in Slots
    BY <1>1, CallForms
  <2>5. CASE SwitchedOn(r) /\ Exists(c)
    <3> DEFINE x == [cfg[c] EXCEPT !.enabled = TRUE, !.next = n]
    <3>1. cfg' = [cfg EXCEPT ![c] = x] /\ raced' = raced /\ call[r].pc = "on"
      BY <2>5 DEF SwitchedOn
    <3>2. x.life = cfg[c].life /\ x.setting = cfg[c].setting /\ x.next = n /\ cfg[c].life = "live"
      BY <1>1, <2>1, <2>4, <2>5, <3>1 DEF Config, Exists
    <3>3. c \notin raced => n % Day = cfg[c].setting
      BY <3>1, <3>2 DEF SettingsOK
    <3> HIDE DEF c, n, x
    <3>4. \A d \in Configs : /\ cfg'[d].life = cfg[d].life /\ cfg'[d].setting = cfg[d].setting
                             /\ cfg'[d].next = cfg[d].next \/ (d = c /\ cfg'[d].next = n)
      BY <1>1, <2>1, <3>1, <3>2
    <3> QED
      BY <1>3, <1>10, <2>2, <2>3, <3>1, <3>3, <3>4 DEF SettingsOK
  <2>6. CASE SwitchedOn(r) /\ ~Exists(c)
    <3>1. UNCHANGED <<cfg, raced>>
      BY <2>6 DEF SwitchedOn
    <3> QED
      BY <1>7, <1>10, <2>2, <3>1
  <2>7. CASE Edited(r)
    <3>1. call[r].pc = "edit" /\ n \in Slots /\ n % Day = s
      BY <2>4, <2>7 DEF Edited, SettingsOK
    <3>2. raced' = IF BeingWritten(c) THEN raced \union {c} ELSE raced \ {c}
      BY <2>7 DEF Edited
    <3>3. \A d \in Configs : d # c => cfg'[d] = cfg[d]
      <4>1. CASE Exists(c)
        <5> DEFINE u == Updated(c, n)
        <5>1. cfg' = [u EXCEPT ![c].setting = s]
          BY <2>7, <4>1 DEF Edited
        <5>2. u \in [Configs -> Config] /\ \A d \in Configs : d # c => u[d] = cfg[d]
          BY <2>1, <3>1, UpdatedType
        <5> HIDE DEF c, n, s, u
        <5> QED
          BY <5>1, <5>2
      <4>2. CASE ~Exists(c)
        BY <2>7, <4>2 DEF Edited
      <4> QED
        BY <4>1, <4>2
    <3>4. cfg'[c].next # 0 => cfg'[c].next % Day = cfg'[c].setting
      <4>1. CASE Exists(c)
        <5> DEFINE u == Updated(c, n)
        <5>1. cfg' = [u EXCEPT ![c].setting = s]
          BY <2>7, <4>1 DEF Edited
        <5>2. u \in [Configs -> Config] /\ u[c].next \in {0, n} /\ u[c] \in Config
          BY <2>1, <3>1, UpdatedType
        <5> HIDE DEF c, n, s, u
        <5>3. cfg'[c].next = u[c].next /\ cfg'[c].setting = s
          BY <2>1, <5>1, <5>2 DEF Config
        <5> QED
          BY <3>1, <5>2, <5>3 DEF n, s
      <4>2. CASE ~Exists(c)
        <5>1. cfg' = cfg
          BY <2>7, <4>2 DEF Edited
        <5> QED
          BY <1>1, <2>1, <4>2, <5>1 DEF Exists
      <4> QED
        BY <4>1, <4>2
    <3>5. c \notin raced' => /\ c \notin poll'.repair \union Range(poll'.due)
                             /\ \A q \in Threads : call'[q].pc = "on" => call'[q].c # c
      <4>1. ASSUME c \notin raced'
            PROVE  ~BeingWritten(c)
        BY <3>2, <4>1
      <4>2. ~BeingWritten(c) => c \notin poll.repair \union Range(poll.due)
        BY AheadForm DEF BeingWritten
      <4> QED
        BY <1>3, <1>10, <2>2, <4>1, <4>2 DEF BeingWritten
    <3> HIDE DEF c
    <3>6. \A d \in Configs : d # c => (d \in raced' <=> d \in raced)
      BY <3>2
    <3> QED
      BY <1>3, <1>10, <2>2, <2>3, <3>3, <3>4, <3>5, <3>6 DEF SettingsOK
  <2>8. CASE SwitchedOff(r)
    <3>1. raced' = raced /\ cfg' \in {cfg, [cfg EXCEPT ![c].enabled = FALSE, ![c].next = 0]}
      BY <2>8 DEF SwitchedOff
    <3> HIDE DEF c
    <3>2. \A d \in Configs : /\ cfg'[d].life = cfg[d].life /\ cfg'[d].setting = cfg[d].setting
                             /\ cfg'[d].next \in {0, cfg[d].next}
      BY <1>1, <2>1, <3>1 DEF Config
    <3> QED
      BY <1>3, <1>10, <2>2, <2>3, <3>1, <3>2 DEF SettingsOK
  <2>9. CASE RunCreate(r)
    BY <1>7, <1>10, <2>2, <2>9 DEF RunCreate, history
  <2>10. CASE Deleted(r)
    <3>1. raced' = raced /\ cfg' \in {cfg, [cfg EXCEPT ![c] = [NewConfig EXCEPT !.life = "deleted"]]}
      BY <2>10 DEF Deleted
    <3> HIDE DEF c
    <3>2. \A d \in Configs : cfg'[d] = cfg[d] \/ (cfg'[d].life = "deleted" /\ cfg'[d].next = 0)
      BY <1>1, <2>1, <3>1 DEF NewConfig
    <3> QED
      BY <1>3, <1>10, <2>2, <2>3, <3>1, <3>2 DEF SettingsOK
  <2> QED
    BY <2>5, <2>6, <2>7, <2>8, <2>9, <2>10 DEF Returns
<1> QED
  BY <1>2, <1>4, <1>5, <1>6, <1>8, <1>9, <1>10, Steps

--------------------------------------------------------------------------------
(* The invariant, and what follows. *)

LEMMA InitHolds ==
    ASSUME Init
    PROVE  IInv
<1>1. /\ 0 \in Slots /\ 0 \in Settings /\ 1 \in 0..MaxTime /\ 0 \in 0..MaxJobs /\ 0 \in 0..MaxCalls
      /\ 0 \in 0..MaxCrashes /\ 0 % Day = 0
  BY ScheduleAssumption DEF Slots, Settings
<1>2. /\ NewConfig \in Config /\ [NewConfig EXCEPT !.life = "live", !.enabled = TRUE] \in Config
      /\ NewConfig.next = 0 /\ NewConfig.setting = 0 /\ NewConfig.life = "unborn" /\ ~NewConfig.enabled
  BY <1>1 DEF NewConfig, Config
<1>3. /\ cfg \in [Configs -> Config]
      /\ \A c \in Configs : cfg[c].next = 0 /\ cfg[c].setting = 0 /\ (cfg[c].life # "live" => ~cfg[c].enabled)
  <2>1. cfg \in [Configs -> {NewConfig, [NewConfig EXCEPT !.life = "live", !.enabled = TRUE]}]
    BY DEF Init
  <2>2. ASSUME NEW c \in Configs
        PROVE  /\ cfg[c] \in Config /\ cfg[c].next = 0 /\ cfg[c].setting = 0
               /\ cfg[c].life # "live" => ~cfg[c].enabled
    <3>1. cfg[c] \in {NewConfig, [NewConfig EXCEPT !.life = "live", !.enabled = TRUE]}
      BY <2>1
    <3> QED
      BY <1>2, <3>1 DEF NewConfig
  <2> QED
    BY <2>1, <2>2
<1>4. NoJob \in Job /\ job = [c \in Configs |-> NoJob]
  BY <1>1 DEF NoJob, Job, Init
<1>5. poll = Waiting /\ call = [r \in Threads |-> Idle] /\ fired = {} /\ repeats = 0 /\ overdue = 0
      /\ off = {} /\ late = [c \in Configs |-> 0] /\ raced = {} /\ calls = 0 /\ crashes = 0 /\ now = 1
      /\ made = 0
  BY DEF Init
<1>6. call \in [Threads -> Calls] /\ \A r \in Threads : call[r].pc = "idle"
  BY <1>5, IdleForm
<1>7. Ahead = {}
  BY <1>5, NothingDue DEF Ahead
<1>8. TypeOK
  BY <1>1, <1>3, <1>4, <1>5, <1>6, WaitingType DEF TypeOK
<1>9. CallsOK
  BY <1>3, <1>6 DEF CallsOK
<1>10. OverdueOK
  <2>1. Busy = {}
    BY <1>6 DEF Busy
  <2> QED
    BY <1>5, <2>1, FS_EmptySet DEF OverdueOK
<1>11. PollOK
  BY <1>5, NothingDue DEF PollOK, Waiting, IsInjective
<1>12. FiredOK
  BY <1>5 DEF FiredOK
<1>13. RepeatsOK
  <2>1. Suspects = {}
    BY <1>5, <1>7 DEF Suspects, Suspect
  <2> QED
    BY <1>5, <2>1, FS_EmptySet DEF RepeatsOK
<1>14. SettingsOK
  BY <1>1, <1>3, <1>5, <1>6, NothingDue DEF SettingsOK, Waiting
<1>15. OffOK
  BY <1>5, <1>7 DEF OffOK
<1> QED
  BY <1>8, <1>9, <1>10, <1>11, <1>12, <1>13, <1>14, <1>15 DEF IInv

LEMMA NextKeeps ==
    ASSUME IInv, [Next]_vars
    PROVE  IInv'
BY OverdueKeeps, TypesKeep, PollKeeps, FiredKeeps, RepeatsKeep, SettingsKeep, OffKeeps DEF IInv

\* Every state of the poller and of the requests satisfies the invariant.
THEOREM InvHolds == Spec => []IInv
BY InitHolds, NextKeeps, PTL DEF Spec

\* Times, copies and counters stay in their ranges: a schedule that is off never has a next run
\* (sync_config_manager.py, _normalize_schedule).
THEOREM TypesHold == Spec => []TypeOK
<1>1. IInv => TypeOK
  BY DEF IInv
<1> QED
  BY <1>1, InvHolds, PTL

\* A slot creates a second job only when the service ended between the job and the record of it, or
\* a request wrote a next run that had passed (schedule_manager.py, _enqueue_due_config).
THEOREM SlotsFireOnce == Spec => []SlotFiredOnce
<1>1. IInv => SlotFiredOnce
  <2> SUFFICES ASSUME IInv PROVE SlotFiredOnce
    OBVIOUS
  <2>1. IsFiniteSet(Suspects) /\ Cardinality(Suspects) \in Nat
    BY ScheduleAssumption, FS_Subset, FS_CardinalityType DEF Suspects
  <2> QED
    BY <2>1 DEF IInv, RepeatsOK, TypeOK, SlotFiredOnce
<1> QED
  BY <1>1, InvHolds, PTL

\* A schedule that a request switched off, or whose config it deleted, stays off, and gets one more job
\* at most (schedule_manager.py, set_enabled).
THEOREM SwitchOffIsKept == Spec => []SwitchOffHolds
<1>1. IInv => SwitchOffHolds
  BY DEF IInv, OffOK, TypeOK, SwitchOffHolds
<1> QED
  BY <1>1, InvHolds, PTL

\* The next run on disk is the time the settings on disk name, unless they were edited while a next
\* run was being computed (schedule_manager.py, update_schedule).
THEOREM NextRunIsOfSettings == Spec => []NextRunFollowsSettings
<1>1. IInv => NextRunFollowsSettings
  BY DEF IInv, SettingsOK, NextRunFollowsSettings
<1> QED
  BY <1>1, InvHolds, PTL

================================================================================
