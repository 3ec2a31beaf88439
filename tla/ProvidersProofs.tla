---------------------------- MODULE ProvidersProofs ----------------------------
(* The inductive invariants of the other runners, and what holds of all of them. *)
EXTENDS TushareProofs

--------------------------------------------------------------------------------
(* yfinance. *)

\* Days, and what one request asks for.
YFDays == YFinance!Days
YFRequest == [codes : SUBSET Symbols, first : Nat \ {0}, alone : BOOLEAN]

\* Requests that leave out no day after a cursor, save those before the begin_date.
YFDue(begin, before) ==
    {q \in YFRequest : \A s \in q.codes : q.first = begin \/ q.first <= before[s] + 1}

\* What a process may have at hand.
YFRun ==
    [pc : {"tables", "copy", "cut copy", "exchange", "exchanged", "check", "request", "save", "cut", "cursor"},
     force : BOOLEAN, goOn : BOOLEAN,
     scope : [begin : 1..LastDay, end : 1..LastDay, limit : {0, 1}],
     codes : SUBSET Symbols, todo : Seq(YFRequest), rows : SUBSET (Symbols \X Nat),
     before : [Symbols -> Nat], unresolved : SUBSET Symbols, inserted : BOOLEAN]

\* The types of the state of yfinance.
YFTyped ==
    /\ today \in 1..LastDay
    /\ closed \in BOOLEAN
    /\ kind \in YFinanceKinds
    /\ table \in SUBSET (Symbols \X Nat)
    /\ copy \in [there : BOOLEAN, rows : SUBSET (Symbols \X Nat)]
    /\ cursor \in [Symbols -> Nat]
    /\ master \in SUBSET Symbols
    /\ run \in YFRun \union {YFinance!Idle}

\* An answer is at hand.
YFFetched == {"save", "cut", "cursor"}

\* An answer is one of the request at the head, and whole for each symbol in it.
YFAnswer ==
    run.pc \in YFFetched =>
        /\ run.todo # <<>>
        /\ \E covered \in SUBSET Head(run.todo).codes, last \in Nat :
              /\ Head(run.todo).first <= last /\ last <= run.scope.end
              /\ run.rows = IF kind = "fundamental" THEN covered \X {0}
                            ELSE covered \X (Head(run.todo).first..last)

\* The window of a run ends with a session that was completed when it began.
YFWindow == run.pc # "idle" => run.scope.begin <= run.scope.end /\ run.scope.end <= YFinance!LatestCompleted

\* Types and answers; the windows of completed sessions keep open ones out.
YFInvariant == YFTyped /\ YFAnswer /\ YFWindow /\ early = {}

\* The largest day of a set.
LEMMA YFLatest ==
  ASSUME NEW S \in SUBSET (1..LastDay)
  PROVE  /\ YFinance!Latest(S) \in 0..LastDay
         /\ S # {} => YFinance!Latest(S) \in S
         /\ \A e \in S : e <= YFinance!Latest(S)
<1>1. YFinance!Latest(S) = LatestIn(S)
  BY DEF YFinance!Latest, LatestIn
<1> QED BY <1>1, LatestValue, ProviderAssumption

\* The position to resume from is the stored cursor, else the newest row.
LEMMA YFLatestCursor ==
  ASSUME YFTyped, NEW s \in Symbols
  PROVE  /\ YFinance!LatestCursor(s) \in Nat
         /\ cursor[s] > 0 => YFinance!LatestCursor(s) = cursor[s]
         /\ cursor[s] = 0 /\ YFinance!LatestCursor(s) > 0 => <<s, YFinance!LatestCursor(s)>> \in table
<1> DEFINE saved == {d \in YFinance!Days : <<s, d>> \in table}
<1>1. saved \in SUBSET (1..LastDay)
  BY DEF YFinance!Days
<1>2. YFinance!LatestCursor(s) = IF cursor[s] > 0 THEN cursor[s] ELSE YFinance!Latest(saved)
  BY DEF YFinance!LatestCursor
<1>3. cursor[s] \in Nat /\ \A d \in saved : <<s, d>> \in table
  BY DEF YFTyped
<1>4. YFinance!Latest(saved) \in Nat /\ (saved # {} => YFinance!Latest(saved) \in saved)
  <2> HIDE DEF saved
  <2> QED BY <1>1, YFLatest, ProviderAssumption
<1>5. saved = {} => YFinance!Latest(saved) = 0
  BY DEF YFinance!Latest
<1> HIDE DEF saved
<1> QED BY <1>2, <1>3, <1>4, <1>5

\* The types of what a process at work has at hand.
LEMMA YFRunning ==
  ASSUME YFTyped, run.pc # "idle"
  PROVE  /\ run \in YFRun
         /\ run.scope.begin \in 1..LastDay /\ run.scope.end \in 1..LastDay /\ LastDay \in Nat
<1>1. run # YFinance!Idle
  BY DEF YFinance!Idle
<1>2. run \in YFRun
  BY <1>1 DEF YFTyped
<1> QED BY <1>2, ProviderAssumption DEF YFRun

\* A set of symbols in some order.
LEMMA YFSetToSeq ==
  ASSUME NEW S \in SUBSET Symbols
  PROVE  /\ YFinance!SetToSeq(S) \in Seq(S)
         /\ \A x \in S : \E i \in DOMAIN YFinance!SetToSeq(S) : YFinance!SetToSeq(S)[i] = x
<1>1. YFinance!SetToSeq(S) = SetToSeq(S)
  BY DEF YFinance!SetToSeq, SetToSeq, YFinance!Cardinality, Cardinality
<1>2. IsFiniteSet(S)
  BY ProviderAssumption, FS_Subset
<1>3. SetToSeq(S) \in Seq(S) /\ \A x \in S : \E i \in DOMAIN SetToSeq(S) : SetToSeq(S)[i] = x
  BY <1>2, SetToSeqLists
<1> QED BY <1>1, <1>3

\* FlattenSeq keeps every member of its lists.
LEMMA YFFlatten ==
  ASSUME NEW S, NEW s \in Seq(Seq(S))
  PROVE  /\ YFinance!FlattenSeq(s) \in Seq(S)
         /\ \A i \in DOMAIN s : \A j \in DOMAIN s[i] :
               \E m \in DOMAIN YFinance!FlattenSeq(s) : YFinance!FlattenSeq(s)[m] = s[i][j]
<1>1. YFinance!FlattenSeq(s) = FlattenSeq(s)
  BY DEF YFinance!FlattenSeq, FlattenSeq
<1> QED BY <1>1, FlattenOrdered

\* One request for each symbol.
LEMMA YFAlone ==
  ASSUME NEW S \in SUBSET Symbols, NEW first, NEW T,
         \A part \in SUBSET S : [codes |-> part, first |-> first, alone |-> TRUE] \in T
  PROVE  /\ YFinance!Alone(S, first) \in Seq(T)
         /\ \A x \in S : \E i \in DOMAIN YFinance!Alone(S, first) : x \in YFinance!Alone(S, first)[i].codes
<1> DEFINE order == YFinance!SetToSeq(S)
           plan  == [i \in DOMAIN order |-> [codes |-> {order[i]}, first |-> first, alone |-> TRUE]]
<1>1. order \in Seq(S) /\ \A x \in S : \E i \in DOMAIN order : order[i] = x
  BY YFSetToSeq
<1>2. YFinance!Alone(S, first) = plan
  BY DEF YFinance!Alone, YFinance!Request
<1> HIDE DEF order
<1>3. \A i \in DOMAIN order : plan[i] \in T
  BY <1>1
<1>4. plan \in Seq(T)
  <2>1. DOMAIN order = 1..Len(order) /\ Len(order) \in Nat
    BY <1>1
  <2>2. plan \in [1..Len(order) -> T]
    BY <1>3, <2>1
  <2> QED BY <2>1, <2>2
<1>5. ASSUME NEW x \in S PROVE \E i \in DOMAIN plan : x \in plan[i].codes
  <2>1. PICK i \in DOMAIN order : order[i] = x
    BY <1>1
  <2> QED BY <2>1
<1> QED BY <1>2, <1>4, <1>5

\* Requests of several symbols at once, each symbol in one.
LEMMA YFChunks ==
  ASSUME NEW S \in SUBSET Symbols, NEW first, NEW T,
         \A part \in SUBSET S : [codes |-> part, first |-> first, alone |-> FALSE] \in T
  PROVE  /\ YFinance!Chunks(S, first) \in Seq(T)
         /\ \A x \in S : \E i \in DOMAIN YFinance!Chunks(S, first) : x \in YFinance!Chunks(S, first)[i].codes
<1> DEFINE order == YFinance!SetToSeq(S)
           n     == (Len(order) + BatchSize - 1) \div BatchSize
           part(k) == {order[i] : i \in ((k - 1) * BatchSize + 1)..YFinance!Smaller(Len(order), k * BatchSize)}
           plan  == [k \in 1..n |-> [codes |-> part(k), first |-> first, alone |-> FALSE]]
<1>1. order \in Seq(S) /\ \A x \in S : \E i \in DOMAIN order : order[i] = x
  BY YFSetToSeq
<1>2. YFinance!Chunks(S, first) = plan
  BY DEF YFinance!Chunks, YFinance!Request
<1> HIDE DEF order
<1>3. BatchSize \in Nat \ {0} /\ Len(order) \in Nat /\ DOMAIN order = 1..Len(order)
  BY <1>1, ProviderAssumption
<1>4. n \in Nat
  BY <1>3
<1>5. ASSUME NEW k \in 1..n PROVE part(k) \in SUBSET S
  <2>1. (k - 1) * BatchSize >= 0 /\ k * BatchSize \in Nat
    BY <1>3, <1>4
  <2>2. \A i \in ((k - 1) * BatchSize + 1)..YFinance!Smaller(Len(order), k * BatchSize) : i \in 1..Len(order)
    BY <1>3, <2>1 DEF YFinance!Smaller
  <2> QED BY <1>1, <2>2
<1>6. plan \in Seq(T)
  <2> HIDE DEF n, part
  <2>1. \A k \in 1..n : plan[k] \in T
    BY <1>5
  <2> QED BY <1>4, <2>1
<1>7. ASSUME NEW x \in S PROVE \E k \in DOMAIN plan : x \in plan[k].codes
  <2>1. PICK i \in 1..Len(order) : order[i] = x
    BY <1>1, <1>3
  <2>2. PICK k \in 1..n : (k - 1) * BatchSize + 1 <= i /\ i <= k * BatchSize
    <3> DEFINE k == (i - 1) \div BatchSize + 1
    <3>1. k \in Nat /\ k - 1 \in Nat /\ (k - 1) * BatchSize <= i - 1 /\ i - 1 < k * BatchSize
      BY <1>3
    <3>2. k <= n
      BY <1>3
    <3> HIDE DEF k, n
    <3>3. k \in 1..n
      BY <1>4, <3>1, <3>2
    <3> QED BY <1>3, <3>1, <3>3
  <2>3. x \in part(k)
    BY <1>3, <2>1, <2>2 DEF YFinance!Smaller
  <2> HIDE DEF part, n
  <2> QED BY <2>3
<1> HIDE DEF plan
<1> QED BY <1>2, <1>6, <1>7

\* The requests leave out no day after the position of a symbol, and ask for every symbol
\* without one.
LEMMA YFWindows ==
  ASSUME YFTyped, run.pc # "idle", NEW S \in SUBSET Symbols,
         NEW due, due = YFDue(run.scope.begin, [s \in Symbols |-> YFinance!LatestCursor(s)])
  PROVE  /\ YFinance!Windows(S) \in Seq(due)
         /\ \A x \in S : YFinance!LatestCursor(x) = 0 /\ run.scope.begin <= run.scope.end =>
               \E i \in DOMAIN YFinance!Windows(S) : x \in YFinance!Windows(S)[i].codes
<1> DEFINE of(d) == {s \in S : YFinance!EffectiveStart(s) = d}
           plans == [d \in 1..run.scope.end |-> YFinance!Chunks(of(d), d)]
<1>1. YFinance!Windows(S) = YFinance!FlattenSeq(plans)
  BY DEF YFinance!Windows
<1>2. run.scope.begin \in 1..LastDay /\ run.scope.end \in 1..LastDay /\ LastDay \in Nat
  BY YFRunning
<1>3. \A d \in 1..run.scope.end :
         /\ plans[d] \in Seq(due)
         /\ \A x \in of(d) : \E i \in DOMAIN plans[d] : x \in plans[d][i].codes
  <2> SUFFICES ASSUME NEW d \in 1..run.scope.end
               PROVE  /\ YFinance!Chunks(of(d), d) \in Seq(due)
                      /\ \A x \in of(d) : \E i \in DOMAIN YFinance!Chunks(of(d), d) :
                            x \in YFinance!Chunks(of(d), d)[i].codes
    OBVIOUS
  <2>1. of(d) \in SUBSET Symbols /\ d \in Nat \ {0}
    BY <1>2
  <2>2. ASSUME NEW part \in SUBSET of(d) PROVE [codes |-> part, first |-> d, alone |-> FALSE] \in due
    <3>1. \A s \in part : d = run.scope.begin \/ d <= YFinance!LatestCursor(s) + 1
      <4> SUFFICES ASSUME NEW s \in part PROVE d = run.scope.begin \/ d <= YFinance!LatestCursor(s) + 1
        OBVIOUS
      <4>1. YFinance!EffectiveStart(s) = d /\ YFinance!LatestCursor(s) \in Nat
        BY YFLatestCursor
      <4> QED BY <1>2, <2>1, <4>1 DEF YFinance!EffectiveStart, YFinance!Larger
    <3>2. part \in SUBSET Symbols
      BY <2>1
    <3> HIDE DEF of
    <3> QED BY <2>1, <3>1, <3>2 DEF YFDue, YFRequest
  <2> HIDE DEF of
  <2> QED BY <2>1, <2>2, YFChunks
<1>4. plans \in Seq(Seq(due)) /\ DOMAIN plans = 1..run.scope.end
  <2>1. \A d \in 1..run.scope.end : plans[d] \in Seq(due)
    BY <1>3
  <2>2. plans = [d \in 1..run.scope.end |-> plans[d]]
    OBVIOUS
  <2>3. run.scope.end \in Nat
    BY <1>2
  <2>4. PICK n \in Nat : n = run.scope.end
    BY <2>3
  <2> HIDE DEF plans
  <2>5. plans \in [1..n -> Seq(due)]
    BY <2>1, <2>2, <2>4
  <2>6. plans \in Seq(Seq(due))
    BY <2>5
  <2> QED BY <2>4, <2>5, <2>6
<1>5. /\ YFinance!FlattenSeq(plans) \in Seq(due)
      /\ \A d \in DOMAIN plans : \A j \in DOMAIN plans[d] :
            \E m \in DOMAIN YFinance!FlattenSeq(plans) : YFinance!FlattenSeq(plans)[m] = plans[d][j]
  <2> HIDE DEF plans
  <2> QED BY <1>4, YFFlatten
<1>6. ASSUME NEW x \in S, YFinance!LatestCursor(x) = 0, run.scope.begin <= run.scope.end
      PROVE  \E i \in DOMAIN YFinance!Windows(S) : x \in YFinance!Windows(S)[i].codes
  <2>1. x \in of(run.scope.begin) /\ run.scope.begin \in 1..run.scope.end
    BY <1>2, <1>6 DEF YFinance!EffectiveStart
  <2> HIDE DEF of, plans
  <2>2. PICK j \in DOMAIN plans[run.scope.begin] : x \in plans[run.scope.begin][j].codes
    BY <1>3, <2>1
  <2>3. PICK m \in DOMAIN YFinance!FlattenSeq(plans) :
           YFinance!FlattenSeq(plans)[m] = plans[run.scope.begin][j]
    BY <1>4, <1>5, <2>1
  <2> QED BY <1>1, <2>2, <2>3
<1> HIDE DEF plans
<1> QED BY <1>1, <1>5, <1>6

\* What a run sets out to do: requests of its symbols, one at least for each without a history.
LEMMA YFPlan ==
  ASSUME YFTyped, run.pc # "idle", NEW S \in SUBSET Symbols, YFinance!Plan(S),
         NEW due, due = YFDue(run.scope.begin, [s \in Symbols |-> YFinance!LatestCursor(s)])
  PROVE  /\ \E todo \in Seq(due) :
               run' = [run EXCEPT !.pc = "request", !.codes = S,
                                  !.before = [s \in Symbols |-> YFinance!LatestCursor(s)], !.todo = todo]
         /\ YFinance!OfSymbols /\ run.scope.begin <= run.scope.end =>
               \A x \in S : YFinance!LatestCursor(x) = 0 => \E i \in DOMAIN run'.todo : x \in run'.todo[i].codes
<1> DEFINE order == YFinance!SetToSeq(Symbols)
           group == [i \in 1..YFinance!Cardinality(Symbols) |->
                       IF YFinance!EffectiveStart(order[i]) > run.scope.end THEN <<>>
                       ELSE <<YFinance!Request({order[i]}, YFinance!EffectiveStart(order[i]), FALSE)>>]
           todo == CASE YFinance!OfSymbols -> YFinance!Windows(S)
                     [] kind = "group_daily" -> YFinance!FlattenSeq(group)
                     [] OTHER -> YFinance!Alone(S, run.scope.begin)
<1>1. run' = [run EXCEPT !.pc = "request", !.codes = S,
                         !.before = [s \in Symbols |-> YFinance!LatestCursor(s)], !.todo = todo]
  BY DEF YFinance!Plan
<1>2. run \in YFRun /\ run.scope.begin \in 1..LastDay /\ LastDay \in Nat
  BY YFRunning
<1>3. YFinance!Windows(S) \in Seq(due)
  BY YFWindows
<1>4. YFinance!Alone(S, run.scope.begin) \in Seq(due)
  <2>1. \A part \in SUBSET S : [codes |-> part, first |-> run.scope.begin, alone |-> TRUE] \in due
    BY <1>2 DEF YFDue, YFRequest
  <2> QED BY <2>1, YFAlone
<1>5. YFinance!FlattenSeq(group) \in Seq(due)
  <2>1. order \in [1..YFinance!Cardinality(Symbols) -> Symbols] /\ YFinance!Cardinality(Symbols) \in Nat
    <3>1. order = SetToSeq(Symbols)
      BY DEF YFinance!SetToSeq, SetToSeq, YFinance!Cardinality, Cardinality
    <3>2. YFinance!Cardinality(Symbols) = Cardinality(Symbols)
      BY DEF YFinance!Cardinality, Cardinality
    <3> HIDE DEF order
    <3> QED BY <3>1, <3>2, SetToSeqLists, ProviderAssumption
  <2>2. ASSUME NEW i \in 1..YFinance!Cardinality(Symbols) PROVE group[i] \in Seq(due)
    <3>1. order[i] \in Symbols
      BY <2>1
    <3>2. /\ YFinance!EffectiveStart(order[i]) \in Nat \ {0}
          /\ \/ YFinance!EffectiveStart(order[i]) = run.scope.begin
             \/ YFinance!EffectiveStart(order[i]) <= YFinance!LatestCursor(order[i]) + 1
      <4>1. YFinance!LatestCursor(order[i]) \in Nat
        BY <3>1, YFLatestCursor
      <4> HIDE DEF order
      <4> QED BY <1>2, <4>1 DEF YFinance!EffectiveStart, YFinance!Larger
    <3> HIDE DEF order
    <3>4. <<>> \in Seq(due)
      OBVIOUS
    <3>3. YFinance!Request({order[i]}, YFinance!EffectiveStart(order[i]), FALSE) \in due
      BY <3>1, <3>2 DEF YFinance!Request, YFRequest, YFDue
    <3>5. <<YFinance!Request({order[i]}, YFinance!EffectiveStart(order[i]), FALSE)>> \in Seq(due)
      <4> DEFINE q == YFinance!Request({order[i]}, YFinance!EffectiveStart(order[i]), FALSE)
      <4>1. q \in due
        BY <3>3
      <4> HIDE DEF q
      <4>2. <<q>> \in Seq(due)
        BY <4>1
      <4> QED BY <4>2 DEF q
    <3> QED BY <3>4, <3>5
  <2>3. group \in Seq(Seq(due))
    <3>1. group \in [1..YFinance!Cardinality(Symbols) -> Seq(due)]
      BY <2>2
    <3> HIDE DEF group
    <3> QED BY <2>1, <3>1
  <2> HIDE DEF group
  <2> QED BY <2>3, YFFlatten
<1>6. todo \in Seq(due)
  <2> HIDE DEF group
  <2> QED BY <1>3, <1>4, <1>5
<1>7. YFinance!OfSymbols => run'.todo = YFinance!Windows(S)
  <2>1. YFinance!OfSymbols => todo = YFinance!Windows(S)
    <3> HIDE DEF group
    <3> QED BY DEF YFinance!OfSymbols
  <2> HIDE DEF todo
  <2> QED BY <1>1, <1>2, <2>1 DEF YFRun
<1>8. YFinance!OfSymbols /\ run.scope.begin <= run.scope.end =>
               \A x \in S : YFinance!LatestCursor(x) = 0 => \E i \in DOMAIN run'.todo : x \in run'.todo[i].codes
  BY <1>7, YFWindows
<1> HIDE DEF todo
<1> QED BY <1>1, <1>6, <1>8

\* The plan has been made.
YFWorking == {"request", "save", "cut", "cursor"}

\* A row the task is about: corporate actions have no other days.
YFWanted(d) == kind = "corporate_actions" => d \in EventDays

\* Nothing is missing up to the cursor of a symbol, nor up to its newest row.
YFNoHole ==
    \A s \in Symbols, d \in 1..LastDay :
        YFWanted(d) /\ (d <= cursor[s] \/ \E e \in 1..LastDay : d <= e /\ <<s, e>> \in table)
        => <<s, d>> \in table \union leftOut

\* Nor up to the cursor that a run has planned by.
YFBefore ==
    run.pc \in YFWorking =>
        \A s \in Symbols, d \in 1..LastDay :
            YFWanted(d) /\ d <= run.before[s] => <<s, d>> \in table \union leftOut

\* The copy of a migration is whole before it takes the place of its table.
YFCopied == run.pc = "exchange" => copy.rows = table
YFSaved == run.pc = "cursor" /\ kind # "fundamental" => YFinance!Kept(run.rows) \subseteq table

\* A symbol without a history is still to be asked for, unless it counts as unresolved.
YFPending ==
    run.pc \in YFWorking /\ YFinance!OfSymbols =>
        \A s \in run.codes :
            run.before[s] = 0 /\ cursor[s] = 0 =>
                s \in run.unresolved \/ \E i \in DOMAIN run.todo : s \in run.todo[i].codes

\* No request leaves out a day after a cursor, save those before the begin_date.
YFPlanned == run.pc \in YFWorking => run.todo \in Seq(YFDue(run.scope.begin, run.before))

\* What the rows, the cursors and the plan keep to.
YFRows == YFNoHole /\ YFBefore /\ YFCopied /\ YFSaved /\ YFPending /\ YFPlanned

\* The calendar and the task stay.
YFFrame == today' = today /\ closed' = closed /\ kind' = kind

\* A run that ends, or has not made a plan yet, has no more to say.
LEMMA YFQuiet ==
  ASSUME YFInvariant, YFRows, YFFrame, UNCHANGED <<cursor, leftOut, early>>,
         table' \in SUBSET table, table \in SUBSET table',
         master' \in SUBSET Symbols,
         copy' \in [there : BOOLEAN, rows : SUBSET (Symbols \X Nat)],
         \/ run' = YFinance!Idle
         \/ /\ run' \in YFRun /\ run'.pc \notin YFWorking
            /\ run'.scope.begin <= run'.scope.end /\ run'.scope.end <= YFinance!LatestCompleted
            /\ run'.pc = "exchange" => copy'.rows = table'
  PROVE  YFInvariant' /\ YFRows'
<1>1. table' = table
  OBVIOUS
<1>2. run'.pc \notin YFWorking /\ run'.pc \notin YFFetched
  BY DEF YFinance!Idle, YFWorking, YFFetched
<1>3. YFTyped'
  BY <1>1 DEF YFInvariant, YFTyped, YFFrame
<1>4. YFWindow'
  BY DEF YFWindow, YFinance!Idle, YFFrame, YFinance!LatestCompleted
<1>5. YFInvariant'
  BY <1>2, <1>3, <1>4 DEF YFInvariant, YFAnswer
<1>6. YFNoHole'
  BY <1>1 DEF YFRows, YFNoHole, YFFrame, YFWanted
<1>7. YFCopied'
  BY DEF YFCopied, YFinance!Idle
<1>8. YFBefore' /\ YFSaved' /\ YFPending' /\ YFPlanned'
  BY <1>2 DEF YFBefore, YFSaved, YFPending, YFPlanned, YFWorking
<1> QED BY <1>5, <1>6, <1>7, <1>8 DEF YFRows

\* StartRun keeps the invariant.
LEMMA YFStart ==
  ASSUME YFInvariant, YFRows, NEW begin \in YFinance!Days, NEW end \in YFinance!Days, NEW limit \in {0, 1},
         NEW force \in BOOLEAN, NEW goOn \in BOOLEAN, YFinance!StartRun(begin, end, limit, force, goOn)
  PROVE  YFInvariant' /\ YFRows'
<1> DEFINE last == YFinance!Smaller(end, YFinance!LatestCompleted)
<1>1. begin \in 1..LastDay /\ end \in 1..LastDay /\ LastDay \in Nat /\ today \in 1..LastDay
  BY ProviderAssumption DEF YFinance!Days, YFInvariant, YFTyped
<1>2. begin <= last /\ last \in 1..LastDay /\ last <= YFinance!LatestCompleted
  BY <1>1 DEF YFinance!StartRun, YFinance!Smaller, YFinance!LatestCompleted
<1> HIDE DEF last
<1>3. run' = [pc |-> "tables", force |-> force, goOn |-> goOn,
               scope |-> [begin |-> begin, end |-> last, limit |-> limit],
               codes |-> {}, todo |-> <<>>, rows |-> {}, before |-> [s \in Symbols |-> 0],
               unresolved |-> {}, inserted |-> FALSE]
  BY DEF YFinance!StartRun, last
<1>4. run' \in YFRun
  BY <1>1, <1>2, <1>3 DEF YFRun
<1>5. run'.pc \notin YFWorking /\ run'.pc # "exchange"
  BY <1>3 DEF YFWorking
<1>6. run'.scope.begin <= run'.scope.end /\ run'.scope.end <= YFinance!LatestCompleted
  BY <1>2, <1>3
<1> QED BY <1>4, <1>5, <1>6, YFQuiet DEF YFinance!StartRun, YFFrame, YFInvariant, YFTyped

\* The rewriting of an old table keeps the invariant.
LEMMA YFOpening ==
  ASSUME YFInvariant, YFRows,
         \/ YFinance!DropSourceColumn \/ YFinance!CreateCopy \/ \E part \in SUBSET table : YFinance!CopyRows(part)
         \/ YFinance!ExchangeTables \/ YFinance!DropCopy
  PROVE  YFInvariant' /\ YFRows'
<1>1. run.pc # "idle"
  BY DEF YFinance!DropSourceColumn, YFinance!CreateCopy, YFinance!CopyRows, YFinance!ExchangeTables, YFinance!DropCopy
<1>2. run \in YFRun
  BY <1>1, YFRunning DEF YFInvariant
<1>3. run.scope.begin <= run.scope.end /\ run.scope.end <= YFinance!LatestCompleted
  BY <1>1 DEF YFInvariant, YFWindow
<1>4. copy \in [there : BOOLEAN, rows : SUBSET (Symbols \X Nat)] /\ table \in SUBSET (Symbols \X Nat) /\ master \in SUBSET Symbols
  BY DEF YFInvariant, YFTyped
<1>5. PICK pc \in {"check", "copy", "exchange", "cut copy", "exchanged"} : run' = [run EXCEPT !.pc = pc]
  BY DEF YFinance!DropSourceColumn, YFinance!CreateCopy, YFinance!CopyRows, YFinance!ExchangeTables, YFinance!DropCopy
<1>6. run' \in YFRun /\ run'.pc = pc /\ run'.scope = run.scope /\ run'.pc \notin YFWorking
  BY <1>2, <1>5 DEF YFRun, YFWorking
<1>7. YFFrame /\ UNCHANGED <<cursor, leftOut, early, master>>
  BY DEF YFinance!DropSourceColumn, YFinance!CreateCopy, YFinance!CopyRows, YFinance!ExchangeTables, YFinance!DropCopy, YFFrame
<1>8. table' = table
  BY DEF YFinance!DropSourceColumn, YFinance!CreateCopy, YFinance!CopyRows, YFinance!ExchangeTables, YFinance!DropCopy,
         YFRows, YFCopied
<1>9. copy' \in [there : BOOLEAN, rows : SUBSET (Symbols \X Nat)]
  <2>1. CASE \E part \in SUBSET table : YFinance!CopyRows(part)
    <3>1. PICK part \in SUBSET table : YFinance!CopyRows(part)
      BY <2>1
    <3> QED BY <1>4, <3>1 DEF YFinance!CopyRows
  <2>2. CASE ~\E part \in SUBSET table : YFinance!CopyRows(part)
    <3>1. CASE YFinance!DropSourceColumn
      BY <1>4, <3>1 DEF YFinance!DropSourceColumn
    <3>2. CASE YFinance!CreateCopy
      BY <3>2 DEF YFinance!CreateCopy
    <3>3. CASE YFinance!ExchangeTables
      <4>1. copy' = [copy EXCEPT !.rows = table]
        BY <3>3 DEF YFinance!ExchangeTables
      <4> QED BY <1>4, <4>1
    <3>4. CASE YFinance!DropCopy
      BY <3>4 DEF YFinance!DropCopy, YFinance!NoCopy
    <3> QED BY <2>2, <3>1, <3>2, <3>3, <3>4
  <2> QED BY <2>1, <2>2
<1>10. run'.pc = "exchange" => copy'.rows = table'
  <2>1. ASSUME run'.pc = "exchange" PROVE copy'.rows = table'
    <3>1. PICK part \in SUBSET table : YFinance!CopyRows(part)
      BY <1>2, <2>1 DEF YFinance!DropSourceColumn, YFinance!CreateCopy, YFinance!ExchangeTables, YFinance!DropCopy, YFRun
    <3>2. part = table
      BY <1>2, <2>1, <3>1 DEF YFinance!CopyRows, YFRun
    <3> QED BY <1>4, <3>1, <3>2 DEF YFinance!CopyRows
  <2> QED BY <2>1
<1> QED BY <1>3, <1>4, <1>6, <1>7, <1>8, <1>9, <1>10, YFQuiet

\* The steps that end a run keep the invariant.
LEMMA YFEnds ==
  ASSUME YFInvariant, YFRows,
         \/ YFinance!SkipSuccessfulToday \/ YFinance!FailTask \/ YFinance!LogSuccess \/ YFinance!Killed
  PROVE  YFInvariant' /\ YFRows'
<1>1. run' = YFinance!Idle /\ YFFrame /\ UNCHANGED <<cursor, leftOut, early, master, table, copy>>
  BY DEF YFinance!SkipSuccessfulToday, YFinance!FailTask, YFinance!LogSuccess, YFinance!Killed, YFFrame
<1> QED BY <1>1, YFQuiet DEF YFInvariant, YFTyped

\* A plan is made from the state as it is.
LEMMA YFPlanning ==
  ASSUME YFInvariant, YFRows, run.pc = "check", NEW S \in SUBSET Symbols, YFinance!Plan(S),
         YFFrame, master' \in SUBSET Symbols, UNCHANGED <<table, copy, cursor, leftOut, early>>
  PROVE  YFInvariant' /\ YFRows'
<1>1. run \in YFRun /\ YFTyped /\ run.pc # "idle"
  BY YFRunning DEF YFInvariant
<1> DEFINE before == [s \in Symbols |-> YFinance!LatestCursor(s)]
<1>13. PICK due : due = YFDue(run.scope.begin, before)
  OBVIOUS
<1>2. PICK todo \in Seq(due) :
         run' = [run EXCEPT !.pc = "request", !.codes = S, !.before = before, !.todo = todo]
  BY <1>1, <1>13, YFPlan
<1>3. before \in [Symbols -> Nat]
  BY <1>1, YFLatestCursor
<1>4. /\ run' \in YFRun /\ run'.pc = "request" /\ run'.codes = S /\ run'.before = before
      /\ run'.scope = run.scope /\ run'.unresolved = run.unresolved /\ run'.todo = todo
  <2>1. due \in SUBSET YFRequest
    BY <1>13 DEF YFDue
  <2>2. todo \in Seq(YFRequest)
    BY <2>1
  <2> HIDE DEF before
  <2> QED BY <1>1, <1>2, <1>3, <2>2 DEF YFRun
<1>5. YFTyped'
  BY <1>4 DEF YFInvariant, YFTyped, YFFrame
<1>6. YFWindow'
  BY <1>1, <1>4 DEF YFInvariant, YFWindow, YFFrame, YFinance!LatestCompleted
<1>7. YFInvariant'
  BY <1>4, <1>5, <1>6 DEF YFInvariant, YFAnswer, YFFetched
<1>8. YFNoHole'
  BY DEF YFRows, YFNoHole, YFFrame, YFWanted
<1>9. YFBefore'
  <2> SUFFICES ASSUME NEW s \in Symbols, NEW d \in 1..LastDay, YFWanted(d), d <= before[s]
               PROVE  <<s, d>> \in table \union leftOut
    BY <1>4 DEF YFBefore, YFFrame, YFWanted
  <2>1. YFinance!LatestCursor(s) \in Nat /\ d <= YFinance!LatestCursor(s)
    BY <1>1, YFLatestCursor
  <2>2. CASE cursor[s] > 0
    BY <1>1, <2>1, <2>2, YFLatestCursor DEF YFRows, YFNoHole
  <2>3. CASE ~(cursor[s] > 0)
    <3> DEFINE e == YFinance!LatestCursor(s)
    <3>1. <<s, e>> \in table /\ e \in 1..LastDay
      <4> DEFINE saved == {x \in YFinance!Days : <<s, x>> \in table}
      <4>1. saved \in SUBSET (1..LastDay)
        BY DEF YFinance!Days
      <4>2. e = YFinance!Latest(saved)
        BY <2>3 DEF YFinance!LatestCursor
      <4>3. saved = {} => YFinance!Latest(saved) = 0
        BY DEF YFinance!Latest
      <4>4. e \in saved
        <5> HIDE DEF saved
        <5> QED BY <2>1, <4>1, <4>2, <4>3, YFLatest
      <4> HIDE DEF e
      <4> QED BY <4>4 DEF YFinance!Days
    <3> HIDE DEF e
    <3>2. d <= e
      BY <2>1 DEF e
    <3> QED BY <3>1, <3>2 DEF YFRows, YFNoHole
  <2> QED BY <2>2, <2>3
<1>10. YFCopied' /\ YFSaved'
  BY <1>4 DEF YFCopied, YFSaved
<1>11. YFPending'
  <2> SUFFICES ASSUME YFinance!OfSymbols, NEW s \in S, before[s] = 0
               PROVE  \E i \in DOMAIN run'.todo : s \in run'.todo[i].codes
    BY <1>4 DEF YFPending, YFFrame, YFinance!OfSymbols
  <2>1. YFinance!LatestCursor(s) = 0
    OBVIOUS
  <2>2. run.scope.begin <= run.scope.end
    BY <1>1 DEF YFInvariant, YFWindow
  <2> QED BY <1>1, <2>1, <2>2, YFPlan
<1>12. YFPlanned'
  BY <1>2, <1>4, <1>13 DEF YFPlanned
<1> QED BY <1>7, <1>8, <1>9, <1>10, <1>11, <1>12 DEF YFRows

\* A limit leaves some of the symbols.
LEMMA YFLimited ==
  ASSUME YFInvariant, run.pc # "idle", NEW S \in SUBSET Symbols, S # {}
  PROVE  YFinance!ToSet(YFinance!Limited(YFinance!SetToSeq(S))) \in SUBSET Symbols
<1> DEFINE order == YFinance!SetToSeq(S)
<1>1. order \in Seq(S) /\ \A x \in S : \E i \in DOMAIN order : order[i] = x
  BY YFSetToSeq
<1> HIDE DEF order
<1>2. 1 <= Len(order) /\ order[1] \in S
  BY <1>1
<1>4. SubSeq(order, 1, 1) \in Seq(S)
  BY <1>1, <1>2
<1>3. \A i \in DOMAIN YFinance!Limited(order) : YFinance!Limited(order)[i] \in S
  BY <1>1, <1>4 DEF YFinance!Limited
<1> QED BY <1>3 DEF order, YFinance!ToSet

\* The choice of symbols keeps the invariant.
LEMMA YFResolve ==
  ASSUME YFInvariant, YFRows,
         YFinance!ResolveSymbols \/ \E part \in (SUBSET Symbols) \ {{}} : YFinance!FetchMaster(part)
  PROVE  YFInvariant' /\ YFRows'
<1>1. run.pc = "check" /\ YFFrame /\ UNCHANGED <<table, copy, cursor, leftOut, early>>
  BY DEF YFinance!ResolveSymbols, YFinance!FetchMaster, YFFrame
<1>2. run.pc # "idle" /\ master \in SUBSET Symbols
  BY <1>1 DEF YFInvariant, YFTyped
<1>3. CASE YFinance!ResolveSymbols
  <2>1. PICK S \in SUBSET Symbols : YFinance!Plan(S)
    <3>1. CASE kind = "group_daily"
      BY <1>3, <3>1 DEF YFinance!ResolveSymbols
    <3>2. CASE kind # "group_daily"
      <4>1. YFinance!ToSet(YFinance!Limited(YFinance!SetToSeq(master))) \in SUBSET Symbols
        BY <1>2, <1>3, <3>2, YFLimited DEF YFinance!ResolveSymbols
      <4> QED BY <1>3, <3>2, <4>1 DEF YFinance!ResolveSymbols
    <3> QED BY <3>1, <3>2
  <2>2. master' \in SUBSET Symbols
    BY <1>2, <1>3 DEF YFinance!ResolveSymbols
  <2> QED BY <1>1, <2>1, <2>2, YFPlanning
<1>4. ASSUME NEW part \in (SUBSET Symbols) \ {{}}, YFinance!FetchMaster(part) PROVE YFInvariant' /\ YFRows'
  <2>1. master' \in SUBSET Symbols
    BY <1>4 DEF YFinance!FetchMaster
  <2>2. CASE run' = YFinance!Idle
    BY <1>1, <2>1, <2>2, YFQuiet DEF YFInvariant, YFTyped
  <2>3. CASE run' # YFinance!Idle
    <3>1. PICK S \in SUBSET Symbols : YFinance!Plan(S)
      <4>1. YFinance!ToSet(YFinance!Limited(YFinance!SetToSeq(Symbols))) \in SUBSET Symbols
        BY <1>2, YFLimited
      <4> QED BY <1>4, <2>3, <4>1 DEF YFinance!FetchMaster
    <3> QED BY <1>1, <2>1, <3>1, YFPlanning
  <2> QED BY <2>2, <2>3
<1> QED BY <1>3, <1>4

\* The request at the head of a list, and those after it.
LEMMA YFHead ==
  ASSUME YFInvariant, run.pc \in YFWorking, run.todo # <<>>
  PROVE  /\ run \in YFRun /\ run.pc # "idle"
         /\ Head(run.todo) \in YFRequest /\ Tail(run.todo) \in Seq(YFRequest)
         /\ \A i \in DOMAIN run.todo : i = 1 \/ \E j \in DOMAIN Tail(run.todo) : Tail(run.todo)[j] = run.todo[i]
         /\ \A i \in DOMAIN run.todo : i = 1 => run.todo[i] = Head(run.todo)
<1>1. run.pc # "idle"
  BY DEF YFWorking
<1>2. run \in YFRun
  BY <1>1, YFRunning DEF YFInvariant
<1>3. run.todo \in Seq(YFRequest)
  BY <1>2 DEF YFRun
<1>4. PICK q \in Seq(YFRequest) : q = run.todo
  BY <1>3
<1>5. Head(q) \in YFRequest /\ Tail(q) \in Seq(YFRequest)
  BY <1>4
<1>6. ASSUME NEW i \in DOMAIN q, i # 1 PROVE \E j \in DOMAIN Tail(q) : Tail(q)[j] = q[i]
  <2>1. i - 1 \in DOMAIN Tail(q) /\ Tail(q)[i - 1] = q[i]
    BY <1>4, <1>6
  <2> QED BY <2>1
<1>7. \A i \in DOMAIN q : i = 1 => q[i] = Head(q)
  BY <1>4
<1> QED BY <1>1, <1>2, <1>4, <1>5, <1>6, <1>7

\* The request at the head and those after it are due.
LEMMA YFHeadDue ==
  ASSUME YFInvariant, YFRows, run.pc \in YFWorking, run.todo # <<>>,
         NEW due, due = YFDue(run.scope.begin, run.before)
  PROVE  Head(run.todo) \in due /\ Tail(run.todo) \in Seq(due) /\ due \in SUBSET YFRequest
<1>1. PICK q \in Seq(due) : q = run.todo
  BY DEF YFRows, YFPlanned
<1>2. Head(q) \in due /\ Tail(q) \in Seq(due)
  <2>1. q # <<>>
    BY <1>1
  <2> QED BY <2>1, ListEnds
<1> QED BY <1>1, <1>2 DEF YFDue

\* Fetch keeps the invariant.
LEMMA YFFetch ==
  ASSUME YFInvariant, YFRows, YFinance!Requesting,
         NEW covered \in SUBSET Head(run.todo).codes, NEW last \in Head(run.todo).first..run.scope.end,
         YFinance!Fetch(covered, last)
  PROVE  YFInvariant' /\ YFRows'
<1> DEFINE q == Head(run.todo)
           rows == IF kind = "fundamental" THEN covered \X {0} ELSE covered \X (q.first..last)
<1>1. run.pc = "request" /\ run.todo # <<>>
  BY DEF YFinance!Requesting
<1>2. run \in YFRun /\ run.pc # "idle" /\ q \in YFRequest
  BY <1>1, YFHead DEF YFWorking
<1>3. run' = [run EXCEPT !.pc = "save", !.rows = rows]
  BY DEF YFinance!Fetch, YFinance!Q
<1>4. last \in Nat /\ q.first <= last /\ last <= run.scope.end /\ covered \in SUBSET Symbols
  <2>1. q.first \in Nat \ {0} /\ q.codes \in SUBSET Symbols /\ run.scope.end \in Nat
    BY <1>2, YFRunning DEF YFRequest, YFInvariant
  <2> QED BY <2>1
<1>5. rows \in SUBSET (Symbols \X Nat)
  <2>1. q.first \in Nat
    BY <1>2 DEF YFRequest
  <2>2. \A d \in q.first..last : d \in Nat
    BY <1>4, <2>1
  <2> HIDE DEF q
  <2> QED BY <1>4, <2>2
<1> HIDE DEF rows, q
<1>6. /\ run' \in YFRun /\ run'.pc = "save" /\ run'.rows = rows /\ run'.todo = run.todo
      /\ run'.before = run.before /\ run'.scope = run.scope
      /\ run'.codes = run.codes /\ run'.unresolved = run.unresolved
  BY <1>2, <1>3, <1>5 DEF YFRun
<1>7. UNCHANGED <<today, closed, kind, table, copy, cursor, master, leftOut, early>>
  BY DEF YFinance!Fetch
<1>8. YFTyped'
  BY <1>6, <1>7 DEF YFInvariant, YFTyped
<1>9. YFAnswer'
  <2>1. /\ q.first <= last /\ last <= run.scope.end
        /\ rows = IF kind = "fundamental" THEN covered \X {0} ELSE covered \X (q.first..last)
    BY <1>4 DEF rows
  <2> QED BY <1>1, <1>4, <1>6, <1>7, <2>1 DEF YFAnswer, q
<1>10. YFWindow'
  BY <1>2, <1>6, <1>7 DEF YFInvariant, YFWindow, YFinance!LatestCompleted
<1>11. YFInvariant'
  BY <1>7, <1>8, <1>9, <1>10 DEF YFInvariant
<1>12. YFNoHole'
  BY <1>7 DEF YFRows, YFNoHole, YFWanted
<1>13. YFBefore'
  BY <1>1, <1>6, <1>7 DEF YFRows, YFBefore, YFWanted, YFWorking
<1>14. YFCopied' /\ YFSaved'
  BY <1>6 DEF YFCopied, YFSaved
<1>15. YFPending'
  BY <1>1, <1>6, <1>7 DEF YFRows, YFPending, YFinance!OfSymbols, YFWorking
<1>16. YFPlanned'
  BY <1>1, <1>6 DEF YFRows, YFPlanned, YFWorking
<1> QED BY <1>11, <1>12, <1>13, <1>14, <1>15, <1>16 DEF YFRows

\* An insertion, whole or cut, keeps the invariant.
LEMMA YFSave ==
  ASSUME YFInvariant, YFRows, run.pc = "save", NEW part \in SUBSET run.rows, YFinance!SaveFrame(part)
  PROVE  YFInvariant' /\ YFRows'
<1> DEFINE q == Head(run.todo)
           kept == YFinance!Kept(part)
           codes == {x[1] : x \in kept}
<1>1. run.todo # <<>>
  BY DEF YFInvariant, YFAnswer, YFFetched
<1>2. run \in YFRun /\ run.pc # "idle" /\ q \in YFRequest
  BY <1>1, YFHead DEF YFWorking
<1>3. PICK covered \in SUBSET q.codes, last \in Nat :
         /\ q.first <= last /\ last <= run.scope.end
         /\ run.rows = IF kind = "fundamental" THEN covered \X {0} ELSE covered \X (q.first..last)
  BY DEF YFInvariant, YFAnswer, YFFetched
<1>4. q.first \in Nat \ {0} /\ q.codes \in SUBSET Symbols
  BY <1>2 DEF YFRequest
<1>5. /\ UNCHANGED <<today, closed, kind, copy, cursor, master>>
      /\ table' = IF kind = "fundamental" THEN table ELSE table \union kept
      /\ leftOut' = leftOut \union YFinance!PassedOver(codes)
      /\ early' = early \union {x \in part : ~closed /\ x[2] = today}
      /\ \A x \in part, y \in run.rows \ part : x[1] = y[1] => x[2] < y[2]
  BY DEF YFinance!SaveFrame
<1>6. kept \in SUBSET part
  BY DEF YFinance!Kept
<1>7. /\ run' \in YFRun /\ run'.pc = (IF part = run.rows THEN "cursor" ELSE "cut")
      /\ run'.rows = run.rows /\ run'.todo = run.todo /\ run'.before = run.before /\ run'.scope = run.scope
      /\ run'.codes = run.codes /\ run'.unresolved = run.unresolved
  <2>1. PICK flag \in BOOLEAN :
           run' = [run EXCEPT !.pc = IF part = run.rows THEN "cursor" ELSE "cut", !.inserted = flag]
    BY <1>2 DEF YFinance!SaveFrame, YFRun
  <2> QED BY <1>2, <2>1 DEF YFRun
<1>8. run.rows \in SUBSET (Symbols \X Nat)
  BY <1>2 DEF YFRun
<1>9. YFTyped'
  BY <1>5, <1>6, <1>7, <1>8 DEF YFInvariant, YFTyped
<1>10. YFAnswer'
  BY <1>1, <1>3, <1>5, <1>7 DEF YFAnswer
<1>11. YFWindow'
  BY <1>2, <1>5, <1>7 DEF YFInvariant, YFWindow, YFinance!LatestCompleted
<1>12. early' = {}
  <2> SUFFICES ASSUME NEW x \in part, ~closed, x[2] = today PROVE FALSE
    BY <1>5 DEF YFInvariant
  <2>1. run.scope.end <= today - 1 /\ today \in Nat \ {0} /\ run.scope.end \in Nat
    <3>1. run.scope.end \in 1..LastDay /\ LastDay \in Nat /\ today \in 1..LastDay
      BY <1>2, YFRunning DEF YFInvariant, YFTyped
    <3>2. run.scope.end <= today - 1
      BY <1>2 DEF YFInvariant, YFWindow, YFinance!LatestCompleted
    <3> QED BY <3>1, <3>2
  <2>2. x[2] = 0 \/ (x[2] \in Nat /\ x[2] <= last)
    <3> HIDE DEF q
    <3> QED BY <1>3, <1>4
  <2> QED BY <1>3, <2>1, <2>2
<1>13. YFInvariant'
  BY <1>9, <1>10, <1>11, <1>12 DEF YFInvariant
<1>14. table \subseteq table' /\ leftOut \subseteq leftOut'
  BY <1>5
<1>15. YFNoHole'
  <2> SUFFICES ASSUME NEW s \in Symbols, NEW d \in 1..LastDay, YFWanted(d),
                      d <= cursor[s] \/ \E e \in 1..LastDay : d <= e /\ <<s, e>> \in table',
                      <<s, d>> \notin table, <<s, d>> \notin leftOut
               PROVE  <<s, d>> \in table' \union leftOut'
    BY <1>5, <1>14 DEF YFNoHole, YFWanted
  <2>1. PICK e \in 1..LastDay : d <= e /\ <<s, e>> \in kept /\ kind # "fundamental"
    BY <1>5 DEF YFRows, YFNoHole
  <2>2. s \in covered /\ e \in q.first..last /\ <<s, e>> \in part
    BY <1>3, <1>6, <2>1
  <2>3. CASE q.first <= d
    <3>1. <<s, d>> \in run.rows
      <4>1. d \in q.first..last
        BY <1>4, <2>1, <2>2, <2>3
      <4> QED BY <1>3, <2>1, <2>2, <4>1
    <3>2. <<s, d>> \in part
      <4> SUFFICES ASSUME <<s, d>> \in run.rows \ part PROVE FALSE
        BY <3>1
      <4>1. e < d
        BY <1>5, <2>2
      <4> QED BY <2>1, <4>1
    <3>3. <<s, d>> \in kept
      BY <3>2 DEF YFinance!Kept, YFWanted
    <3> QED BY <1>5, <2>1, <3>3
  <2>4. CASE ~(q.first <= d)
    <3>1. ~(d <= run.before[s])
      BY DEF YFRows, YFBefore, YFWorking
    <3>2. run.before[s] \in Nat
      BY <1>2 DEF YFRun
    <3>3. s \in codes
      BY <2>1
    <3>4. <<s, d>> \in YFinance!PassedOver(codes)
      <4>1. PICK due : due = YFDue(run.scope.begin, run.before)
        OBVIOUS
      <4>2. q \in due
        BY <1>1, <4>1, YFHeadDue DEF YFWorking
      <4>3. q.first = run.scope.begin \/ q.first <= run.before[s] + 1
        BY <2>2, <4>1, <4>2 DEF YFDue
      <4> HIDE DEF codes, q
      <4>4. run.scope.begin \in Nat
        BY <1>2, YFRunning DEF YFInvariant
      <4>5. run.before[s] < d /\ d < run.scope.begin
        BY <1>4, <2>4, <3>1, <3>2, <4>3, <4>4
      <4> QED BY <3>3, <4>5 DEF YFinance!PassedOver, YFinance!Days
    <3> QED BY <1>5, <3>4
  <2> QED BY <2>3, <2>4
<1>16. YFBefore'
  BY <1>5, <1>7, <1>14 DEF YFRows, YFBefore, YFWanted, YFWorking
<1>17. YFCopied'
  BY <1>7 DEF YFCopied
<1>18. YFSaved'
  BY <1>5, <1>7 DEF YFSaved, YFinance!Kept
<1>19. YFPending'
  BY <1>5, <1>7 DEF YFRows, YFPending, YFinance!OfSymbols, YFWorking
<1>20. YFPlanned'
  BY <1>7 DEF YFRows, YFPlanned, YFWorking
<1> QED BY <1>13, <1>15, <1>16, <1>17, <1>18, <1>19, <1>20 DEF YFRows

\* What comes instead of the request at the head.
LEMMA YFRest ==
  ASSUME YFInvariant, YFRows, run.pc \in YFWorking, run.todo # <<>>,
         NEW due, due = YFDue(run.scope.begin, run.before),
         NEW front \in Seq(due), NEW unresolved \in SUBSET Symbols,
         run' = [run EXCEPT !.pc = "request", !.rows = {}, !.todo = front \o Tail(run.todo),
                            !.unresolved = run.unresolved \union unresolved],
         UNCHANGED <<today, closed, kind, table, copy, master, early>>,
         cursor' \in [Symbols -> Nat],
         leftOut \subseteq leftOut', YFNoHole',
         YFinance!OfSymbols =>
            \A s \in Head(run.todo).codes : run.before[s] = 0 /\ cursor'[s] = 0 =>
               s \in unresolved \/ \E i \in DOMAIN front : s \in front[i].codes,
         \A s \in Symbols : cursor'[s] >= cursor[s]
  PROVE  YFInvariant' /\ YFRows'
<1>1. /\ run \in YFRun /\ run.pc # "idle"
      /\ Head(run.todo) \in YFRequest /\ Tail(run.todo) \in Seq(YFRequest)
      /\ \A i \in DOMAIN run.todo : i = 1 \/ \E j \in DOMAIN Tail(run.todo) : Tail(run.todo)[j] = run.todo[i]
      /\ \A i \in DOMAIN run.todo : i = 1 => run.todo[i] = Head(run.todo)
  BY YFHead
<1> DEFINE todo == front \o Tail(run.todo)
<1>2. todo \in Seq(due) /\ todo \in Seq(YFRequest) /\ front \in Seq(YFRequest)
  <2>1. Tail(run.todo) \in Seq(due) /\ due \in SUBSET YFRequest
    BY YFHeadDue
  <2>2. todo \in Seq(due)
    BY <2>1
  <2> HIDE DEF todo
  <2> QED BY <2>1, <2>2
<1>3. \A i \in DOMAIN front : i \in DOMAIN todo /\ todo[i] = front[i]
  BY <1>1, <1>2, ConcatenatedAt
<1>4. \A j \in DOMAIN Tail(run.todo) : Len(front) + j \in DOMAIN todo /\ todo[Len(front) + j] = Tail(run.todo)[j]
  <2> DEFINE t == Tail(run.todo)
  <2>1. t \in Seq(YFRequest)
    BY <1>1
  <2> HIDE DEF t
  <2>2. \A j \in DOMAIN t : Len(front) + j \in DOMAIN (front \o t) /\ (front \o t)[Len(front) + j] = t[j]
    BY <1>2, <2>1, ConcatenatedAt
  <2> QED BY <2>2 DEF t
<1> HIDE DEF todo
<1>5. /\ run' \in YFRun /\ run'.pc = "request" /\ run'.todo = todo /\ run'.scope = run.scope /\ run'.codes = run.codes
      /\ run'.before = run.before /\ run'.unresolved = run.unresolved \union unresolved
  <2>1. run' = [run EXCEPT !.pc = "request", !.rows = {}, !.todo = todo,
                           !.unresolved = run.unresolved \union unresolved]
    BY DEF todo
  <2>2. run.unresolved \union unresolved \in SUBSET Symbols
    BY <1>1 DEF YFRun
  <2>3. PICK u \in SUBSET Symbols : u = run.unresolved \union unresolved
    BY <2>2
  <2>4. run' = [run EXCEPT !.pc = "request", !.rows = {}, !.todo = todo, !.unresolved = u]
    BY <2>1, <2>3
  <2>5. /\ run' \in YFRun /\ run'.pc = "request" /\ run'.todo = todo /\ run'.scope = run.scope
        /\ run'.codes = run.codes /\ run'.before = run.before /\ run'.unresolved = u
    BY <1>1, <1>2, <2>4 DEF YFRun
  <2> QED BY <2>3, <2>5
<1>6. YFTyped'
  BY <1>5 DEF YFInvariant, YFTyped
<1>7. YFWindow'
  BY <1>1, <1>5 DEF YFInvariant, YFWindow, YFinance!LatestCompleted
<1>8. YFInvariant'
  BY <1>5, <1>6, <1>7 DEF YFInvariant, YFAnswer, YFFetched
<1>9. YFBefore'
  BY <1>5 DEF YFRows, YFBefore, YFWanted, YFWorking
<1>10. YFCopied' /\ YFSaved'
  BY <1>5 DEF YFCopied, YFSaved
<1>11. YFPending'
  <2> SUFFICES ASSUME YFinance!OfSymbols, NEW s \in run.codes, run.before[s] = 0, cursor'[s] = 0,
                      s \notin run.unresolved, s \notin unresolved
               PROVE  \E i \in DOMAIN todo : s \in todo[i].codes
    BY <1>5 DEF YFPending, YFinance!OfSymbols
  <2>1. s \in Symbols
    BY <1>1 DEF YFRun
  <2>2. cursor[s] = 0
    BY <2>1 DEF YFInvariant, YFTyped
  <2>3. PICK i \in DOMAIN run.todo : s \in run.todo[i].codes
    BY <2>2 DEF YFRows, YFPending
  <2>4. CASE i = 1
    <3>1. s \in Head(run.todo).codes
      BY <1>1, <2>3, <2>4
    <3> QED BY <1>3, <3>1
  <2>5. CASE i # 1
    BY <1>1, <1>4, <2>3, <2>5
  <2> QED BY <2>4, <2>5
<1>12. YFPlanned'
  BY <1>2, <1>5 DEF YFPlanned
<1> QED BY <1>8, <1>9, <1>10, <1>11, <1>12 DEF YFRows

\* UpdateTaskCursors keeps the invariant.
LEMMA YFUpdate ==
  ASSUME YFInvariant, YFRows, YFinance!UpdateTaskCursors
  PROVE  YFInvariant' /\ YFRows'
<1> DEFINE q == Head(run.todo)
           newest(s) == YFinance!Latest({x[2] : x \in {r \in run.rows : r[1] = s}})
           unresolved == IF YFinance!OfSymbols /\ q.alone THEN YFinance!NeverSeen(q.codes \ YFinance!Covered) ELSE {}
           front == YFinance!Alone(YFinance!ToRetry, q.first)
<1>1. run.pc = "cursor" /\ run.todo # <<>>
  BY DEF YFinance!UpdateTaskCursors, YFInvariant, YFAnswer, YFFetched
<1>2. run \in YFRun /\ run.pc # "idle" /\ q \in YFRequest
  BY <1>1, YFHead DEF YFWorking
<1>3. PICK covered \in SUBSET q.codes, last \in Nat :
         /\ q.first <= last /\ last <= run.scope.end
         /\ run.rows = IF kind = "fundamental" THEN covered \X {0} ELSE covered \X (q.first..last)
  BY <1>1 DEF YFInvariant, YFAnswer, YFFetched
<1>4. q.first \in Nat \ {0} /\ q.codes \in SUBSET Symbols
  BY <1>2 DEF YFRequest
<1>5. /\ UNCHANGED <<today, closed, kind, table, copy, master, early>>
      /\ IF kind = "fundamental" THEN UNCHANGED <<cursor, leftOut>>
         ELSE /\ cursor' = [s \in Symbols |-> YFinance!Larger(cursor[s], newest(s))]
              /\ leftOut' = leftOut \union YFinance!PassedOver(YFinance!Covered)
      /\ run' = [run EXCEPT !.pc = "request", !.rows = {}, !.todo = front \o Tail(run.todo),
                            !.unresolved = run.unresolved \union unresolved]
  BY DEF YFinance!UpdateTaskCursors, YFinance!Q
<1>6. run.scope.end \in 1..LastDay /\ LastDay \in Nat
  BY <1>2, YFRunning DEF YFInvariant
<1>7. kind # "fundamental" => YFinance!Covered = covered
  <2> SUFFICES ASSUME kind # "fundamental" PROVE YFinance!Covered = covered
    OBVIOUS
  <2> DEFINE first == q.first
  <2>1. run.rows = covered \X (first..last) /\ first \in Nat /\ first <= last
    BY <1>3, <1>4
  <2> HIDE DEF q, first
  <2>2. ASSUME NEW s \in covered PROVE s \in YFinance!Covered
    <3>1. first \in first..last
      BY <1>3, <2>1
    <3>2. <<s, first>> \in run.rows
      BY <2>1, <3>1
    <3> QED BY <3>2 DEF YFinance!Covered
  <2>3. ASSUME NEW x \in run.rows PROVE x[1] \in covered
    BY <2>1
  <2> QED BY <2>2, <2>3 DEF YFinance!Covered
<1>8. ASSUME kind # "fundamental", NEW s \in Symbols
      PROVE  newest(s) = IF s \in covered THEN last ELSE 0
  <2> DEFINE days == {x[2] : x \in {r \in run.rows : r[1] = s}}
  <2>1. CASE s \in covered
    <3>1. last \in days
      <4>1. <<s, last>> \in run.rows
        BY <1>3, <1>4, <1>8, <2>1
      <4> QED BY <4>1
    <3>2. \A d \in days : d \in q.first..last
      BY <1>3, <1>8
    <3>3. days \in SUBSET (1..LastDay) /\ \A d \in days : d <= last
      BY <1>3, <1>4, <1>6, <3>2
    <3> HIDE DEF days
    <3>4. YFinance!Latest(days) \in days /\ last <= YFinance!Latest(days)
      BY <3>1, <3>3, YFLatest
    <3>5. YFinance!Latest(days) = last
      <4>1. YFinance!Latest(days) <= last /\ YFinance!Latest(days) \in 1..LastDay
        BY <3>3, <3>4
      <4>2. YFinance!Latest(days) \in Int /\ last \in Int
        BY <1>3, <1>6, <4>1
      <4> QED BY <3>4, <4>1, <4>2
    <3> QED BY <2>1, <3>5 DEF days
  <2>2. CASE s \notin covered
    <3>1. days = {}
      BY <1>3, <1>8, <2>2
    <3> QED BY <2>2, <3>1 DEF YFinance!Latest
  <2> QED BY <2>1, <2>2
<1> HIDE DEF newest
<1>9. cursor \in [Symbols -> Nat]
  BY DEF YFInvariant, YFTyped
<1>10. /\ cursor' \in [Symbols -> Nat] /\ \A s \in Symbols : cursor'[s] >= cursor[s]
       /\ kind # "fundamental" => \A s \in Symbols : cursor'[s] = cursor[s] \/ (s \in covered /\ cursor'[s] = last)
       /\ kind # "fundamental" => \A s \in covered : cursor'[s] >= last
  <2>1. CASE kind = "fundamental"
    BY <1>5, <1>9, <2>1
  <2>2. CASE kind # "fundamental"
    <3>1. \A s \in Symbols : cursor[s] \in Nat /\ newest(s) \in Nat
      BY <1>8, <1>9, <2>2
    <3>2. \A s \in Symbols : cursor'[s] = YFinance!Larger(cursor[s], newest(s))
      BY <1>5, <2>2
    <3>3. \A s \in Symbols : /\ cursor'[s] \in Nat /\ cursor'[s] >= cursor[s] /\ cursor'[s] >= newest(s)
                             /\ cursor'[s] = cursor[s] \/ (cursor'[s] = newest(s) /\ newest(s) > 0)
      BY <3>1, <3>2 DEF YFinance!Larger
    <3>4. \A s \in Symbols : newest(s) = IF s \in covered THEN last ELSE 0
      BY <1>8, <2>2
    <3>5. cursor' = [s \in Symbols |-> YFinance!Larger(cursor[s], newest(s))]
      BY <1>5, <2>2
    <3>6. cursor' \in [Symbols -> Nat]
      BY <3>3, <3>5
    <3>7. covered \in SUBSET Symbols
      BY <1>4
    <3> QED BY <1>3, <2>2, <3>3, <3>4, <3>6, <3>7
  <2> QED BY <2>1, <2>2
<1>11. leftOut \subseteq leftOut'
  BY <1>5
<1>13. unresolved \in SUBSET Symbols /\ YFinance!ToRetry \in SUBSET q.codes
  <2> HIDE DEF q
  <2> QED BY <1>4 DEF YFinance!NeverSeen, YFinance!ToRetry, YFinance!Q, q
<1>14. PICK due : /\ due = YFDue(run.scope.begin, run.before) /\ q \in due
                  /\ front \in Seq(due)
                  /\ \A x \in YFinance!ToRetry : \E i \in DOMAIN front : x \in front[i].codes
  <2>1. PICK due : due = YFDue(run.scope.begin, run.before)
    OBVIOUS
  <2>2. q \in due
    BY <1>1, <2>1, YFHeadDue DEF YFWorking
  <2>3. \A part \in SUBSET YFinance!ToRetry : [codes |-> part, first |-> q.first, alone |-> TRUE] \in due
    <3> SUFFICES ASSUME NEW part \in SUBSET q.codes
                 PROVE  [codes |-> part, first |-> q.first, alone |-> TRUE] \in due
      BY <1>13
    <3> HIDE DEF q
    <3> QED BY <1>4, <2>1, <2>2 DEF YFDue, YFRequest
  <2>4. YFinance!ToRetry \in SUBSET Symbols
    BY <1>4, <1>13
  <2> HIDE DEF q
  <2> QED BY <2>1, <2>2, <2>3, <2>4, YFAlone
<1>12. YFNoHole'
  <2> SUFFICES ASSUME NEW s \in Symbols, NEW d \in 1..LastDay, YFWanted(d),
                      d <= cursor'[s] \/ \E e \in 1..LastDay : d <= e /\ <<s, e>> \in table,
                      <<s, d>> \notin table, <<s, d>> \notin leftOut
               PROVE  <<s, d>> \in leftOut'
    BY <1>5 DEF YFNoHole, YFWanted
  <2>1. d <= cursor'[s] /\ ~(d <= cursor[s])
    BY DEF YFRows, YFNoHole
  <2>2. kind # "fundamental"
    BY <1>5, <2>1
  <2>3. s \in covered /\ d <= last
    BY <1>10, <2>1, <2>2
  <2>4. ~(q.first <= d)
    <3> SUFFICES ASSUME q.first <= d PROVE FALSE
      OBVIOUS
    <3>1. d \in q.first..last
      BY <1>3, <1>4, <2>3
    <3>2. <<s, d>> \in run.rows
      BY <1>3, <2>2, <2>3, <3>1
    <3>3. <<s, d>> \in YFinance!Kept(run.rows)
      BY <3>2 DEF YFinance!Kept, YFWanted
    <3> QED BY <1>1, <2>2, <3>3 DEF YFRows, YFSaved
  <2>5. ~(d <= run.before[s]) /\ run.before[s] \in Nat
    BY <1>1, <1>2 DEF YFRows, YFBefore, YFWorking, YFRun
  <2>6. <<s, d>> \in YFinance!PassedOver(YFinance!Covered)
    <3>1. q.first = run.scope.begin \/ q.first <= run.before[s] + 1
      BY <1>14, <2>3 DEF YFDue
    <3>2. run.scope.begin \in Nat
      BY <1>2, YFRunning DEF YFInvariant
    <3>3. run.before[s] < d /\ d < run.scope.begin /\ s \in YFinance!Covered
      BY <1>4, <1>7, <2>2, <2>3, <2>4, <2>5, <3>1, <3>2
    <3> QED BY <3>3 DEF YFinance!PassedOver, YFinance!Days
  <2> QED BY <1>5, <2>2, <2>6
<1>15. YFinance!OfSymbols =>
          \A s \in q.codes : run.before[s] = 0 /\ cursor'[s] = 0 =>
             s \in unresolved \/ \E i \in DOMAIN front : s \in front[i].codes
  <2> SUFFICES ASSUME YFinance!OfSymbols, NEW s \in q.codes, run.before[s] = 0, cursor'[s] = 0
               PROVE  s \in unresolved \/ s \in YFinance!ToRetry
    <3> HIDE DEF q, front, unresolved
    <3> QED BY <1>14
  <2>1. kind # "fundamental"
    BY DEF YFinance!OfSymbols
  <2>2. s \notin covered
    BY <1>3, <1>4, <1>10, <2>1
  <2>3. s \in q.codes \ YFinance!Covered /\ s \in YFinance!NeverSeen(q.codes \ YFinance!Covered)
    BY <1>7, <2>1, <2>2 DEF YFinance!NeverSeen
  <2>4. CASE q.alone
    BY <2>3, <2>4
  <2>5. CASE ~q.alone
    <3> HIDE DEF q
    <3> QED BY <2>3, <2>5 DEF YFinance!ToRetry, YFinance!Q, q
  <2> QED BY <2>4, <2>5
<1> HIDE DEF front, unresolved
<1> QED BY <1>1, <1>5, <1>10, <1>11, <1>12, <1>13, <1>14, <1>15, YFRest DEF YFWorking

\* RequestFails keeps the invariant.
LEMMA YFFails ==
  ASSUME YFInvariant, YFRows, YFinance!RequestFails
  PROVE  YFInvariant' /\ YFRows'
<1> DEFINE q == Head(run.todo)
<1>1. UNCHANGED <<today, closed, kind, table, copy, cursor, master, leftOut, early>>
  BY DEF YFinance!RequestFails
<1>2. run.pc \in YFWorking /\ run.todo # <<>>
  BY DEF YFinance!RequestFails, YFinance!Requesting, YFWorking, YFInvariant, YFAnswer, YFFetched
<1>3. run \in YFRun /\ q \in YFRequest /\ Tail(run.todo) \in Seq(YFRequest)
  BY <1>2, YFHead
<1>4. q.first \in Nat \ {0} /\ q.codes \in SUBSET Symbols
  BY <1>3 DEF YFRequest
<1>5. cursor \in [Symbols -> Nat] /\ YFNoHole'
  BY <1>1 DEF YFInvariant, YFTyped, YFRows, YFNoHole, YFWanted
<1>6. CASE run' = YFinance!Idle
  BY <1>1, <1>6, YFQuiet DEF YFInvariant, YFTyped, YFFrame
<1>7. CASE run' # YFinance!Idle
  <2>1. PICK front \in {<<>>, YFinance!Alone(q.codes, q.first)}, unresolved \in {{}, YFinance!NeverSeen(q.codes), q.codes} :
           /\ run' = [run EXCEPT !.pc = "request", !.rows = {}, !.todo = front \o Tail(run.todo),
                                 !.unresolved = run.unresolved \union unresolved]
           /\ YFinance!OfSymbols => unresolved = YFinance!NeverSeen(q.codes) \/ front = YFinance!Alone(q.codes, q.first)
    <3> DEFINE rest == [run EXCEPT !.pc = "request", !.rows = {}, !.todo = Tail(run.todo)]
    <3>1. run' = CASE YFinance!OfSymbols /\ q.alone ->
                          [rest EXCEPT !.unresolved = rest.unresolved \union YFinance!NeverSeen(q.codes)]
                    [] YFinance!OfSymbols /\ ~q.alone /\ run.goOn ->
                          [rest EXCEPT !.todo = YFinance!Alone(q.codes, q.first) \o rest.todo]
                    [] kind = "group_daily" /\ run.goOn -> rest
                    [] kind = "fundamental" /\ run.goOn ->
                          [rest EXCEPT !.unresolved = rest.unresolved \union q.codes]
                    [] OTHER -> YFinance!Idle
      BY DEF YFinance!RequestFails, YFinance!Q
    <3>2. <<>> \o Tail(run.todo) = Tail(run.todo)
      BY <1>3
    <3>3. CASE YFinance!OfSymbols /\ q.alone
      <4> DEFINE u == YFinance!NeverSeen(q.codes)
      <4>1. run' = [run EXCEPT !.pc = "request", !.rows = {}, !.todo = Tail(run.todo),
                              !.unresolved = run.unresolved \union u]
        <5> HIDE DEF u, q
        <5> QED BY <1>3, <3>1, <3>3 DEF YFRun, YFinance!OfSymbols, u, q
      <4> QED BY <3>2, <4>1
    <3>4. CASE ~(YFinance!OfSymbols /\ q.alone)
      <4>1. CASE YFinance!OfSymbols
        <5> DEFINE f == YFinance!Alone(q.codes, q.first)
        <5>1. run' = [rest EXCEPT !.todo = f \o rest.todo]
          BY <1>7, <3>1, <3>4, <4>1 DEF YFinance!OfSymbols
        <5> HIDE DEF f
        <5>2. run' = [run EXCEPT !.pc = "request", !.rows = {}, !.todo = f \o Tail(run.todo),
                                !.unresolved = run.unresolved \union {}]
          BY <1>3, <5>1 DEF YFRun
        <5> QED BY <5>2 DEF f
      <4>2. CASE ~YFinance!OfSymbols /\ kind = "group_daily"
        <5>1. run' = rest
          BY <1>7, <3>1, <4>2
        <5>2. run' = [run EXCEPT !.pc = "request", !.rows = {}, !.todo = Tail(run.todo),
                                !.unresolved = run.unresolved \union {}]
          BY <1>3, <5>1 DEF YFRun
        <5> QED BY <3>2, <4>2, <5>2
      <4>3. CASE ~YFinance!OfSymbols /\ kind # "group_daily"
        <5>1. run' = [rest EXCEPT !.unresolved = rest.unresolved \union q.codes]
          BY <1>7, <3>1, <4>3
        <5>2. run' = [run EXCEPT !.pc = "request", !.rows = {}, !.todo = Tail(run.todo),
                                !.unresolved = run.unresolved \union q.codes]
          BY <1>3, <5>1 DEF YFRun
        <5> QED BY <3>2, <4>3, <5>2
      <4> QED BY <4>1, <4>2, <4>3
    <3> QED BY <3>3, <3>4
  <2>5. PICK due : due = YFDue(run.scope.begin, run.before)
    OBVIOUS
  <2>6. \A part \in SUBSET q.codes : [codes |-> part, first |-> q.first, alone |-> TRUE] \in due
    <3>1. q \in due
      BY <1>2, <2>5, YFHeadDue
    <3> HIDE DEF q
    <3> QED BY <1>4, <2>5, <3>1 DEF YFDue, YFRequest
  <2>2. front \in Seq(due) /\ unresolved \in SUBSET Symbols
    <3>1. YFinance!Alone(q.codes, q.first) \in Seq(due)
      BY <1>4, <2>6, YFAlone
    <3>2. YFinance!NeverSeen(q.codes) \in SUBSET Symbols
      BY <1>4 DEF YFinance!NeverSeen
    <3>3. <<>> \in Seq(due)
      OBVIOUS
    <3> QED BY <1>4, <2>1, <3>1, <3>2, <3>3
  <2>3. YFinance!OfSymbols =>
          \A s \in q.codes : run.before[s] = 0 /\ cursor'[s] = 0 =>
             s \in unresolved \/ \E i \in DOMAIN front : s \in front[i].codes
    <3>1. \A s \in q.codes : \E i \in DOMAIN YFinance!Alone(q.codes, q.first) :
             s \in YFinance!Alone(q.codes, q.first)[i].codes
      BY <1>4, <2>6, YFAlone
    <3> HIDE DEF q
    <3> QED BY <2>1, <3>1 DEF YFinance!NeverSeen
  <2>4. /\ cursor' \in [Symbols -> Nat] /\ \A s \in Symbols : cursor'[s] >= cursor[s]
        /\ leftOut \subseteq leftOut'
    BY <1>1, <1>5
  <2> HIDE DEF q
  <2> QED BY <1>1, <1>2, <1>5, <2>1, <2>2, <2>3, <2>4, <2>5, YFRest DEF q
<1> QED BY <1>6, <1>7

\* Time and upgrades keep the invariant.
LEMMA YFWorld ==
  ASSUME YFInvariant, YFRows, YFinance!Tick \/ \E old \in {"fetched_at", "source"} : YFinance!Upgrade(old)
  PROVE  YFInvariant' /\ YFRows'
<1>1. UNCHANGED <<kind, table, copy, cursor, master, run, leftOut, early>>
  BY DEF YFinance!Tick, YFinance!Upgrade
<1>2. /\ today' \in 1..LastDay /\ closed' \in BOOLEAN
      /\ run.pc # "idle" /\ run.scope.end <= YFinance!LatestCompleted => run.scope.end <= YFinance!LatestCompleted'
  <2>1. today \in 1..LastDay /\ closed \in BOOLEAN /\ LastDay \in Nat
    BY ProviderAssumption DEF YFInvariant, YFTyped
  <2>2. /\ \/ today' = today /\ closed' = closed
           \/ today' = today /\ closed' = TRUE
           \/ today' = today + 1 /\ today < LastDay /\ closed = TRUE /\ closed' = FALSE
    BY <2>1 DEF YFinance!Tick, YFinance!Upgrade
  <2>3. run.pc # "idle" => run.scope.end \in 1..LastDay
    BY YFRunning DEF YFInvariant
  <2>4. today' \in 1..LastDay /\ closed' \in BOOLEAN
    <3>1. CASE today' = today
      BY <2>1, <2>2, <3>1
    <3>2. CASE today' # today
      <4>1. today' = today + 1 /\ today < LastDay /\ closed' = FALSE
        BY <2>2, <3>2
      <4>2. today' \in 1..LastDay
        BY <2>1, <4>1
      <4> QED BY <4>1, <4>2, Zenon
    <3> QED BY <3>1, <3>2
  <2>5. YFinance!LatestCompleted <= YFinance!LatestCompleted'
    BY <2>1, <2>2 DEF YFinance!LatestCompleted
  <2>6. YFinance!LatestCompleted \in Int /\ YFinance!LatestCompleted' \in Int
    BY <2>1, <2>4 DEF YFinance!LatestCompleted
  <2>7. ASSUME run.pc # "idle", run.scope.end <= YFinance!LatestCompleted
        PROVE  run.scope.end <= YFinance!LatestCompleted'
    BY <2>1, <2>3, <2>5, <2>6, <2>7
  <2> QED BY <2>4, <2>7
<1>3. YFTyped'
  BY <1>1, <1>2 DEF YFInvariant, YFTyped
<1>4. YFWindow' /\ YFAnswer'
  BY <1>1, <1>2 DEF YFInvariant, YFWindow, YFAnswer
<1>5. YFRows'
  BY <1>1 DEF YFRows, YFNoHole, YFWanted, YFBefore, YFCopied, YFSaved, YFPending, YFPlanned, YFinance!Kept, YFinance!OfSymbols
<1> QED BY <1>1, <1>3, <1>4, <1>5 DEF YFInvariant

\* Every step of the yfinance runner keeps the invariant.
LEMMA YFStep ==
  ASSUME YFInvariant, YFRows, YFinance!Next
  PROVE  YFInvariant' /\ YFRows'
<1>1. CASE YFinance!Requesting /\ \E covered \in SUBSET YFinance!Q.codes, last \in YFinance!Q.first..run.scope.end :
              YFinance!Fetch(covered, last)
  BY <1>1, YFFetch DEF YFinance!Q
<1>2. CASE run.pc = "save" /\ \E part \in SUBSET run.rows : YFinance!SaveFrame(part)
  BY <1>2, YFSave
<1>3. CASE \E begin, end \in YFinance!Days, limit \in {0, 1}, force, goOn \in BOOLEAN :
              YFinance!StartRun(begin, end, limit, force, goOn)
  BY <1>3, YFStart
<1> QED BY <1>1, <1>2, <1>3, YFOpening, YFEnds, YFResolve, YFUpdate, YFFails, YFWorld DEF YFinance!Next

\* The invariant holds initially.
LEMMA YFInit == ASSUME YFinance!Init PROVE YFInvariant /\ YFRows
<1>1. LastDay \in Nat \ {0}
  BY ProviderAssumption
<1>2. YFTyped
  <2>1. today \in 1..LastDay /\ closed \in BOOLEAN /\ kind \in YFinanceKinds
    <3>1. today = 1 /\ closed = FALSE /\ kind \in YFinanceKinds
      BY DEF YFinance!Init
    <3>2. today \in 1..LastDay
      BY <1>1, <3>1
    <3>3. closed \in BOOLEAN
      BY <3>1, Zenon
    <3> QED BY <3>1, <3>2, <3>3
  <2>2. table \in SUBSET (Symbols \X Nat) /\ master \in SUBSET Symbols
    BY DEF YFinance!Init
  <2>3. copy \in [there : BOOLEAN, rows : SUBSET (Symbols \X Nat)]
    BY DEF YFinance!Init, YFinance!NoCopy
  <2>4. cursor \in [Symbols -> Nat]
    BY DEF YFinance!Init
  <2>5. run = YFinance!Idle
    BY DEF YFinance!Init
  <2> QED BY <2>1, <2>2, <2>3, <2>4, <2>5 DEF YFTyped
<1> QED BY <1>2 DEF YFinance!Init, YFInvariant, YFAnswer, YFWindow, YFRows, YFNoHole, YFBefore, YFCopied, YFSaved,
                   YFPending, YFPlanned, YFinance!Idle, YFWorking, YFFetched

\* A step that changes nothing keeps it.
LEMMA YFStutter == ASSUME YFInvariant, YFRows, UNCHANGED YFinance!vars PROVE YFInvariant' /\ YFRows'
<1>1. UNCHANGED <<today, closed, kind, table, copy, cursor, master, run, leftOut, early>>
  BY DEF YFinance!vars
<1>2. YFinance!OfSymbols' = YFinance!OfSymbols
  BY <1>1 DEF YFinance!OfSymbols
<1>3. YFTyped'
  BY <1>1 DEF YFInvariant, YFTyped
<1>4. YFAnswer'
  BY <1>1 DEF YFInvariant, YFAnswer
<1>5. YFWindow'
  <2>1. YFinance!LatestCompleted' = YFinance!LatestCompleted
    BY <1>1 DEF YFinance!LatestCompleted
  <2> QED BY <1>1, <2>1 DEF YFInvariant, YFWindow
<1>6. YFNoHole' /\ YFBefore'
  BY <1>1 DEF YFRows, YFNoHole, YFBefore, YFWanted
<1>7. YFCopied'
  BY <1>1 DEF YFRows, YFCopied
<1>8. YFSaved'
  <2>1. YFinance!Kept(run.rows)' = YFinance!Kept(run.rows)
    BY <1>1 DEF YFinance!Kept
  <2> QED BY <1>1, <2>1 DEF YFRows, YFSaved
<1>9. YFPending'
  BY <1>1, <1>2 DEF YFRows, YFPending
<1>10. YFPlanned'
  BY <1>1 DEF YFRows, YFPlanned
<1> QED BY <1>1, <1>3, <1>4, <1>5, <1>6, <1>7, <1>8, <1>9, <1>10 DEF YFInvariant, YFRows

\* CursorLosesNothing follows from the invariant.
LEMMA YFCursor == ASSUME YFInvariant, YFRows PROVE YFinance!CursorLosesNothing
<1> SUFFICES ASSUME NEW x \in YFinance!Kept(Symbols \X YFinance!Days), x[2] <= cursor[x[1]]
             PROVE  x \in table \union leftOut
  BY DEF YFinance!CursorLosesNothing
<1>1. x \in Symbols \X (1..LastDay) /\ YFWanted(x[2])
  BY DEF YFinance!Kept, YFinance!Days, YFWanted
<1>2. x[1] \in Symbols /\ x[2] \in 1..LastDay /\ x = <<x[1], x[2]>>
  BY <1>1
<1>3. <<x[1], x[2]>> \in table \union leftOut
  BY <1>1, <1>2 DEF YFRows, YFNoHole
<1> QED BY <1>2, <1>3

\* SuccessMeansHistory follows from the invariant.
LEMMA YFHistory == ASSUME YFInvariant, YFRows PROVE YFinance!SuccessMeansHistory
<1> SUFFICES ASSUME YFinance!LogSuccess, YFinance!OfSymbols, NEW s \in run.codes
             PROVE  YFinance!LatestCursor(s) > 0 \/ run.before[s] > 0
  BY DEF YFinance!SuccessMeansHistory
<1>1. run.pc = "request" /\ run.todo = <<>> /\ run.unresolved = {}
  BY DEF YFinance!LogSuccess, YFinance!Worked, YFinance!Fails
<1>2. run \in YFRun
  BY <1>1, YFRunning DEF YFInvariant
<1>3. run.before[s] \in Nat /\ s \in Symbols
  BY <1>2 DEF YFRun
<1>4. cursor[s] \in Nat
  BY <1>3 DEF YFInvariant, YFTyped
<1>5. ~(run.before[s] = 0 /\ cursor[s] = 0)
  BY <1>1 DEF YFRows, YFPending, YFWorking
<1>6. cursor[s] > 0 => YFinance!LatestCursor(s) > 0
  BY <1>3, YFLatestCursor DEF YFInvariant
<1> QED BY <1>3, <1>4, <1>5, <1>6

--------------------------------------------------------------------------------
(* BaoStock. *)

\* A request, by the kind of its task, and what a process may have at hand.
BSItem(k) ==
    {q \in [code : Codes \union {"none"}, first : Int, last : Int] :
        IF k = "day" THEN q.first = q.last ELSE q.code \in Codes}
BSRun(k) ==
    [pc : {"next", "save", "cut", "log"}, todo : Seq(BSItem(k)), everlasting : SUBSET Int, force : BOOLEAN,
     goOn : BOOLEAN, rows : SUBSET (Codes \X Int), asked : Int, wanted : SUBSET (Codes \X Int)]

\* Types.
BSTyped ==
    /\ today \in 1..LastUnit
    /\ kind \in BaoStockKinds
    /\ stops \in BOOLEAN
    /\ run \in BSRun(kind) \union {BaoStock!Idle}

\* The codes and the newest unit of what the service answered.
BSCodes(k, q) == IF k = "day" THEN Codes ELSE {q.code}
BSNewest(k, day) == IF k = "period" THEN day - 1 ELSE day

\* A phase that handles a request has one.
BSBusy == run.pc \in {"save", "cut", "log"} => run.todo # <<>>

\* What is still to be asked of a range starts with the first unit.
BSFirst == {q \in BSItem("range") : q.first = 1}
BSFromStart ==
    run.pc # "idle" /\ kind = "range" => (IF run.pc = "next" THEN run.todo ELSE Tail(run.todo)) \in Seq(BSFirst)

\* An answer is whole up to some unit, which is not before the newest; that of a range begins
\* no later than behind the cursor.
BSAnswer ==
    run.pc = "save" =>
        /\ \E m \in Int :
              /\ BSNewest(kind, run.asked) <= m + 1
              /\ run.rows = BSCodes(kind, Head(run.todo))
                            \X {u \in Head(run.todo).first..Head(run.todo).last : u <= m}
        /\ kind = "range" => Head(run.todo).first <= BaoStock!LatestCursor(Head(run.todo).code) + 1

\* What is about to be logged is saved.
BSSaved ==
    run.pc = "log" =>
        \A u \in Head(run.todo).first..Head(run.todo).last :
              u < BSNewest(kind, run.asked) => BSCodes(kind, Head(run.todo)) \X {u} \subseteq table

\* Nothing at all, or everything, is saved of a day, except by an insertion that was cut short.
BSWholeDays ==
    kind = "day" /\ ~stops /\ run.pc # "cut" =>
        \A u \in Int : (\E c \in Codes : <<c, u>> \in table) => Codes \X {u} \subseteq table

\* What the BaoStock runner keeps to.
BSInvariant ==
    /\ BSTyped
    /\ BSBusy
    /\ BSFromStart
    /\ BSAnswer
    /\ BSSaved
    /\ BSWholeDays
    /\ BaoStock!LogTellsTruth
    /\ BaoStock!RangeHasNoHole

\* The cursor of a code is its newest row.
LEMMA BSLatest ==
  ASSUME NEW c
  PROVE  /\ BaoStock!LatestCursor(c) \in 0..LastUnit
         /\ BaoStock!LatestCursor(c) # 0 => <<c, BaoStock!LatestCursor(c)>> \in table
         /\ \A u \in 1..LastUnit : <<c, u>> \in table => u <= BaoStock!LatestCursor(c)
<1> DEFINE saved == {u \in BaoStock!Units : <<c, u>> \in table}
<1>1. saved \in SUBSET (1..LastUnit) /\ LastUnit \in Nat
  BY ProviderAssumption DEF BaoStock!Units
<1>2. BaoStock!LatestCursor(c) = LatestIn(saved)
  BY DEF BaoStock!LatestCursor, BaoStock!Latest, LatestIn
<1>3. \A u \in 1..LastUnit : <<c, u>> \in table => u \in saved
  BY DEF BaoStock!Units
<1>4. \A u \in saved : <<c, u>> \in table
  OBVIOUS
<1>5. saved = {} => LatestIn(saved) = 0
  BY DEF LatestIn
<1> HIDE DEF saved
<1>6. /\ LatestIn(saved) \in 0..LastUnit
      /\ saved # {} => LatestIn(saved) \in saved
      /\ \A u \in saved : u <= LatestIn(saved)
  BY <1>1, LatestValue
<1> QED BY <1>2, <1>3, <1>4, <1>5, <1>6

\* The types of what a process at work has at hand.
LEMMA BSRunning ==
  ASSUME BSTyped, run.pc # "idle"
  PROVE  /\ run \in BSRun(kind)
         /\ today \in Nat \ {0} /\ today <= LastUnit
<1>1. run # BaoStock!Idle
  BY DEF BaoStock!Idle
<1> QED BY <1>1, ProviderAssumption DEF BSTyped

\* The item at the head of a list, and those after it.
LEMMA BSHead ==
  ASSUME BSTyped, run.pc # "idle", run.todo # <<>>
  PROVE  Head(run.todo) \in BSItem(kind) /\ Tail(run.todo) \in Seq(BSItem(kind))
<1>1. run.todo \in Seq(BSItem(kind))
  BY BSRunning DEF BSRun
<1> QED BY <1>1, ListEnds

\* A set of codes in some order.
LEMMA BSSetToSeq ==
  ASSUME NEW S \in SUBSET Codes
  PROVE  BaoStock!SetToSeq(S) \in Seq(S)
<1>1. BaoStock!SetToSeq(S) = SetToSeq(S)
  BY DEF BaoStock!SetToSeq, SetToSeq, BaoStock!Cardinality, Cardinality
<1>2. IsFiniteSet(S)
  BY ProviderAssumption, FS_Subset
<1>3. SetToSeq(S) \in Seq(S)
  BY <1>2, SetToSeqLists
<1> QED BY <1>1, <1>3

\* A plan is a list of items; those of a range start with the first unit.
LEMMA BSPlan ==
  ASSUME BSTyped, NEW S \in SUBSET Codes, NEW end \in Int, NEW force \in BOOLEAN
  PROVE  /\ BaoStock!Plan(S, end, force) \in Seq(BSItem(kind))
         /\ kind = "range" => BaoStock!Plan(S, end, force) \in Seq(BSFirst)
<1> DEFINE order == BaoStock!SetToSeq(S)
<1>1. order \in Seq(S)
  BY BSSetToSeq
<1>2. CASE kind = "period"
  <2> DEFINE cursor_(c) == IF force THEN 0 ELSE BaoStock!LatestCursor(c)
             periods(i) == BaoStock!IncrementalPeriods(cursor_(order[i]))
             part(i) == [k \in DOMAIN periods(i) |-> BaoStock!Item(order[i], periods(i)[k], periods(i)[k])]
             parts == [i \in DOMAIN order |-> part(i)]
  <2>1. BaoStock!Plan(S, end, force) = BaoStock!FlattenSeq(parts)
    BY <1>2 DEF BaoStock!Plan, BaoStock!FinancialItems
  <2>2. ASSUME NEW i \in DOMAIN order PROVE part(i) \in Seq(BSItem(kind))
    <3>1. cursor_(order[i]) \in Int
      <4> HIDE DEF order
      <4>1. BaoStock!LatestCursor(order[i]) \in 0..LastUnit /\ LastUnit \in Nat
        BY BSLatest, ProviderAssumption
      <4> QED BY <4>1
    <3>2. PICK x \in Int : x = cursor_(order[i])
      BY <3>1
    <3> HIDE DEF cursor_
    <3>3. PICK n \in Nat : periods(i) = [k \in 1..n |-> x + k]
      <4>1. today - 1 - x \in Int
        BY DEF BSTyped
      <4>2. CASE today - 1 - x \in Nat
        BY <3>2, <4>2 DEF BaoStock!IncrementalPeriods, BaoStock!LatestCompletedQuarter
      <4>3. CASE today - 1 - x \notin Nat
        <5>1. 1..(today - 1 - x) = 1..0
          BY <4>1, <4>3
        <5>2. periods(i) = [k \in 1..0 |-> x + k]
          BY <3>2, <5>1 DEF BaoStock!IncrementalPeriods, BaoStock!LatestCompletedQuarter
        <5> QED BY <5>2
      <4> QED BY <4>2, <4>3
    <3> HIDE DEF periods
    <3>4. order[i] \in Codes
      BY <1>1
    <3> HIDE DEF order
    <3>5. \A k \in 1..n : periods(i)[k] \in Int
      BY <3>3
    <3>6. \A k \in 1..n : BaoStock!Item(order[i], periods(i)[k], periods(i)[k]) \in BSItem(kind)
      BY <1>2, <3>4, <3>5 DEF BaoStock!Item, BSItem
    <3>7. part(i) = [k \in 1..n |-> BaoStock!Item(order[i], periods(i)[k], periods(i)[k])]
      BY <3>3
    <3> HIDE DEF part
    <3>8. part(i) \in [1..n -> BSItem(kind)]
      BY <3>6, <3>7
    <3> QED BY <3>8
  <2>3. parts \in Seq(Seq(BSItem(kind)))
    <3> HIDE DEF part, order
    <3>1. PICK n \in Nat : DOMAIN order = 1..n
      BY <1>1
    <3>2. parts \in [1..n -> Seq(BSItem(kind))]
      BY <2>2, <3>1
    <3> HIDE DEF parts
    <3> QED BY <3>2
  <2> HIDE DEF parts
  <2>4. BaoStock!FlattenSeq(parts) = FlattenSeq(parts)
    BY DEF BaoStock!FlattenSeq, FlattenSeq
  <2> QED BY <1>2, <2>1, <2>3, <2>4, FlattenOrdered
<1>3. CASE kind = "range"
  <2> DEFINE items == [i \in DOMAIN order |-> BaoStock!Item(order[i], 1, end)]
  <2>1. BaoStock!Plan(S, end, force) = items
    BY <1>3 DEF BaoStock!Plan, BaoStock!CodeItems
  <2> HIDE DEF order
  <2>2. \A i \in DOMAIN order : BaoStock!Item(order[i], 1, end) \in BSFirst
    BY <1>1, <1>3 DEF BaoStock!Item, BSItem, BSFirst
  <2>3. PICK n \in Nat : DOMAIN order = 1..n
    BY <1>1
  <2>4. items \in [1..n -> BSFirst]
    BY <2>2, <2>3
  <2>5. BSFirst \subseteq BSItem(kind)
    BY <1>3 DEF BSFirst
  <2> HIDE DEF items
  <2>6. items \in Seq(BSFirst)
    BY <2>4
  <2>7. items \in [1..n -> BSItem(kind)]
    BY <2>4, <2>5
  <2> QED BY <2>1, <2>6, <2>7
<1>4. CASE kind = "day"
  <2>1. BaoStock!Item("none", end, end) \in BSItem(kind)
    BY <1>4 DEF BaoStock!Item, BSItem
  <2>2. PICK q \in BSItem(kind) : q = BaoStock!Item("none", end, end)
    BY <2>1
  <2>3. BaoStock!Plan(S, end, force) = <<q>>
    BY <1>4, <2>2 DEF BaoStock!Plan
  <2>4. <<q>> \in Seq(BSItem(kind))
    OBVIOUS
  <2> QED BY <1>4, <2>3, <2>4
<1> QED BY <1>2, <1>3, <1>4, ProviderAssumption DEF BSTyped

\* A step after which nothing is at hand.
LEMMA BSQuiet ==
  ASSUME BSInvariant, UNCHANGED <<today, kind, table, log>>, stops' \in BOOLEAN,
         stops => stops', stops' \/ run.pc # "cut",
         \/ run' = BaoStock!Idle
         \/ run' \in BSRun(kind) /\ run'.pc = "next" /\ (kind = "range" => run'.todo \in Seq(BSFirst))
  PROVE  BSInvariant'
<1>1. run'.pc \notin {"save", "cut", "log"}
  BY DEF BaoStock!Idle
<1>2. BSTyped'
  BY DEF BSInvariant, BSTyped
<1>3. BSAnswer' /\ BSSaved' /\ BSBusy' /\ BSFromStart'
  BY <1>1 DEF BSAnswer, BSSaved, BSBusy, BSFromStart, BaoStock!Idle
<1>4. BSWholeDays'
  BY <1>1 DEF BSInvariant, BSWholeDays
<1>5. BaoStock!LogTellsTruth'
  BY DEF BSInvariant, BaoStock!LogTellsTruth
<1>6. BaoStock!RangeHasNoHole'
  BY DEF BSInvariant, BaoStock!RangeHasNoHole, BaoStock!LatestCursor
<1> QED BY <1>2, <1>3, <1>4, <1>5, <1>6 DEF BSInvariant

\* What is left of a range starts with the first unit.
LEMMA BSRest ==
  ASSUME BSInvariant, run.pc # "idle", run.todo # <<>>, kind = "range"
  PROVE  /\ Tail(run.todo) \in Seq(BSFirst)
         /\ run.pc = "next" => Head(run.todo) \in BSFirst
<1>1. CASE run.pc = "next"
  <2>1. PICK q \in Seq(BSFirst) : q = run.todo
    BY <1>1 DEF BSInvariant, BSFromStart
  <2> QED BY <2>1
<1>2. CASE run.pc # "next"
  BY <1>2 DEF BSInvariant, BSFromStart
<1> QED BY <1>1, <1>2

\* StartRun keeps the invariant.
LEMMA BSStart ==
  ASSUME BSInvariant, NEW mode \in {"current", "historical", "missing"}, NEW resume \in BOOLEAN, NEW force \in BOOLEAN,
         NEW goOn \in BOOLEAN, NEW end \in BaoStock!Units, BaoStock!StartRun(mode, resume, force, goOn, end)
  PROVE  BSInvariant'
<1> DEFINE codes == BaoStock!ResolveCodes(mode)
           plan == BaoStock!Plan(codes, end, force)
<1>1. BSTyped
  BY DEF BSInvariant
<1>2. codes \in SUBSET Codes
  BY ProviderAssumption DEF BaoStock!ResolveCodes
<1> HIDE DEF codes
<1>3. plan \in Seq(BSItem(kind)) /\ (kind = "range" => plan \in Seq(BSFirst))
  BY <1>1, <1>2, BSPlan DEF BaoStock!Units
<1>4. BaoStock!Everlasting(resume) \in SUBSET Int
  BY DEF BaoStock!Everlasting, BaoStock!Units
<1>5. BaoStock!CaughtUp(codes) \in SUBSET (Codes \X Int)
  BY <1>2 DEF BaoStock!CaughtUp
<1>6. run' = [pc |-> "next", todo |-> plan, everlasting |-> BaoStock!Everlasting(resume), force |-> force,
              goOn |-> goOn, rows |-> {}, asked |-> 0, wanted |-> BaoStock!CaughtUp(codes)]
  BY DEF BaoStock!StartRun, codes
<1> HIDE DEF plan
<1>7. run' \in BSRun(kind) /\ run'.pc = "next" /\ run'.todo = plan
  BY <1>3, <1>4, <1>5, <1>6 DEF BSRun
<1>8. UNCHANGED <<today, kind, table, log, stops>> /\ run.pc # "cut"
  BY DEF BaoStock!StartRun
<1> QED BY <1>1, <1>3, <1>7, <1>8, BSQuiet DEF BSTyped

\* Passing over an item keeps the invariant.
LEMMA BSSkips ==
  ASSUME BSInvariant, BaoStock!SkipNoWindow \/ BaoStock!SkipExisting \/ BaoStock!SkipSuccessful
  PROVE  BSInvariant'
<1>1. /\ run.pc = "next" /\ run.todo # <<>>
      /\ run' = [run EXCEPT !.todo = Tail(run.todo)]
      /\ UNCHANGED <<today, kind, table, log, stops>>
  BY DEF BaoStock!SkipNoWindow, BaoStock!SkipExisting, BaoStock!SkipSuccessful, BaoStock!Skip, BaoStock!Turn
<1>2. run \in BSRun(kind) /\ Tail(run.todo) \in Seq(BSItem(kind)) /\ BSTyped
  BY <1>1, BSRunning, BSHead DEF BSInvariant
<1>3. run' \in BSRun(kind) /\ run'.pc = "next" /\ run'.todo = Tail(run.todo)
  BY <1>1, <1>2 DEF BSRun
<1>4. kind = "range" => Tail(run.todo) \in Seq(BSFirst)
  BY <1>1, BSRest DEF BSInvariant
<1> QED BY <1>1, <1>2, <1>3, <1>4, BSQuiet DEF BSTyped

\* The steps that end a run keep the invariant.
LEMMA BSEnds ==
  ASSUME BSInvariant, BaoStock!RequestFails \/ BaoStock!EndRun \/ BaoStock!Killed
  PROVE  BSInvariant'
<1>1. BSTyped /\ UNCHANGED <<today, kind, table, log>> /\ run.pc # "idle"
  BY DEF BSInvariant, BaoStock!RequestFails, BaoStock!EndRun, BaoStock!Killed, BaoStock!Due, BaoStock!Turn
<1>2. stops' \in BOOLEAN /\ (stops => stops') /\ (stops' \/ run.pc # "cut")
  BY <1>1 DEF BSTyped, BaoStock!RequestFails, BaoStock!EndRun, BaoStock!Killed, BaoStock!CutShort
<1>3. CASE run' = BaoStock!Idle
  BY <1>1, <1>2, <1>3, BSQuiet
<1>4. CASE run' # BaoStock!Idle
  <2>1. run' = [run EXCEPT !.pc = "next", !.todo = Tail(run.todo), !.rows = {}, !.wanted = {}]
    BY <1>4 DEF BaoStock!RequestFails, BaoStock!EndRun, BaoStock!Killed
  <2>2. run.todo # <<>>
    BY <1>4 DEF BSInvariant, BSBusy, BaoStock!RequestFails, BaoStock!EndRun, BaoStock!Killed, BaoStock!Due,
                BaoStock!Turn
  <2>3. run \in BSRun(kind) /\ Tail(run.todo) \in Seq(BSItem(kind))
    BY <1>1, <2>2, BSRunning, BSHead
  <2>4. run' \in BSRun(kind) /\ run'.pc = "next" /\ run'.todo = Tail(run.todo)
    BY <2>1, <2>3 DEF BSRun
  <2>5. kind = "range" => Tail(run.todo) \in Seq(BSFirst)
    BY <1>1, <2>2, BSRest DEF BSInvariant
  <2> QED BY <1>1, <1>2, <2>4, <2>5, BSQuiet
<1> QED BY <1>3, <1>4

\* Fetch keeps the invariant.
LEMMA BSFetch ==
  ASSUME BSInvariant, BaoStock!Turn, NEW answer \in BaoStock!Answers(BaoStock!Effective), BaoStock!Fetch(answer)
  PROVE  BSInvariant'
<1> DEFINE q == BaoStock!Effective
<1>1. BSTyped /\ run.pc = "next" /\ run.todo # <<>> /\ run.pc # "idle"
  BY DEF BaoStock!Turn, BSInvariant
<1>2. /\ run \in BSRun(kind) /\ Head(run.todo) \in BSItem(kind) /\ Tail(run.todo) \in Seq(BSItem(kind))
      /\ kind = "range" => Tail(run.todo) \in Seq(BSFirst) /\ Head(run.todo) \in BSFirst
  BY <1>1, BSRunning, BSHead, BSRest
<1>3. /\ q \in BSItem(kind)
      /\ kind = "range" => q.first <= BaoStock!LatestCursor(q.code) + 1
  <2> DEFINE h == Head(run.todo)
             first == BaoStock!LatestCursor(h.code) + 1
  <2>1. h \in BSItem(kind) /\ (kind = "range" => h.first = 1)
    BY <1>2 DEF BSFirst
  <2>2. first \in Nat \ {0}
    <3>1. BaoStock!LatestCursor(h.code) \in 0..LastUnit /\ LastUnit \in Nat
      BY BSLatest, ProviderAssumption
    <3> QED BY <3>1
  <2>3. q = IF kind # "range" \/ run.force THEN h ELSE [h EXCEPT !.first = IF first > h.first THEN first ELSE h.first]
    BY DEF BaoStock!Effective
  <2> HIDE DEF q, h
  <2>4. CASE kind # "range"
    BY <2>1, <2>3, <2>4
  <2>5. CASE kind = "range" /\ run.force
    <3>1. q = h
      BY <2>3, <2>5
    <3>2. h.first <= first
      BY <2>1, <2>2, <2>5
    <3> QED BY <2>1, <3>1, <3>2
  <2>6. CASE kind = "range" /\ ~run.force
    <3>1. (IF first > h.first THEN first ELSE h.first) = first
      BY <2>1, <2>2, <2>6
    <3>2. q = [h EXCEPT !.first = first]
      BY <2>3, <2>6, <3>1
    <3> HIDE DEF first
    <3>3. q \in BSItem(kind) /\ q.first = first /\ q.code = h.code
      BY <2>1, <2>2, <2>6, <3>2 DEF BSItem
    <3>4. q.first <= first
      BY <2>2, <3>3
    <3> QED BY <3>3, <3>4 DEF first
  <2> QED BY <2>4, <2>5, <2>6
<1>4. PICK m \in Int : /\ BSNewest(kind, today) <= m + 1
                       /\ answer = BSCodes(kind, q) \X {u \in q.first..q.last : u <= m}
  <2> DEFINE n == BSNewest(kind, today)
             codes == BSCodes(kind, q)
             asked == codes \X (q.first..q.last)
  <2>1. answer \in {{x \in asked : x[2] < n}, {x \in asked : x[2] < n} \union {x \in asked : x[2] = n}}
    BY DEF BaoStock!Answers, BaoStock!Newest, BSNewest, BSCodes
  <2>2. n \in Int
    BY <1>1 DEF BSNewest, BSTyped
  <2> HIDE DEF n, codes, q
  <2>3. CASE answer = {x \in asked : x[2] < n}
    <3>1. answer = codes \X {u \in q.first..q.last : u <= n - 1}
      BY <2>2, <2>3
    <3>2. n - 1 \in Int /\ n <= n - 1 + 1
      BY <2>2
    <3> QED BY <3>1, <3>2 DEF n, codes
  <2>4. CASE answer = {x \in asked : x[2] < n} \union {x \in asked : x[2] = n}
    <3>1. answer = codes \X {u \in q.first..q.last : u <= n}
      BY <2>2, <2>4
    <3>2. n <= n + 1
      BY <2>2
    <3> QED BY <2>2, <3>1, <3>2 DEF n, codes
  <2> QED BY <2>1, <2>3, <2>4
<1>5. run' = [run EXCEPT !.pc = "save", !.rows = answer, !.asked = today, !.todo = <<q>> \o Tail(run.todo)]
  BY DEF BaoStock!Fetch
<1>6. UNCHANGED <<today, kind, table, log, stops>>
  BY DEF BaoStock!Fetch
<1> HIDE DEF q
<1> DEFINE todo == <<q>> \o Tail(run.todo)
<1>7. todo \in Seq(BSItem(kind)) /\ todo # <<>> /\ Head(todo) = q /\ Tail(todo) = Tail(run.todo)
  <2> DEFINE t == Tail(run.todo)
  <2>1. t \in Seq(BSItem(kind))
    BY <1>2
  <2> HIDE DEF t
  <2>2. <<q>> \o t \in Seq(BSItem(kind))
    BY <1>3, <2>1
  <2>3. Len(<<q>> \o t) = Len(t) + 1
    BY <2>1
  <2>4. <<q>> \o t # <<>> /\ Head(<<q>> \o t) = q
    BY <2>1, <2>3
  <2>5. Tail(<<q>> \o t) = t
    BY <2>1, <2>3
  <2> QED BY <2>2, <2>4, <2>5 DEF t
<1> HIDE DEF todo
<1>8. answer \in SUBSET (Codes \X Int)
  <2>1. BSCodes(kind, q) \subseteq Codes
    BY <1>3 DEF BSCodes, BSItem
  <2> QED BY <1>4, <2>1
<1>9. /\ run' \in BSRun(kind) /\ run'.pc = "save" /\ run'.rows = answer /\ run'.asked = today /\ run'.todo = todo
  <2>1. run' = [run EXCEPT !.pc = "save", !.rows = answer, !.asked = today, !.todo = todo]
    BY <1>5 DEF todo
  <2>2. today \in Int
    BY <1>1 DEF BSTyped
  <2> QED BY <1>2, <1>7, <1>8, <2>1, <2>2 DEF BSRun
<1>10. BSTyped'
  BY <1>6, <1>9 DEF BSInvariant, BSTyped
<1>11. BSBusy' /\ BSSaved'
  BY <1>7, <1>9 DEF BSBusy, BSSaved
<1>12. BSFromStart'
  BY <1>2, <1>6, <1>7, <1>9 DEF BSFromStart
<1>13. BSAnswer'
  <2>1. Head(run'.todo) = q
    BY <1>7, <1>9
  <2>2. kind' = "range" =>
           Head(run'.todo).first <= (BaoStock!LatestCursor(Head(run.todo).code) + 1)'
    BY <1>3, <1>6, <2>1 DEF BaoStock!LatestCursor
  <2>3. BSNewest(kind', run'.asked) <= m + 1
    BY <1>4, <1>6, <1>9
  <2>4. run'.rows = BSCodes(kind', Head(run'.todo)) \X {u \in Head(run'.todo).first..Head(run'.todo).last : u <= m}
    BY <1>4, <1>6, <1>9, <2>1
  <2> QED BY <2>2, <2>3, <2>4 DEF BSAnswer
<1>14. BSWholeDays'
  BY <1>1, <1>6, <1>9 DEF BSInvariant, BSWholeDays
<1>15. BaoStock!LogTellsTruth'
  BY <1>6 DEF BSInvariant, BaoStock!LogTellsTruth
<1>16. BaoStock!RangeHasNoHole'
  BY <1>6 DEF BSInvariant, BaoStock!RangeHasNoHole, BaoStock!LatestCursor
<1> QED BY <1>10, <1>11, <1>12, <1>13, <1>14, <1>15, <1>16 DEF BSInvariant

\* An insertion, whole or cut, keeps the invariant.
LEMMA BSSave ==
  ASSUME BSInvariant, run.pc = "save", NEW part \in SUBSET run.rows, BaoStock!SaveRows(part)
  PROVE  BSInvariant'
<1> DEFINE q == Head(run.todo)
           codes == BSCodes(kind, q)
<1>1. BSTyped /\ run.pc # "idle" /\ run.todo # <<>>
  BY DEF BSInvariant, BSBusy
<1>2. run \in BSRun(kind) /\ q \in BSItem(kind)
  BY <1>1, BSRunning, BSHead
<1>3. PICK m \in Int : /\ BSNewest(kind, run.asked) <= m + 1
                       /\ run.rows = codes \X {u \in q.first..q.last : u <= m}
  BY DEF BSInvariant, BSAnswer
<1>4. /\ \A x \in part, y \in run.rows \ part : x[2] <= y[2]
      /\ table' = table \union part
      /\ run' = [run EXCEPT !.rows = run.rows \ part, !.pc = IF part = run.rows THEN "log" ELSE "cut"]
      /\ UNCHANGED <<today, kind, log, stops>>
  BY DEF BaoStock!SaveRows
<1>5. /\ run' \in BSRun(kind) /\ run'.pc = (IF part = run.rows THEN "log" ELSE "cut")
      /\ run'.todo = run.todo /\ run'.asked = run.asked
  BY <1>2, <1>4 DEF BSRun
<1>6. BSTyped'
  BY <1>1, <1>4, <1>5 DEF BSTyped
<1>7. BSBusy' /\ BSFromStart' /\ BSAnswer'
  BY <1>1, <1>4, <1>5 DEF BSInvariant, BSBusy, BSFromStart, BSAnswer
<1>8. q.first \in Int /\ q.last \in Int /\ run.asked \in Int
  BY <1>2 DEF BSItem, BSRun
<1>9. BSSaved'
  <2> SUFFICES ASSUME part = run.rows, NEW u \in q.first..q.last, u < BSNewest(kind, run.asked),
                      NEW c \in codes
               PROVE  <<c, u>> \in table'
    BY <1>4, <1>5 DEF BSSaved
  <2>1. u <= m
    BY <1>3, <1>8 DEF BSNewest
  <2> HIDE DEF codes, q
  <2> QED BY <1>3, <1>4, <2>1
<1>10. BSWholeDays'
  <2> SUFFICES ASSUME kind = "day", ~stops, part = run.rows, NEW u \in Int, NEW d \in Codes, <<d, u>> \in table',
                      NEW c \in Codes
               PROVE  <<c, u>> \in table'
    BY <1>4, <1>5 DEF BSWholeDays
  <2>1. CASE <<d, u>> \in table
    BY <1>4, <2>1 DEF BSInvariant, BSWholeDays
  <2>2. CASE <<d, u>> \notin table
    <3>1. codes = Codes
      BY DEF BSCodes
    <3> HIDE DEF codes, q
    <3> QED BY <1>3, <1>4, <2>2, <3>1
  <2> QED BY <2>1, <2>2
<1>11. BaoStock!LogTellsTruth'
  BY <1>4 DEF BSInvariant, BaoStock!LogTellsTruth
<1>12. BaoStock!RangeHasNoHole'
  <2> SUFFICES ASSUME kind = "range", NEW c \in Codes, NEW u \in 1..LastUnit,
                      u < BaoStock!LatestCursor(c)', <<c, u>> \notin table
               PROVE  <<c, u>> \in table'
    BY <1>4 DEF BaoStock!RangeHasNoHole, BaoStock!Units
  <2> DEFINE old == BaoStock!LatestCursor(c)
             saved == {d \in BaoStock!Units : <<c, d>> \in table'}
             e == BaoStock!Latest(saved)
  <2>1. e \in 1..LastUnit /\ <<c, e>> \in table' /\ u < e
    <3>1. BaoStock!LatestCursor(c)' = e
      BY DEF BaoStock!LatestCursor
    <3>2. saved \in SUBSET (1..LastUnit) /\ LastUnit \in Nat
      BY ProviderAssumption DEF BaoStock!Units
    <3>3. \A d \in saved : <<c, d>> \in table'
      OBVIOUS
    <3> HIDE DEF saved
    <3>4. e = LatestIn(saved)
      BY DEF BaoStock!Latest, LatestIn
    <3>5. saved = {} => LatestIn(saved) = 0
      BY DEF LatestIn
    <3>6. LatestIn(saved) \in 0..LastUnit /\ (saved # {} => LatestIn(saved) \in saved)
      BY <3>2, LatestValue
    <3> HIDE DEF e
    <3> QED BY <3>1, <3>2, <3>3, <3>4, <3>5, <3>6
  <2>2. old \in 0..LastUnit /\ LastUnit \in Nat /\ ~(u < old) /\ u # old
    <3>1. old \in 0..LastUnit /\ LastUnit \in Nat
      BY BSLatest, ProviderAssumption
    <3>2. ~(u < old)
      BY DEF BSInvariant, BaoStock!RangeHasNoHole, BaoStock!Units
    <3>3. old # 0 => <<c, old>> \in table
      BY BSLatest
    <3>4. u # old
      <4> HIDE DEF old
      <4> QED BY <3>1, <3>3
    <3> QED BY <3>1, <3>2, <3>4
  <2>3. <<c, e>> \in part
    <3>1. <<c, e>> \in table => e <= old
      <4> HIDE DEF e
      <4> QED BY <2>1, BSLatest
    <3> HIDE DEF e, old
    <3>2. ~(e <= old)
      BY <2>1, <2>2
    <3> QED BY <1>4, <2>1, <3>1, <3>2
  <2> HIDE DEF e
  <2>4. c \in codes /\ e \in q.first..q.last /\ e <= m
    <3> HIDE DEF codes, q
    <3> QED BY <1>3, <2>3
  <2>5. c = q.code
    BY <2>4 DEF BSCodes
  <2>6. q.first <= old + 1
    BY <2>5 DEF BSInvariant, BSAnswer
  <2> HIDE DEF old
  <2>7. u \in q.first..q.last /\ u <= m
    BY <1>8, <2>1, <2>2, <2>4, <2>6
  <2>8. <<c, u>> \in run.rows
    <3> HIDE DEF codes, q
    <3> QED BY <1>3, <2>4, <2>7
  <2>9. <<c, u>> \in part
    <3> SUFFICES ASSUME <<c, u>> \in run.rows \ part PROVE FALSE
      BY <2>8
    <3>1. e <= u
      BY <1>4, <2>3
    <3> QED BY <2>1, <3>1
  <2> QED BY <1>4, <2>9
<1> QED BY <1>6, <1>7, <1>9, <1>10, <1>11, <1>12 DEF BSInvariant

\* LogSuccess keeps the invariant: what it logs is saved.
LEMMA BSLog == ASSUME BSInvariant, BaoStock!LogSuccess PROVE BSInvariant'
<1> DEFINE q == Head(run.todo)
<1>1. BSTyped /\ run.pc = "log" /\ run.pc # "idle" /\ run.todo # <<>>
  BY DEF BSInvariant, BSBusy, BaoStock!LogSuccess
<1>2. run \in BSRun(kind) /\ q \in BSItem(kind) /\ Tail(run.todo) \in Seq(BSItem(kind))
  BY <1>1, BSRunning, BSHead
<1>3. /\ log' = log \union {[scope |-> q, on |-> today, asked |-> run.asked]}
      /\ run' = [run EXCEPT !.pc = "next", !.todo = Tail(run.todo)]
      /\ UNCHANGED <<today, kind, table, stops>>
  BY DEF BaoStock!LogSuccess
<1>4. run' \in BSRun(kind) /\ run'.pc = "next" /\ run'.todo = Tail(run.todo)
  BY <1>2, <1>3 DEF BSRun
<1>5. BSTyped'
  BY <1>1, <1>3, <1>4 DEF BSTyped
<1>6. BSBusy' /\ BSAnswer' /\ BSSaved'
  BY <1>4 DEF BSBusy, BSAnswer, BSSaved
<1>7. BSFromStart'
  BY <1>1, <1>3, <1>4, BSRest DEF BSFromStart
<1>8. BSWholeDays'
  BY <1>1, <1>3 DEF BSInvariant, BSWholeDays
<1>9. BaoStock!RangeHasNoHole'
  BY <1>3 DEF BSInvariant, BaoStock!RangeHasNoHole, BaoStock!LatestCursor
<1>10. BaoStock!LogTellsTruth'
  <2>1. \A u \in q.first..q.last : u < BSNewest(kind, run.asked) => BSCodes(kind, q) \X {u} \subseteq table
    BY <1>1 DEF BSInvariant, BSSaved
  <2>2. q.first \in Int /\ q.last \in Int
    BY <1>2 DEF BSItem
  <2>3. \A u \in BaoStock!Units : u \in Int
    BY DEF BaoStock!Units
  <2> HIDE DEF q
  <2>4. \A u \in BaoStock!Units : q.first <= u /\ u <= q.last /\ u < BSNewest(kind, run.asked) =>
                                  BSCodes(kind, q) \X {u} \subseteq table
    BY <2>1, <2>2, <2>3
  <2>5. ASSUME NEW e \in log', NEW u \in BaoStock!Units, e.scope.first <= u, u <= e.scope.last,
               u < BSNewest(kind, e.asked)
        PROVE  BSCodes(kind, e.scope) \X {u} \subseteq table
    <3>1. CASE e \in log
      BY <2>5, <3>1 DEF BSInvariant, BaoStock!LogTellsTruth, BSNewest, BSCodes
    <3>2. CASE e \notin log
      <4>1. e.scope = q /\ e.asked = run.asked
        BY <1>3, <3>2
      <4> QED BY <2>4, <2>5, <4>1
    <3> QED BY <3>1, <3>2
  <2> QED BY <1>3, <2>5 DEF BaoStock!LogTellsTruth, BSNewest, BSCodes
<1> QED BY <1>5, <1>6, <1>7, <1>8, <1>9, <1>10 DEF BSInvariant

\* Tick keeps the invariant.
LEMMA BSTick == ASSUME BSInvariant, BaoStock!Tick PROVE BSInvariant'
<1>1. UNCHANGED <<kind, table, log, run, stops>>
  BY DEF BaoStock!Tick
<1>2. today' \in 1..LastUnit
  <2>1. today \in 1..LastUnit /\ LastUnit \in Nat
    BY ProviderAssumption DEF BSInvariant, BSTyped
  <2> QED BY <2>1 DEF BaoStock!Tick
<1>3. BSTyped'
  BY <1>1, <1>2 DEF BSInvariant, BSTyped
<1> QED BY <1>1, <1>3 DEF BSInvariant, BSBusy, BSFromStart, BSAnswer, BSSaved, BSWholeDays, BaoStock!LogTellsTruth,
                       BaoStock!RangeHasNoHole, BaoStock!LatestCursor

\* Every step of the BaoStock runner keeps the invariant.
LEMMA BSStep == ASSUME BSInvariant, BaoStock!Next PROVE BSInvariant'
<1>1. CASE \E mode \in {"current", "historical", "missing"}, resume, force, goOn \in BOOLEAN, end \in BaoStock!Units :
              BaoStock!StartRun(mode, resume, force, goOn, end)
  BY <1>1, BSStart
<1>2. CASE BaoStock!Turn /\ \E answer \in BaoStock!Answers(BaoStock!Effective) : BaoStock!Fetch(answer)
  BY <1>2, BSFetch
<1>3. CASE run.pc = "save" /\ \E part \in SUBSET run.rows : BaoStock!SaveRows(part)
  BY <1>3, BSSave
<1> QED BY <1>1, <1>2, <1>3, BSSkips, BSEnds, BSLog, BSTick DEF BaoStock!Next

\* The invariant holds initially.
LEMMA BSInit == ASSUME BaoStock!Init PROVE BSInvariant
<1>1. table = {} /\ log = {} /\ run = BaoStock!Idle /\ kind \in BaoStockKinds /\ today = 1 /\ stops = FALSE
  BY DEF BaoStock!Init
<1>2. LastUnit \in Nat \ {0}
  BY ProviderAssumption
<1>3. today \in 1..LastUnit
  BY <1>1, <1>2
<1>4. BSTyped
  <2>1. stops \in BOOLEAN
    BY <1>1, Zenon
  <2> QED BY <1>1, <1>3, <2>1 DEF BSTyped
<1>5. run.pc = "idle"
  BY <1>1 DEF BaoStock!Idle
<1>6. BSBusy /\ BSFromStart /\ BSAnswer /\ BSSaved
  BY <1>5 DEF BSBusy, BSFromStart, BSAnswer, BSSaved
<1>7. BSWholeDays /\ BaoStock!LogTellsTruth
  BY <1>1 DEF BSWholeDays, BaoStock!LogTellsTruth
<1>8. BaoStock!RangeHasNoHole
  <2>1. \A c \in Codes : BaoStock!LatestCursor(c) = 0
    BY <1>1 DEF BaoStock!LatestCursor, BaoStock!Latest
  <2> QED BY <2>1 DEF BaoStock!RangeHasNoHole, BaoStock!Units
<1> QED BY <1>4, <1>6, <1>7, <1>8 DEF BSInvariant

\* DaySkippedIsWhole follows from the invariant.
LEMMA BSSkipped == ASSUME BSInvariant PROVE BaoStock!DaySkippedIsWhole
<1> SUFFICES ASSUME BaoStock!SkipExisting, kind = "day", ~stops
             PROVE  Codes \X {Head(run.todo).last} \subseteq table
  BY DEF BaoStock!DaySkippedIsWhole
<1>1. run.pc = "next" /\ run.todo # <<>>
  BY DEF BaoStock!SkipExisting, BaoStock!Turn
<1>2. Head(run.todo) \in BSItem(kind)
  BY <1>1, BSHead DEF BSInvariant
<1>3. \E c \in Codes : <<c, Head(run.todo).last>> \in table
  BY DEF BaoStock!SkipExisting, BaoStock!AlreadyThere, BaoStock!HasTaskData, BaoStock!Effective
<1> QED BY <1>1, <1>2, <1>3 DEF BSInvariant, BSWholeDays, BSItem

\* A step that changes nothing keeps it.
LEMMA BSStutter ==
  ASSUME BSInvariant, UNCHANGED <<today, kind, table, log, run, stops>> PROVE BSInvariant'
<1>1. BSTyped' /\ BSBusy' /\ BSFromStart'
  BY DEF BSInvariant, BSTyped, BSBusy, BSFromStart
<1>2. BSAnswer'
  BY DEF BSInvariant, BSAnswer, BaoStock!LatestCursor, BaoStock!Latest, BaoStock!Units
<1>3. BSSaved' /\ BSWholeDays'
  BY DEF BSInvariant, BSSaved, BSWholeDays
<1>4. BaoStock!LogTellsTruth'
  BY DEF BSInvariant, BaoStock!LogTellsTruth, BaoStock!Units
<1>5. BaoStock!RangeHasNoHole'
  BY DEF BSInvariant, BaoStock!RangeHasNoHole, BaoStock!LatestCursor, BaoStock!Latest, BaoStock!Units
<1> QED BY <1>1, <1>2, <1>3, <1>4, <1>5 DEF BSInvariant

--------------------------------------------------------------------------------
(* QMT. *)

\* A window of an item, and what a process may have at hand.
QMScope == [item : task.items, first : Int, last : Int]
QMRun ==
    [pc : {"tables", "dropped", "recreated", "next", "save", "log"}, todo : Seq(task.items), force : BOOLEAN,
     goOn : BOOLEAN, end : 1..LastDay, rows : SUBSET (task.items \X Int), scope : QMScope \union {<<>>},
     asked : Int]

\* Types.
QMTyped ==
    /\ today \in 1..LastDay
    /\ task \in [kind : QmtKinds, items : ItemSets]
    /\ hidden \in BOOLEAN
    /\ run \in QMRun \union {Qmt!Idle}

\* No window ends in the future, and a phase that handles a request has one.
QMWindow == run.pc # "idle" => run.end <= today
QMBusy == run.pc \in {"save", "log"} => run.todo # <<>> /\ run.scope \in QMScope

\* What is left of an answer is of the days after some one, before which it is saved, up to another.
QMLeft(rows, q, n, m) ==
    rows = {q.item} \X {d \in q.first..q.last : n < d /\ d <= m}
QMAnswer ==
    run.pc = "save" =>
        /\ \E m, n \in Int : /\ run.asked <= m + 1
                             /\ QMLeft(run.rows, run.scope, n, m)
                             /\ \A d \in run.scope.first..run.scope.last :
                                   d <= n /\ d <= m => <<run.scope.item, d>> \in table
        /\ task.kind = "calendar" => run.scope.first <= Qmt!LatestCursor + 1

\* What is about to be logged is saved.
QMSaved ==
    run.pc = "log" =>
        \A d \in run.scope.first..run.scope.last : d < run.asked => <<run.scope.item, d>> \in table

\* The log is right but for the time between the drop of the table and its own clearing.
QMTruth ==
    ~hidden /\ run.pc \notin {"dropped", "recreated"} =>
        \A e \in log, d \in Qmt!Days :
            e.scope.first <= d /\ d <= e.scope.last /\ d < e.asked => <<e.scope.item, d>> \in table

\* What the QMT runner keeps to.
QMInvariant ==
    QMTyped /\ QMWindow /\ QMBusy /\ QMAnswer /\ QMSaved /\ QMTruth /\ Qmt!CalendarHasNoHole

\* The cursor is the newest row.
LEMMA QMLatest ==
  /\ Qmt!LatestCursor \in 0..LastDay /\ LastDay \in Nat
  /\ Qmt!LatestCursor # 0 => \E i \in task.items : <<i, Qmt!LatestCursor>> \in table
  /\ \A d \in 1..LastDay, i \in task.items : <<i, d>> \in table => d <= Qmt!LatestCursor
<1> DEFINE saved == {d \in Qmt!Days : \E i \in task.items : <<i, d>> \in table}
<1>1. saved \in SUBSET (1..LastDay) /\ LastDay \in Nat
  BY ProviderAssumption DEF Qmt!Days
<1>2. Qmt!LatestCursor = LatestIn(saved)
  BY DEF Qmt!LatestCursor, Qmt!Latest, LatestIn
<1>3. \A d \in 1..LastDay, i \in task.items : <<i, d>> \in table => d \in saved
  BY DEF Qmt!Days
<1>4. \A d \in saved : \E i \in task.items : <<i, d>> \in table
  OBVIOUS
<1>5. saved = {} => LatestIn(saved) = 0
  BY DEF LatestIn
<1> HIDE DEF saved
<1>6. /\ LatestIn(saved) \in 0..LastDay
      /\ saved # {} => LatestIn(saved) \in saved
      /\ \A u \in saved : u <= LatestIn(saved)
  BY <1>1, LatestValue
<1> QED BY <1>1, <1>2, <1>3, <1>4, <1>5, <1>6

\* The types of what a process at work has at hand.
LEMMA QMRunning ==
  ASSUME QMTyped, run.pc # "idle"
  PROVE  run \in QMRun /\ run.todo \in Seq(task.items)
<1>1. run # Qmt!Idle
  BY DEF Qmt!Idle
<1>2. run \in QMRun
  BY <1>1 DEF QMTyped
<1> QED BY <1>2 DEF QMRun

\* The item at the head of a list, and those after it.
LEMMA QMHead ==
  ASSUME QMTyped, run.pc # "idle", run.todo # <<>>
  PROVE  Head(run.todo) \in task.items /\ Tail(run.todo) \in Seq(task.items)
<1>1. run.todo \in Seq(task.items)
  BY QMRunning
<1> QED BY <1>1, ListEnds

\* The list of the items of a task.
LEMMA QMExpand == ASSUME QMTyped PROVE Qmt!Expand \in Seq(task.items)
<1>1. Qmt!Expand = SetToSeq(task.items)
  BY DEF Qmt!Expand, Qmt!SetToSeq, SetToSeq, Qmt!Cardinality, Cardinality
<1>2. IsFiniteSet(task.items)
  BY ProviderAssumption DEF QMTyped
<1>3. SetToSeq(task.items) \in Seq(task.items)
  BY <1>2, SetToSeqLists
<1> QED BY <1>1, <1>3

\* A step after which nothing is at hand: it may not leave a log that speaks of a table that is
\* gone.
LEMMA QMQuiet ==
  ASSUME QMInvariant, UNCHANGED <<today, task, table>>, log' \in {log, {}}, hidden' \in BOOLEAN, hidden => hidden',
         run.pc \in {"dropped", "recreated"} =>
             \/ hidden'
             \/ log' = {}
             \/ run' # Qmt!Idle /\ run'.pc = "recreated",
         \/ run' = Qmt!Idle
         \/ run' \in QMRun /\ run'.pc \in {"tables", "recreated", "next"} /\ run'.end <= today
  PROVE  QMInvariant'
<1>1. run'.pc \in {"idle", "tables", "recreated", "next"}
  BY DEF Qmt!Idle
<1>2. QMTyped'
  BY DEF QMInvariant, QMTyped, QMRun, QMScope
<1>3. QMWindow' /\ QMBusy' /\ QMAnswer' /\ QMSaved'
  BY <1>1 DEF QMWindow, QMBusy, QMAnswer, QMSaved, Qmt!Idle
<1>4. QMTruth'
  BY <1>1 DEF QMInvariant, QMTruth
<1>5. Qmt!CalendarHasNoHole'
  BY DEF QMInvariant, Qmt!CalendarHasNoHole, Qmt!LatestCursor, Qmt!Days
<1> QED BY <1>2, <1>3, <1>4, <1>5 DEF QMInvariant

\* Open keeps the invariant.
LEMMA QMOpen ==
  ASSUME QMInvariant, NEW force \in BOOLEAN, NEW goOn \in BOOLEAN, NEW end \in Qmt!Days, Qmt!Open(force, goOn, end)
  PROVE  QMInvariant'
<1> DEFINE todo == Qmt!Expand
<1>1. todo \in Seq(task.items)
  BY QMExpand DEF QMInvariant
<1>2. run' = [pc |-> "tables", todo |-> todo, force |-> force, goOn |-> goOn, end |-> end,
              rows |-> {}, scope |-> <<>>, asked |-> 0]
  BY DEF Qmt!Open
<1> HIDE DEF todo
<1>3. run' \in QMRun /\ run'.pc = "tables" /\ run'.end = end
  BY <1>1, <1>2 DEF QMRun, Qmt!Days
<1> QED BY <1>3, QMQuiet DEF Qmt!Open, QMInvariant, QMTyped

\* The creation of tables and the clearing of logs keep the invariant.
LEMMA QMTables ==
  ASSUME QMInvariant, Qmt!RecreateStateTable \/ Qmt!CreateTables \/ Qmt!RecreateTable \/ Qmt!TruncateLogs
  PROVE  QMInvariant'
<1>1. run.pc # "idle" /\ QMTyped /\ UNCHANGED <<today, task, table, hidden>> /\ log' \in {log, {}}
  BY DEF Qmt!RecreateStateTable, Qmt!CreateTables, Qmt!RecreateTable, Qmt!TruncateLogs, QMInvariant
<1>2. run \in QMRun /\ run.end <= today
  BY <1>1, QMRunning DEF QMInvariant, QMWindow
<1>3. run' \in QMRun /\ run'.pc \in {"tables", "recreated", "next"} /\ run'.end = run.end
  <2>1. CASE Qmt!RecreateStateTable
    BY <1>2, <2>1 DEF Qmt!RecreateStateTable
  <2>2. CASE Qmt!CreateTables
    <3>1. run' = [run EXCEPT !.pc = "next"]
      BY <2>2 DEF Qmt!CreateTables
    <3> QED BY <1>2, <3>1 DEF QMRun
  <2>3. CASE Qmt!RecreateTable
    <3>1. run' = [run EXCEPT !.pc = "recreated"]
      BY <2>3 DEF Qmt!RecreateTable
    <3> QED BY <1>2, <3>1 DEF QMRun
  <2>4. CASE Qmt!TruncateLogs
    <3>1. run' = [run EXCEPT !.pc = "next"]
      BY <2>4 DEF Qmt!TruncateLogs
    <3> QED BY <1>2, <3>1 DEF QMRun
  <2> QED BY <2>1, <2>2, <2>3, <2>4
<1>4. run.pc \in {"dropped", "recreated"} => log' = {} \/ (run' # Qmt!Idle /\ run'.pc = "recreated")
  BY <1>2 DEF Qmt!RecreateStateTable, Qmt!CreateTables, Qmt!RecreateTable, Qmt!TruncateLogs, Qmt!Idle, QMRun
<1> QED BY <1>1, <1>2, <1>3, <1>4, QMQuiet DEF QMTyped

\* DropOutdated keeps the invariant.
LEMMA QMDrop == ASSUME QMInvariant, Qmt!DropOutdated PROVE QMInvariant'
<1>1. QMTyped /\ run.pc # "idle" /\ table' = {} /\ UNCHANGED <<today, task, log, hidden>>
  BY DEF Qmt!DropOutdated, QMInvariant
<1>2. run \in QMRun /\ run.end <= today
  BY <1>1, QMRunning DEF QMInvariant, QMWindow
<1>3. run' = [run EXCEPT !.pc = "dropped"]
  BY DEF Qmt!DropOutdated
<1>4. run' \in QMRun /\ run'.pc = "dropped" /\ run'.end = run.end
  BY <1>2, <1>3 DEF QMRun
<1>5. QMTyped'
  BY <1>1, <1>4 DEF QMTyped, QMRun, QMScope
<1>6. QMWindow' /\ QMBusy' /\ QMAnswer' /\ QMSaved' /\ QMTruth'
  BY <1>1, <1>2, <1>4 DEF QMWindow, QMBusy, QMAnswer, QMSaved, QMTruth
<1>7. Qmt!CalendarHasNoHole'
  <2>1. Qmt!LatestCursor' = 0
    BY <1>1 DEF Qmt!LatestCursor, Qmt!Latest
  <2> QED BY <2>1 DEF Qmt!CalendarHasNoHole, Qmt!Days
<1> QED BY <1>5, <1>6, <1>7 DEF QMInvariant

\* Passing over an item and ending a run keep the invariant.
LEMMA QMPasses ==
  ASSUME QMInvariant, Qmt!Skip \/ Qmt!RequestFails \/ Qmt!EndRun \/ Qmt!Killed
  PROVE  QMInvariant'
<1>1. QMTyped /\ run.pc # "idle" /\ UNCHANGED <<today, task, table, log>>
  BY DEF Qmt!Skip, Qmt!RequestFails, Qmt!EndRun, Qmt!Killed, Qmt!Due, Qmt!Turn, QMInvariant
<1>2. run \in QMRun /\ run.end <= today
  BY <1>1, QMRunning DEF QMInvariant, QMWindow
<1>3. hidden' \in BOOLEAN /\ (hidden => hidden')
  BY <1>1 DEF QMTyped, Qmt!Skip, Qmt!RequestFails, Qmt!EndRun, Qmt!Killed
<1>4. run.pc \in {"dropped", "recreated"} => hidden'
  BY DEF Qmt!Skip, Qmt!RequestFails, Qmt!EndRun, Qmt!Killed, Qmt!Due, Qmt!Turn
<1>5. CASE run' = Qmt!Idle
  BY <1>1, <1>3, <1>4, <1>5, QMQuiet
<1>6. CASE run' # Qmt!Idle
  <2>1. run.todo # <<>>
    BY <1>6 DEF QMInvariant, QMBusy, Qmt!Skip, Qmt!RequestFails, Qmt!EndRun, Qmt!Killed, Qmt!Due, Qmt!Turn
  <2>2. Tail(run.todo) \in Seq(task.items)
    BY <1>1, <2>1, QMHead
  <2>3. run' \in QMRun /\ run'.pc = "next" /\ run'.end = run.end
    <3>1. CASE Qmt!Skip
      <4>1. run' = [run EXCEPT !.todo = Tail(run.todo)] /\ run.pc = "next"
        BY <3>1 DEF Qmt!Skip, Qmt!Turn
      <4> QED BY <1>2, <2>2, <4>1 DEF QMRun
    <3>2. CASE ~Qmt!Skip
      <4>1. run' = [run EXCEPT !.pc = "next", !.todo = Tail(run.todo), !.rows = {}]
        BY <1>6, <3>2 DEF Qmt!RequestFails, Qmt!EndRun, Qmt!Killed
      <4> QED BY <1>2, <2>2, <4>1 DEF QMRun
    <3> QED BY <3>1, <3>2
  <2> QED BY <1>1, <1>2, <1>3, <1>4, <2>3, QMQuiet
<1> QED BY <1>5, <1>6

\* Fetch keeps the invariant.
LEMMA QMFetch ==
  ASSUME QMInvariant, Qmt!Turn, NEW answer \in Qmt!Answers(Qmt!Effective), Qmt!Fetch(answer)
  PROVE  QMInvariant'
<1> DEFINE q == Qmt!Effective
<1>1. QMTyped /\ run.pc = "next" /\ run.todo # <<>> /\ run.pc # "idle" /\ today \in Int
  BY DEF Qmt!Turn, QMInvariant, QMTyped
<1>2. run \in QMRun /\ run.end \in 1..LastDay /\ run.end <= today /\ Head(run.todo) \in task.items
  BY <1>1, QMRunning, QMHead DEF QMInvariant, QMWindow, QMRun
<1>3. q \in QMScope /\ q.last = run.end /\ q.first <= q.last /\ (task.kind = "calendar" => q.first <= Qmt!LatestCursor + 1)
  <2>1. Qmt!LatestCursor \in Nat
    BY QMLatest
  <2>2. q = [item |-> Head(run.todo),
             first |-> IF task.kind = "calendar" /\ ~run.force THEN Qmt!LatestCursor + 1 ELSE 1,
             last |-> run.end]
    BY DEF Qmt!Effective
  <2>3. ~(q.first > q.last)
    BY DEF Qmt!Fetch, Qmt!Due, Qmt!NoWindow
  <2> HIDE DEF q
  <2>4. q \in QMScope /\ q.last = run.end /\ q.first \in Int /\ (task.kind = "calendar" => q.first <= Qmt!LatestCursor + 1)
    BY <1>2, <2>1, <2>2 DEF QMScope
  <2>5. q.first <= q.last
    BY <1>2, <2>3, <2>4
  <2> QED BY <2>4, <2>5
<1> HIDE DEF q
<1>4. q.first \in Int /\ q.last \in Int /\ q.item \in task.items /\ q.last <= today
  BY <1>2, <1>3 DEF QMScope
<1>5. PICK m \in Int : /\ today <= m + 1
                       /\ answer = {q.item} \X {d \in q.first..q.last : d <= m}
  <2>1. PICK late \in {{}, {q.item} \X {d \in {today} : d <= q.last}} :
           answer = ({q.item} \X {d \in q.first..q.last : d < today}) \union late
    BY DEF Qmt!Answers, q
  <2>2. CASE late = {}
    <3>1. {d \in q.first..q.last : d < today} = {d \in q.first..q.last : d <= today - 1}
      BY <1>1, <1>4
    <3>2. today - 1 \in Int /\ today <= today - 1 + 1
      BY <1>1
    <3> QED BY <2>1, <2>2, <3>1, <3>2
  <2>3. CASE late # {}
    <3>1. late = {q.item} \X {d \in {today} : d <= q.last}
      BY <2>3
    <3>2. {d \in q.first..q.last : d < today} \union {d \in {today} : d <= q.last} = {d \in q.first..q.last : d <= today}
      BY <1>1, <1>3, <1>4
    <3>3. answer = {q.item} \X ({d \in q.first..q.last : d < today} \union {d \in {today} : d <= q.last})
      BY <2>1, <3>1
    <3>4. today <= today + 1
      BY <1>1
    <3> QED BY <1>1, <3>2, <3>3, <3>4
  <2> QED BY <2>2, <2>3
<1>6. UNCHANGED <<today, task, table, log, hidden>>
  BY DEF Qmt!Fetch
<1>7. run' = [run EXCEPT !.pc = "save", !.rows = answer, !.scope = q, !.asked = today]
  BY DEF Qmt!Fetch, q
<1>8. answer \in SUBSET (task.items \X Int)
  BY <1>4, <1>5
<1>9. /\ run' \in QMRun /\ run'.pc = "save" /\ run'.end = run.end /\ run'.todo = run.todo /\ run'.scope = q
      /\ run'.rows = answer /\ run'.asked = today
  BY <1>1, <1>2, <1>3, <1>7, <1>8 DEF QMRun
<1>10. QMTyped'
  BY <1>1, <1>6, <1>9 DEF QMTyped, QMRun, QMScope
<1>11. QMWindow' /\ QMBusy' /\ QMSaved'
  BY <1>1, <1>2, <1>3, <1>6, <1>9 DEF QMWindow, QMBusy, QMSaved, QMScope
<1>12. QMAnswer'
  <2>1. (Qmt!LatestCursor + 1)' = Qmt!LatestCursor + 1
    BY <1>6 DEF Qmt!LatestCursor, Qmt!Days
  <2>2. task'.kind = "calendar" => run'.scope.first <= (Qmt!LatestCursor + 1)'
    BY <1>3, <1>6, <1>9, <2>1
  <2>3. PICK n \in Int : n = q.first - 1
    BY <1>4
  <2>4. QMLeft(answer, q, n, m)
    <3>1. {d \in q.first..q.last : d <= m} = {d \in q.first..q.last : n < d /\ d <= m}
      BY <1>4, <2>3
    <3> QED BY <1>5, <3>1 DEF QMLeft
  <2>5. \A d \in q.first..q.last : ~(d <= n)
    BY <1>4, <2>3
  <2> QED BY <1>5, <1>9, <2>2, <2>4, <2>5 DEF QMAnswer, QMLeft
<1>13. QMTruth'
  BY <1>1, <1>6 DEF QMInvariant, QMTruth, Qmt!Days
<1>14. Qmt!CalendarHasNoHole'
  BY <1>6 DEF QMInvariant, Qmt!CalendarHasNoHole, Qmt!LatestCursor, Qmt!Days
<1> QED BY <1>10, <1>11, <1>12, <1>13, <1>14 DEF QMInvariant

\* SaveRows keeps the invariant.
LEMMA QMSave == ASSUME QMInvariant, NEW upto \in Qmt!Days, Qmt!SaveRows(upto) PROVE QMInvariant'
<1> DEFINE q == run.scope
<1>1. QMTyped /\ run.pc = "save" /\ run.pc # "idle" /\ q \in QMScope /\ run.todo # <<>>
  BY DEF Qmt!SaveRows, QMInvariant, QMBusy
<1>2. run \in QMRun /\ run.end <= today /\ upto \in Int
  BY <1>1, QMRunning DEF QMInvariant, QMWindow, Qmt!Days
<1>3. PICK m, n \in Int : /\ run.asked <= m + 1 /\ QMLeft(run.rows, q, n, m)
                          /\ \A d \in q.first..q.last : d <= n /\ d <= m => <<q.item, d>> \in table
  BY <1>1 DEF QMInvariant, QMAnswer
<1>4. PICK batch : batch = {x \in run.rows : x[2] <= upto}
  OBVIOUS
<1>5. PICK rest : rest = run.rows \ batch
  OBVIOUS
<1>6. PICK pc \in {"save", "log"} : pc = IF rest = {} THEN "log" ELSE "save"
  OBVIOUS
<1>7. /\ table' = table \union batch
      /\ run' = [run EXCEPT !.pc = pc, !.rows = rest]
      /\ UNCHANGED <<today, task, log, hidden>>
  BY <1>4, <1>5, <1>6 DEF Qmt!SaveRows
<1>8. rest \in SUBSET (task.items \X Int)
  BY <1>2, <1>5 DEF QMRun
<1>9. /\ run' \in QMRun /\ run'.pc = pc /\ run'.end = run.end /\ run'.todo = run.todo /\ run'.scope = q
      /\ run'.asked = run.asked /\ run'.rows = rest
  BY <1>2, <1>7, <1>8 DEF QMRun
<1>10. QMTyped'
  BY <1>1, <1>7, <1>9 DEF QMTyped, QMRun, QMScope
<1>12. QMWindow' /\ QMBusy'
  BY <1>1, <1>2, <1>6, <1>7, <1>9 DEF QMWindow, QMBusy, QMScope
<1>13. q.first \in Int /\ q.last \in Int /\ run.asked \in Int
  BY <1>1, <1>2 DEF QMScope, QMRun
<1>14. task.kind = "calendar" => q.first <= Qmt!LatestCursor + 1
  BY <1>1 DEF QMInvariant, QMAnswer
<1>15. Qmt!LatestCursor \in Int /\ Qmt!LatestCursor' \in Int /\ Qmt!LatestCursor <= Qmt!LatestCursor'
  <2> DEFINE saved == {d \in Qmt!Days : \E i \in task.items : <<i, d>> \in table}
             more == {d \in Qmt!Days : \E i \in task.items : <<i, d>> \in table'}
  <2>1. saved \subseteq more /\ more \in SUBSET (1..LastDay) /\ LastDay \in Nat
    BY <1>7, ProviderAssumption DEF Qmt!Days
  <2>2. Qmt!LatestCursor = LatestIn(saved) /\ Qmt!LatestCursor' = LatestIn(more)
    BY <1>7 DEF Qmt!LatestCursor, Qmt!Latest, LatestIn
  <2>3. saved = {} => LatestIn(saved) = 0
    BY DEF LatestIn
  <2> HIDE DEF saved, more
  <2>4. /\ LatestIn(saved) \in 0..LastDay /\ (saved # {} => LatestIn(saved) \in saved)
        /\ LatestIn(more) \in 0..LastDay /\ \A d \in more : d <= LatestIn(more)
    BY <2>1, LatestValue
  <2>5. LatestIn(saved) <= LatestIn(more)
    BY <2>1, <2>3, <2>4
  <2> QED BY <2>1, <2>2, <2>4, <2>5
<1> HIDE DEF q
<1>16. ASSUME NEW d \in q.first..q.last, n < d, d <= m, d <= upto PROVE <<q.item, d>> \in batch
  BY <1>3, <1>4, <1>16 DEF QMLeft
<1>17. ASSUME NEW d \in q.first..q.last, d <= n \/ d <= upto, d <= m PROVE <<q.item, d>> \in table'
  <2>1. d <= n \/ n < d
    BY <1>13
  <2> QED BY <1>3, <1>7, <1>16, <1>17, <2>1
<1>18. QMAnswer'
  <2>1. PICK k \in Int : k = IF n <= upto THEN upto ELSE n
    BY <1>2
  <2>2. QMLeft(rest, q, k, m)
    <3>1. ASSUME NEW x PROVE x \in rest <=> x \in {q.item} \X {d \in q.first..q.last : k < d /\ d <= m}
      <4>1. x \in rest <=> x \in {q.item} \X {d \in q.first..q.last : n < d /\ d <= m} /\ ~(x[2] <= upto)
        BY <1>3, <1>4, <1>5 DEF QMLeft
      <4> QED BY <1>2, <1>13, <2>1, <4>1
    <3> QED BY <3>1 DEF QMLeft
  <2>3. \A d \in q.first..q.last : d <= k /\ d <= m => <<q.item, d>> \in table'
    <3> SUFFICES ASSUME NEW d \in q.first..q.last, d <= k, d <= m PROVE <<q.item, d>> \in table'
      OBVIOUS
    <3>1. d <= n \/ d <= upto
      BY <1>13, <2>1
    <3> QED BY <1>17, <3>1
  <2>4. task'.kind = "calendar" => q.first <= (Qmt!LatestCursor + 1)'
    <3> SUFFICES ASSUME task.kind = "calendar" PROVE q.first <= (Qmt!LatestCursor + 1)'
      BY <1>7
    <3>1. PICK old \in Int : old = Qmt!LatestCursor
      BY <1>15
    <3>2. PICK new \in Int : new = Qmt!LatestCursor'
      BY <1>15
    <3>3. q.first <= new + 1
      BY <1>13, <1>14, <1>15, <3>1, <3>2
    <3> QED BY <3>2, <3>3
  <2> QED BY <1>3, <1>9, <2>2, <2>3, <2>4 DEF QMAnswer, QMLeft
<1>19. QMSaved'
  <2> SUFFICES ASSUME rest = {}, NEW d \in q.first..q.last, d < run.asked PROVE <<q.item, d>> \in table'
    BY <1>6, <1>9 DEF QMSaved
  <2>1. d <= m /\ (d <= n \/ n < d)
    BY <1>3, <1>13
  <2>2. n < d => <<q.item, d>> \in run.rows
    BY <1>3, <2>1 DEF QMLeft
  <2>3. n < d => <<q.item, d>> \in batch
    BY <1>5, <2>2
  <2> QED BY <1>3, <1>7, <2>1, <2>3
<1>20. QMTruth'
  BY <1>1, <1>6, <1>7, <1>9 DEF QMInvariant, QMTruth, Qmt!Days
<1>21. Qmt!CalendarHasNoHole'
  <2> SUFFICES ASSUME task.kind = "calendar", Qmt!Cardinality(task.items) = 1, NEW i \in task.items,
                      NEW d \in 1..LastDay, d < Qmt!LatestCursor', <<i, d>> \notin table
               PROVE  <<i, d>> \in table'
    BY <1>7 DEF Qmt!CalendarHasNoHole, Qmt!Days
  <2> DEFINE old == Qmt!LatestCursor
             e == Qmt!LatestCursor'
  <2>1. task.items = {i}
    <3>1. Cardinality(task.items) = 1
      BY DEF Qmt!Cardinality, Cardinality
    <3>2. IsFiniteSet(task.items)
      BY <1>1, ProviderAssumption DEF QMTyped
    <3> QED BY <3>1, <3>2, FS_Singleton
  <2>2. e \in 1..LastDay /\ <<i, e>> \in table' /\ d < e
    <3> DEFINE saved == {x \in Qmt!Days : \E j \in task.items : <<j, x>> \in table'}
    <3>1. saved \in SUBSET (1..LastDay) /\ LastDay \in Nat
      BY ProviderAssumption DEF Qmt!Days
    <3>2. e = LatestIn(saved)
      BY <1>7 DEF Qmt!LatestCursor, Qmt!Latest, LatestIn
    <3>3. \A x \in saved : <<i, x>> \in table'
      BY <2>1
    <3>4. saved = {} => LatestIn(saved) = 0
      BY DEF LatestIn
    <3> HIDE DEF saved
    <3>5. LatestIn(saved) \in 0..LastDay /\ (saved # {} => LatestIn(saved) \in saved)
      BY <3>1, LatestValue
    <3>6. d < e
      OBVIOUS
    <3> HIDE DEF e
    <3> QED BY <3>1, <3>2, <3>3, <3>4, <3>5, <3>6
  <2>3. old \in 0..LastDay /\ LastDay \in Nat /\ ~(d < old) /\ d # old
    <3>1. old \in 0..LastDay /\ LastDay \in Nat /\ (old # 0 => \E j \in task.items : <<j, old>> \in table)
      BY QMLatest
    <3>2. ~(d < old)
      BY DEF QMInvariant, Qmt!CalendarHasNoHole, Qmt!Days
    <3> HIDE DEF old
    <3>3. d # old
      BY <2>1, <3>1
    <3> QED BY <3>1, <3>2, <3>3
  <2>4. <<i, e>> \in table => e <= old
    <3> HIDE DEF e
    <3> QED BY <2>2, QMLatest
  <2> HIDE DEF e
  <2>5. <<i, e>> \in batch
    <3> HIDE DEF old
    <3>1. ~(e <= old)
      BY <2>2, <2>3
    <3> QED BY <1>7, <2>2, <2>4, <3>1
  <2>6. i = q.item /\ e \in q.first..q.last /\ e <= m /\ e <= upto
    BY <1>3, <1>4, <2>5 DEF QMLeft
  <2>7. q.first <= old + 1
    BY <1>14
  <2> HIDE DEF old
  <2>8. d \in q.first..q.last /\ d <= m /\ d <= upto
    BY <1>2, <1>13, <2>2, <2>3, <2>6, <2>7
  <2> QED BY <1>17, <2>6, <2>8
<1> QED BY <1>10, <1>12, <1>18, <1>19, <1>20, <1>21 DEF QMInvariant

\* LogSuccess keeps the invariant: what it logs is saved.
LEMMA QMLog == ASSUME QMInvariant, Qmt!LogSuccess PROVE QMInvariant'
<1> DEFINE q == run.scope
<1>1. QMTyped /\ run.pc = "log" /\ run.pc # "idle" /\ q \in QMScope /\ run.todo # <<>>
  BY DEF Qmt!LogSuccess, QMInvariant, QMBusy
<1>2. run \in QMRun /\ run.end <= today /\ Tail(run.todo) \in Seq(task.items)
  BY <1>1, QMRunning, QMHead DEF QMInvariant, QMWindow
<1>3. /\ log' = log \union {[scope |-> q, on |-> today, asked |-> run.asked]}
      /\ run' = [run EXCEPT !.pc = "next", !.todo = Tail(run.todo)]
      /\ UNCHANGED <<today, task, table, hidden>>
  BY DEF Qmt!LogSuccess
<1>4. run' \in QMRun /\ run'.pc = "next" /\ run'.end = run.end
  BY <1>2, <1>3 DEF QMRun
<1>5. QMTyped'
  BY <1>1, <1>3, <1>4 DEF QMTyped, QMRun, QMScope
<1>6. QMWindow' /\ QMBusy' /\ QMAnswer' /\ QMSaved'
  BY <1>2, <1>3, <1>4 DEF QMWindow, QMBusy, QMAnswer, QMSaved
<1>7. Qmt!CalendarHasNoHole'
  BY <1>3 DEF QMInvariant, Qmt!CalendarHasNoHole, Qmt!LatestCursor, Qmt!Days
<1>8. QMTruth'
  <2> SUFFICES ASSUME ~hidden, NEW e \in log', NEW d \in 1..LastDay, e.scope.first <= d, d <= e.scope.last, d < e.asked
               PROVE  <<e.scope.item, d>> \in table
    BY <1>3, <1>4 DEF QMTruth, Qmt!Days
  <2>1. CASE e \in log
    BY <1>1, <2>1 DEF QMInvariant, QMTruth, Qmt!Days
  <2>2. CASE e \notin log
    <3>1. e.scope = q /\ e.asked = run.asked
      BY <1>3, <2>2
    <3>2. d \in q.first..q.last
      BY <1>1, <3>1 DEF QMScope
    <3> QED BY <1>1, <3>1, <3>2 DEF QMInvariant, QMSaved
  <2> QED BY <2>1, <2>2
<1> QED BY <1>5, <1>6, <1>7, <1>8 DEF QMInvariant

\* Time and upgrades keep the invariant.
LEMMA QMWorld == ASSUME QMInvariant, Qmt!Upgrade \/ Qmt!Tick PROVE QMInvariant'
<1>1. UNCHANGED <<task, table, log, run, hidden>>
  BY DEF Qmt!Upgrade, Qmt!Tick
<1>2. today' \in 1..LastDay /\ today <= today'
  <2>1. today \in 1..LastDay /\ LastDay \in Nat
    BY ProviderAssumption DEF QMInvariant, QMTyped
  <2> QED BY <2>1 DEF Qmt!Upgrade, Qmt!Tick
<1>3. QMTyped'
  BY <1>1, <1>2 DEF QMInvariant, QMTyped, QMRun, QMScope
<1>4. QMWindow'
  <2> SUFFICES ASSUME run.pc # "idle" PROVE run.end <= today'
    BY <1>1 DEF QMWindow
  <2>1. run.end \in 1..LastDay /\ run.end <= today /\ today \in 1..LastDay
    BY QMRunning DEF QMInvariant, QMWindow, QMTyped, QMRun
  <2> QED BY <1>2, <2>1
<1> QED BY <1>1, <1>3, <1>4 DEF QMInvariant, QMBusy, QMAnswer, QMSaved, QMTruth, QMScope, Qmt!CalendarHasNoHole,
                       Qmt!LatestCursor, Qmt!Days

\* Every step of the QMT runner keeps the invariant.
LEMMA QMStep == ASSUME QMInvariant, Qmt!Next PROVE QMInvariant'
<1>1. CASE \E force, goOn \in BOOLEAN, end \in Qmt!Days : Qmt!Open(force, goOn, end)
  BY <1>1, QMOpen
<1>2. CASE Qmt!Turn /\ \E answer \in Qmt!Answers(Qmt!Effective) : Qmt!Fetch(answer)
  BY <1>2, QMFetch
<1> QED BY <1>1, <1>2, QMTables, QMDrop, QMPasses, QMSave, QMLog, QMWorld DEF Qmt!Next

\* The invariant holds initially.
LEMMA QMInit == ASSUME Qmt!Init PROVE QMInvariant
<1>1. /\ table = {} /\ log = {} /\ run = Qmt!Idle /\ task \in [kind : QmtKinds, items : ItemSets] /\ today = 1
      /\ hidden = FALSE
  BY DEF Qmt!Init
<1>2. LastDay \in Nat \ {0}
  BY ProviderAssumption
<1>3. today \in 1..LastDay
  BY <1>1, <1>2
<1>4. QMTyped
  <2>1. hidden \in BOOLEAN
    BY <1>1, Zenon
  <2> QED BY <1>1, <1>3, <2>1 DEF QMTyped
<1>5. run.pc = "idle"
  BY <1>1 DEF Qmt!Idle
<1>6. QMWindow /\ QMBusy /\ QMAnswer /\ QMSaved
  BY <1>5 DEF QMWindow, QMBusy, QMAnswer, QMSaved
<1>7. QMTruth
  BY <1>1 DEF QMTruth
<1>8. Qmt!CalendarHasNoHole
  <2>1. Qmt!LatestCursor = 0
    BY <1>1 DEF Qmt!LatestCursor, Qmt!Latest
  <2> QED BY <2>1 DEF Qmt!CalendarHasNoHole, Qmt!Days
<1> QED BY <1>4, <1>6, <1>7, <1>8 DEF QMInvariant

\* LogTellsTruth follows from the invariant.
LEMMA QMTold == ASSUME QMInvariant PROVE Qmt!LogTellsTruth
BY DEF QMInvariant, QMTruth, Qmt!LogTellsTruth

\* A step that changes nothing keeps it.
LEMMA QMStutter ==
  ASSUME QMInvariant, UNCHANGED <<today, task, table, log, run, hidden>> PROVE QMInvariant'
<1>1. QMTyped' /\ QMWindow' /\ QMBusy'
  BY DEF QMInvariant, QMTyped, QMScope, QMRun, QMWindow, QMBusy
<1>2. QMAnswer'
  BY DEF QMInvariant, QMAnswer, Qmt!LatestCursor, Qmt!Latest, Qmt!Days
<1>3. QMSaved' /\ QMTruth'
  BY DEF QMInvariant, QMSaved, QMTruth, Qmt!Days
<1>4. Qmt!CalendarHasNoHole'
  BY DEF QMInvariant, Qmt!CalendarHasNoHole, Qmt!LatestCursor, Qmt!Days
<1> QED BY <1>1, <1>2, <1>3, <1>4 DEF QMInvariant

--------------------------------------------------------------------------------
(* AKShare. *)

\* What a process may have at hand.
AKRun ==
    [pc : {"tables", "copy", "cut copy", "exchange", "exchanged", "check", "item", "save", "cut", "cursor", "log"},
     scope : [task : {"task", "directory"}, begin : 1..LastDay, end : 1..LastDay, limit : {0, 1}],
     force : BOOLEAN, goOn : BOOLEAN, day : 1..LastDay, items : Seq(Symbols), todo : Seq(Symbols),
     rows : SUBSET (Symbols \X Nat), passes : Int, succeeded : Int, failures : SUBSET Symbols, consecutive : Int]

\* Types.
AKTyped ==
    /\ today \in 1..LastDay
    /\ kind \in AKShareKinds
    /\ table \in SUBSET (Symbols \X Nat)
    /\ copy \in [there : BOOLEAN, rows : SUBSET (Symbols \X Nat)]
    /\ cursor \in [Symbols -> Nat]
    /\ directory.items \in SUBSET Symbols
    /\ run \in AKRun \union {AKShare!Idle}

\* An answer is at hand.
AKAsking == {"save", "cut", "cursor"}
AKWorking == AKAsking \union {"item", "log"}

\* A run works on a window that had come when it began, once for each of its items.
AKWindow ==
    run.pc # "idle" =>
        /\ run.scope.begin <= run.scope.end
        /\ run.day <= today
        /\ run.pc \in AKAsking => run.todo # <<>>
        /\ run.pc = "log" => run.todo = <<>>
        /\ run.pc \notin AKWorking => run.items = <<>> /\ run.todo = <<>>
        /\ AKShare!HasCursor => run.passes = 1

\* An answer has the days of the window up to some one, the days before the run began at least.
AKAnswer ==
    run.pc \in AKAsking =>
        IF AKShare!HasCursor
        THEN \E m \in Int :
               /\ run.rows = {Head(run.todo)} \X {d \in AKShare!EffectiveStart(Head(run.todo))..run.scope.end : d <= m}
               /\ run.day <= m + 1 \/ run.scope.end <= m
        ELSE run.rows = {}

\* An answer is saved before the cursor moves.
AKSaved == run.pc = "cursor" => run.rows \subseteq table
AKCopied == run.pc = "exchange" => copy.rows = table

\* The window of an item is saved, or was passed over before.
AKDone(i) ==
    \A d \in run.scope.begin..run.scope.end : d < run.day => <<i, d>> \in table \union leftOut

\* Every item of a pass has failed, is still to come or is done.
AKProgress ==
    run.pc \in AKWorking /\ AKShare!HasCursor =>
        \A k \in DOMAIN run.items :
            \/ run.items[k] \in run.failures
            \/ \E j \in DOMAIN run.todo : run.todo[j] = run.items[k]
            \/ AKDone(run.items[k])

\* What the AKShare runner keeps to.
AKInvariant ==
    /\ AKTyped
    /\ AKWindow
    /\ AKAnswer
    /\ AKSaved
    /\ AKCopied
    /\ AKProgress
    /\ AKShare!CursorLosesNothing

\* The calendar, the task, the cursors and what was passed over stay.
AKFrame == UNCHANGED <<today, kind, cursor, leftOut>>

\* The types of what a process at work has at hand.
LEMMA AKRunning ==
  ASSUME AKTyped, run.pc # "idle"
  PROVE  /\ run \in AKRun
         /\ run.scope.begin \in 1..LastDay /\ run.scope.end \in 1..LastDay /\ run.day \in 1..LastDay
         /\ run.todo \in Seq(Symbols) /\ run.items \in Seq(Symbols)
         /\ LastDay \in Nat
<1>1. run # AKShare!Idle
  BY DEF AKShare!Idle
<1>2. run \in AKRun
  BY <1>1 DEF AKTyped
<1> QED BY <1>2, ProviderAssumption DEF AKRun

\* A step after which no item is worked on.
LEMMA AKQuiet ==
  ASSUME AKInvariant, AKFrame,
         table' \in SUBSET table, table \in SUBSET table',
         directory'.items \in SUBSET Symbols,
         copy' \in [there : BOOLEAN, rows : SUBSET (Symbols \X Nat)],
         \/ run' = AKShare!Idle
         \/ /\ run' \in AKRun /\ run'.pc \notin AKWorking
            /\ run'.scope.begin <= run'.scope.end /\ run'.day <= today
            /\ run'.items = <<>> /\ run'.todo = <<>>
            /\ AKShare!HasCursor => run'.passes = 1
            /\ run'.pc = "exchange" => copy'.rows = table'
  PROVE  AKInvariant'
<1>1. table' = table
  OBVIOUS
<1>2. run'.pc \notin AKWorking /\ run'.pc \notin AKAsking /\ run'.pc # "cursor" /\ run'.pc # "log"
  BY DEF AKShare!Idle, AKWorking, AKAsking
<1>3. AKTyped'
  BY <1>1 DEF AKInvariant, AKTyped, AKFrame
<1>4. AKWindow'
  BY <1>2 DEF AKWindow, AKShare!Idle, AKFrame, AKShare!HasCursor
<1>5. AKAnswer' /\ AKSaved' /\ AKProgress'
  BY <1>2 DEF AKAnswer, AKSaved, AKProgress
<1>6. AKCopied'
  BY DEF AKCopied, AKShare!Idle
<1>7. AKShare!CursorLosesNothing'
  BY <1>1 DEF AKInvariant, AKShare!CursorLosesNothing, AKFrame, AKShare!Days
<1> QED BY <1>3, <1>4, <1>5, <1>6, <1>7 DEF AKInvariant

\* StartRun keeps the invariant.
LEMMA AKStart ==
  ASSUME AKInvariant, NEW task_ \in {"task", "directory"}, NEW begin \in AKShare!Days, NEW end \in AKShare!Days,
         NEW limit \in {0, 1}, NEW force \in BOOLEAN, NEW goOn \in BOOLEAN,
         AKShare!StartRun(task_, begin, end, limit, force, goOn)
  PROVE  AKInvariant'
<1>1. begin \in 1..LastDay /\ end \in 1..LastDay /\ today \in 1..LastDay /\ LastDay \in Nat
  BY ProviderAssumption DEF AKShare!Days, AKInvariant, AKTyped
<1>2. run' = [pc |-> "tables", scope |-> [task |-> task_, begin |-> begin, end |-> end, limit |-> limit],
              force |-> force, goOn |-> goOn, day |-> today, items |-> <<>>, todo |-> <<>>, rows |-> {},
              passes |-> AKShare!Passes, succeeded |-> 0, failures |-> {}, consecutive |-> 0]
  BY DEF AKShare!StartRun
<1>3. AKShare!Passes \in Int /\ (AKShare!HasCursor => AKShare!Passes = 1)
  BY DEF AKShare!Passes
<1>4. run' \in AKRun
  BY <1>1, <1>2, <1>3 DEF AKRun
<1>5. run'.pc \notin AKWorking /\ run'.pc # "exchange"
  BY <1>2 DEF AKWorking, AKAsking
<1>6. /\ run'.scope.begin <= run'.scope.end /\ run'.day <= today /\ run'.items = <<>> /\ run'.todo = <<>>
      /\ AKShare!HasCursor => run'.passes = 1
  BY <1>1, <1>2, <1>3 DEF AKShare!StartRun
<1> QED BY <1>4, <1>5, <1>6, AKQuiet DEF AKShare!StartRun, AKFrame, AKInvariant, AKTyped

\* The rewriting of an old table keeps the invariant.
LEMMA AKOpening ==
  ASSUME AKInvariant,
         \/ AKShare!MigrateNothing \/ AKShare!CreateCopy \/ \E part \in SUBSET table : AKShare!CopyRows(part)
         \/ AKShare!ExchangeTables \/ AKShare!DropCopy
  PROVE  AKInvariant'
<1>1. run.pc \in {"tables", "copy", "exchange", "exchanged"}
  BY DEF AKShare!MigrateNothing, AKShare!CreateCopy, AKShare!CopyRows, AKShare!ExchangeTables, AKShare!DropCopy
<1>2. run \in AKRun /\ run.pc # "idle" /\ run.pc \notin AKWorking
  BY <1>1, AKRunning DEF AKInvariant, AKWorking, AKAsking
<1>3. /\ run.scope.begin <= run.scope.end /\ run.day <= today /\ run.items = <<>> /\ run.todo = <<>>
      /\ AKShare!HasCursor => run.passes = 1
  BY <1>2 DEF AKInvariant, AKWindow
<1>4. /\ copy \in [there : BOOLEAN, rows : SUBSET (Symbols \X Nat)] /\ table \in SUBSET (Symbols \X Nat)
      /\ directory.items \in SUBSET Symbols
  BY DEF AKInvariant, AKTyped
<1>5. PICK pc \in {"check", "copy", "exchange", "cut copy", "exchanged"} : run' = [run EXCEPT !.pc = pc]
  BY DEF AKShare!MigrateNothing, AKShare!CreateCopy, AKShare!CopyRows, AKShare!ExchangeTables, AKShare!DropCopy
<1>6. /\ run' \in AKRun /\ run'.pc = pc /\ run'.scope = run.scope /\ run'.day = run.day /\ run'.items = run.items
      /\ run'.todo = run.todo /\ run'.passes = run.passes /\ run'.pc \notin AKWorking
  BY <1>2, <1>5 DEF AKRun, AKWorking, AKAsking
<1>7. AKFrame /\ directory' = directory
  BY DEF AKShare!MigrateNothing, AKShare!CreateCopy, AKShare!CopyRows, AKShare!ExchangeTables, AKShare!DropCopy, AKFrame
<1>8. table' = table
  BY DEF AKShare!MigrateNothing, AKShare!CreateCopy, AKShare!CopyRows, AKShare!ExchangeTables, AKShare!DropCopy,
         AKInvariant, AKCopied
<1>9. copy' \in [there : BOOLEAN, rows : SUBSET (Symbols \X Nat)]
  <2>1. CASE \E part \in SUBSET table : AKShare!CopyRows(part)
    <3>1. PICK part \in SUBSET table : AKShare!CopyRows(part)
      BY <2>1
    <3> QED BY <1>4, <3>1 DEF AKShare!CopyRows
  <2>2. CASE ~\E part \in SUBSET table : AKShare!CopyRows(part)
    <3>1. CASE AKShare!MigrateNothing
      BY <1>4, <3>1 DEF AKShare!MigrateNothing
    <3>2. CASE AKShare!CreateCopy
      BY <3>2 DEF AKShare!CreateCopy
    <3>3. CASE AKShare!ExchangeTables
      <4>1. copy' = [copy EXCEPT !.rows = table]
        BY <3>3 DEF AKShare!ExchangeTables
      <4> QED BY <1>4, <4>1
    <3>4. CASE AKShare!DropCopy
      BY <3>4 DEF AKShare!DropCopy, AKShare!NoCopy
    <3> QED BY <2>2, <3>1, <3>2, <3>3, <3>4
  <2> QED BY <2>1, <2>2
<1>10. run'.pc = "exchange" => copy'.rows = table'
  <2>1. ASSUME run'.pc = "exchange" PROVE copy'.rows = table'
    <3>1. PICK part \in SUBSET table : AKShare!CopyRows(part)
      BY <1>2, <2>1 DEF AKShare!MigrateNothing, AKShare!CreateCopy, AKShare!ExchangeTables, AKShare!DropCopy, AKRun
    <3>2. part = table
      BY <1>2, <2>1, <3>1 DEF AKShare!CopyRows, AKRun
    <3> QED BY <1>4, <3>1, <3>2 DEF AKShare!CopyRows
  <2> QED BY <2>1
<1> QED BY <1>3, <1>4, <1>6, <1>7, <1>8, <1>9, <1>10, AKQuiet

\* The steps that end a run keep the invariant.
LEMMA AKEnds ==
  ASSUME AKInvariant,
         \/ AKShare!SkipSuccessfulToday \/ AKShare!RaiseIfAllFailed \/ AKShare!LogSuccess \/ AKShare!Killed
  PROVE  AKInvariant'
<1>1. run' = AKShare!Idle /\ AKFrame /\ UNCHANGED <<table, copy, directory>>
  BY DEF AKShare!SkipSuccessfulToday, AKShare!RaiseIfAllFailed, AKShare!LogSuccess, AKShare!Killed, AKShare!TaskFails,
         AKFrame
<1> QED BY <1>1, AKQuiet DEF AKInvariant, AKTyped

\* Work on a list of items begins.
LEMMA AKWork ==
  ASSUME AKInvariant, run.pc = "check", NEW list \in Seq(Symbols), AKShare!Work(list), AKFrame,
         directory'.items \in SUBSET Symbols, UNCHANGED <<table, copy>>
  PROVE  AKInvariant'
<1>1. run \in AKRun /\ run.pc # "idle"
  BY AKRunning DEF AKInvariant
<1>2. run' = [run EXCEPT !.pc = "item", !.items = list, !.todo = list]
  BY DEF AKShare!Work
<1>3. /\ run' \in AKRun /\ run'.pc = "item" /\ run'.items = list /\ run'.todo = list
      /\ run'.scope = run.scope /\ run'.day = run.day /\ run'.passes = run.passes
  BY <1>1, <1>2 DEF AKRun
<1>4. AKTyped'
  BY <1>3 DEF AKInvariant, AKTyped, AKFrame
<1>5. AKWindow'
  BY <1>1, <1>3 DEF AKInvariant, AKWindow, AKFrame, AKWorking, AKAsking, AKShare!HasCursor
<1>6. AKAnswer' /\ AKSaved' /\ AKCopied'
  BY <1>3 DEF AKAnswer, AKSaved, AKCopied, AKAsking
<1>7. AKProgress'
  BY <1>3 DEF AKProgress
<1>8. AKShare!CursorLosesNothing'
  BY DEF AKInvariant, AKShare!CursorLosesNothing, AKFrame, AKShare!Days
<1> QED BY <1>4, <1>5, <1>6, <1>7, <1>8 DEF AKInvariant

\* A set of items in some order.
LEMMA AKSetToSeq ==
  ASSUME NEW S \in SUBSET Symbols
  PROVE  /\ AKShare!SetToSeq(S) \in Seq(Symbols)
         /\ S # {} => AKShare!SetToSeq(S) # <<>>
<1>1. AKShare!SetToSeq(S) = SetToSeq(S)
  BY DEF AKShare!SetToSeq, SetToSeq, AKShare!Cardinality, Cardinality
<1>2. IsFiniteSet(S)
  BY ProviderAssumption, FS_Subset
<1> DEFINE list == SetToSeq(S)
<1>3. Cardinality(S) \in Nat /\ list \in [1..Cardinality(S) -> S]
  BY <1>2, SetToSeqLists
<1>4. \A x \in S : \E i \in 1..Cardinality(S) : list[i] = x
  BY <1>2, SetToSeqLists
<1> HIDE DEF list
<1>5. PICK n \in Nat : n = Cardinality(S)
  BY <1>3
<1>6. list \in [1..n -> S]
  BY <1>3, <1>5
<1>7. list \in Seq(Symbols)
  BY <1>6
<1>8. S # {} => list # <<>>
  BY <1>4, <1>5, <1>6
<1> QED BY <1>1, <1>7, <1>8 DEF list

\* A limit leaves some of the items.
LEMMA AKLimited ==
  ASSUME NEW list \in Seq(Symbols), list # <<>>
  PROVE  AKShare!Limited(list) \in Seq(Symbols)
<1>1. 1 <= Len(list)
  OBVIOUS
<1>2. SubSeq(list, 1, 1) \in Seq(Symbols)
  BY <1>1
<1> QED BY <1>2 DEF AKShare!Limited

\* ResolveItems keeps the invariant.
LEMMA AKResolve == ASSUME AKInvariant, AKShare!ResolveItems PROVE AKInvariant'
<1>1. run.pc = "check" /\ AKFrame /\ UNCHANGED <<table, copy>>
  BY DEF AKShare!ResolveItems, AKShare!Due, AKFrame
<1>2. run \in AKRun /\ run.pc # "idle" /\ directory.items \in SUBSET Symbols
  BY <1>1, AKRunning DEF AKInvariant, AKTyped
<1> DEFINE list == AKShare!Limited(AKShare!SetToSeq(AKShare!Resolved))
<1>3. AKShare!Resolved \in SUBSET Symbols /\ AKShare!Resolved # {}
  BY <1>2 DEF AKShare!ResolveItems, AKShare!Resolved, AKShare!Today
<1>4. list \in Seq(Symbols)
  <2>1. PICK S \in SUBSET Symbols : S = AKShare!Resolved
    BY <1>3
  <2> QED BY <1>3, <2>1, AKSetToSeq, AKLimited
<1>5. AKShare!Work(list) /\ directory' = directory
  BY DEF AKShare!ResolveItems
<1> HIDE DEF list
<1> QED BY <1>1, <1>2, <1>4, <1>5, AKWork

\* FetchDirectory keeps the invariant.
LEMMA AKFetchDirectory ==
  ASSUME AKInvariant, NEW part \in (SUBSET Symbols) \ {{}}, AKShare!FetchDirectory(part) PROVE AKInvariant'
<1>1. run.pc = "check" /\ AKFrame /\ UNCHANGED <<table, copy>>
  BY DEF AKShare!FetchDirectory, AKShare!Due, AKFrame
<1>2. run \in AKRun /\ run.pc # "idle" /\ directory.items \in SUBSET Symbols
  BY <1>1, AKRunning DEF AKInvariant, AKTyped
<1> DEFINE listed == AKShare!SetToSeq(Symbols)
           saved == IF AKShare!OfConcepts /\ run.scope.task = "task" THEN listed ELSE AKShare!Limited(listed)
<1>3. listed \in Seq(Symbols) /\ listed # <<>>
  BY AKSetToSeq
<1>4. saved \in Seq(Symbols) /\ part \subseteq AKShare!ToSet(saved)
  BY <1>3, AKLimited DEF AKShare!FetchDirectory
<1>5. saved # <<>>
  BY <1>4 DEF AKShare!ToSet
<1>6. directory'.items \in SUBSET Symbols
  BY <1>2 DEF AKShare!FetchDirectory, AKShare!Today
<1>7. \/ run' = AKShare!Idle
      \/ AKShare!Work(AKShare!Limited(saved))
      \/ run' = [run EXCEPT !.pc = "log"]
  BY DEF AKShare!FetchDirectory
<1> HIDE DEF saved, listed
<1>8. CASE run' = AKShare!Idle
  BY <1>1, <1>6, <1>8, AKQuiet DEF AKInvariant, AKTyped
<1>9. CASE AKShare!Work(AKShare!Limited(saved))
  <2>1. AKShare!Limited(saved) \in Seq(Symbols)
    BY <1>4, <1>5, AKLimited
  <2> QED BY <1>1, <1>6, <1>9, <2>1, AKWork
<1>10. CASE run' = [run EXCEPT !.pc = "log"]
  <2>1. run.items = <<>> /\ run.todo = <<>>
    BY <1>1, <1>2 DEF AKInvariant, AKWindow, AKWorking, AKAsking
  <2>2. /\ run' \in AKRun /\ run'.pc = "log" /\ run'.items = <<>> /\ run'.todo = <<>>
        /\ run'.scope = run.scope /\ run'.day = run.day /\ run'.passes = run.passes
    BY <1>2, <1>10, <2>1 DEF AKRun
  <2>3. AKTyped'
    BY <1>1, <1>6, <2>2 DEF AKInvariant, AKTyped, AKFrame
  <2>4. AKWindow'
    BY <1>1, <1>2, <2>2 DEF AKInvariant, AKWindow, AKFrame, AKWorking, AKAsking, AKShare!HasCursor
  <2>5. AKAnswer' /\ AKSaved' /\ AKCopied' /\ AKProgress'
    BY <2>2 DEF AKAnswer, AKSaved, AKCopied, AKAsking, AKProgress
  <2>6. AKShare!CursorLosesNothing'
    BY <1>1 DEF AKInvariant, AKShare!CursorLosesNothing, AKFrame, AKShare!Days
  <2> QED BY <2>3, <2>4, <2>5, <2>6 DEF AKInvariant
<1> QED BY <1>7, <1>8, <1>9, <1>10

\* The item at the head of a list, and those after it.
LEMMA AKHead ==
  ASSUME AKInvariant, run.pc \in AKWorking, run.todo # <<>>
  PROVE  /\ run \in AKRun /\ run.pc # "idle"
         /\ Head(run.todo) \in Symbols /\ Tail(run.todo) \in Seq(Symbols)
         /\ \A j \in DOMAIN run.todo :
               run.todo[j] = Head(run.todo) \/ \E k \in DOMAIN Tail(run.todo) : Tail(run.todo)[k] = run.todo[j]
<1>1. run.pc # "idle"
  BY DEF AKWorking, AKAsking
<1>2. run \in AKRun /\ run.todo \in Seq(Symbols)
  BY <1>1, AKRunning DEF AKInvariant
<1> QED BY <1>1, <1>2, ListEnds, ListMembers

\* An item starts with the window, or after its cursor.
LEMMA AKStarts ==
  ASSUME AKInvariant, run.pc # "idle", NEW i \in Symbols
  PROVE  /\ AKShare!EffectiveStart(i) \in Nat
         /\ \/ AKShare!EffectiveStart(i) = run.scope.begin
            \/ AKShare!EffectiveStart(i) = cursor[i] + 1 /\ run.scope.begin <= cursor[i] + 1 /\ cursor[i] # 0
<1>1. run.scope.begin \in 1..LastDay /\ LastDay \in Nat /\ cursor[i] \in Nat
  BY AKRunning DEF AKInvariant, AKTyped
<1> QED BY <1>1 DEF AKShare!EffectiveStart, AKShare!Larger

\* The days that an item starts after are saved, or were passed over before.
LEMMA AKBehind ==
  ASSUME AKInvariant, run.pc # "idle", NEW i \in Symbols, NEW d \in run.scope.begin..run.scope.end,
         d < AKShare!EffectiveStart(i)
  PROVE  <<i, d>> \in table \union leftOut
<1>1. run.scope.begin \in 1..LastDay /\ run.scope.end \in 1..LastDay /\ LastDay \in Nat /\ cursor[i] \in Nat
  BY AKRunning DEF AKInvariant, AKTyped
<1>2. d <= cursor[i] /\ d \in 1..LastDay
  BY <1>1, AKStarts
<1> QED BY <1>2 DEF AKInvariant, AKShare!CursorLosesNothing, AKShare!Days

\* The end of the work on one item, saved or failed, keeps the invariant.
LEMMA AKRest ==
  ASSUME AKInvariant, run.pc \in AKAsking \union {"item"}, run.todo # <<>>, NEW i, i = Head(run.todo),
         UNCHANGED <<today, kind, table, copy, directory>>,
         cursor' \in [Symbols -> Nat], leftOut \subseteq leftOut', AKShare!CursorLosesNothing',
         run' \in AKRun, run'.pc = "item", run'.todo = Tail(run.todo), run'.items = run.items,
         run'.scope = run.scope, run'.day = run.day, run'.passes = run.passes,
         run.failures \subseteq run'.failures,
         AKShare!HasCursor => i \in run'.failures \/ AKDone(i)'
  PROVE  AKInvariant'
<1>1. /\ run \in AKRun /\ run.pc # "idle" /\ run.pc \in AKWorking
      /\ \A j \in DOMAIN run.todo :
            run.todo[j] = i \/ \E k \in DOMAIN Tail(run.todo) : Tail(run.todo)[k] = run.todo[j]
  BY AKHead DEF AKWorking
<1>2. AKTyped'
  BY DEF AKInvariant, AKTyped
<1>3. AKWindow'
  BY <1>1 DEF AKInvariant, AKWindow, AKWorking, AKAsking, AKShare!HasCursor
<1>4. AKAnswer' /\ AKSaved' /\ AKCopied'
  BY DEF AKAnswer, AKSaved, AKCopied, AKAsking
<1>5. AKProgress'
  <2> SUFFICES ASSUME AKShare!HasCursor, NEW k \in DOMAIN run.items
               PROVE  \/ run.items[k] \in run'.failures
                      \/ \E j \in DOMAIN run'.todo : run'.todo[j] = run.items[k]
                      \/ AKDone(run.items[k])'
    BY DEF AKProgress, AKShare!HasCursor
  <2>1. \A x : AKDone(x) => AKDone(x)'
    BY DEF AKDone
  <2>2. CASE run.items[k] \in run.failures
    BY <2>2
  <2>3. CASE \E j \in DOMAIN run.todo : run.todo[j] = run.items[k]
    <3>1. PICK x : x = run.items[k]
      OBVIOUS
    <3>2. x = i \/ \E j \in DOMAIN run'.todo : run'.todo[j] = x
      BY <1>1, <2>3, <3>1
    <3>3. x \in run'.failures \/ (\E j \in DOMAIN run'.todo : run'.todo[j] = x) \/ AKDone(x)'
      BY <3>2
    <3>4. AKDone(run.items[k])' = AKDone(x)'
      BY <3>1
    <3> QED BY <3>1, <3>3, <3>4
  <2>4. CASE AKDone(run.items[k])
    <3>1. PICK x : x = run.items[k]
      OBVIOUS
    <3>2. AKDone(x)'
      BY <2>1, <2>4, <3>1
    <3> QED BY <3>1, <3>2
  <2> QED BY <1>1, <2>2, <2>3, <2>4 DEF AKInvariant, AKProgress
<1> QED BY <1>2, <1>3, <1>4, <1>5 DEF AKInvariant

\* SkipItem keeps the invariant.
LEMMA AKSkip == ASSUME AKInvariant, AKShare!SkipItem PROVE AKInvariant'
<1> DEFINE i == Head(run.todo)
<1>1. run.pc = "item" /\ run.todo # <<>> /\ AKShare!EffectiveStart(i) > run.scope.end
  BY DEF AKShare!SkipItem, AKShare!Turn, AKShare!Item
<1>2. run \in AKRun /\ run.pc # "idle" /\ i \in Symbols /\ Tail(run.todo) \in Seq(Symbols)
  BY <1>1, AKHead DEF AKWorking
<1>3. run' = [run EXCEPT !.todo = Tail(run.todo)] /\ UNCHANGED <<today, kind, table, copy, cursor, directory, leftOut>>
  BY DEF AKShare!SkipItem
<1>4. /\ run' \in AKRun /\ run'.pc = "item" /\ run'.todo = Tail(run.todo) /\ run'.items = run.items
      /\ run'.scope = run.scope /\ run'.day = run.day /\ run'.passes = run.passes /\ run'.failures = run.failures
  BY <1>1, <1>2, <1>3 DEF AKRun
<1>5. PICK x \in Symbols : x = i
  BY <1>2
<1>6. AKDone(x)'
  <2> SUFFICES ASSUME NEW d \in run.scope.begin..run.scope.end PROVE <<x, d>> \in table \union leftOut
    BY <1>3, <1>4 DEF AKDone
  <2>1. d < AKShare!EffectiveStart(x)
    <3>1. run.scope.begin \in Int /\ run.scope.end \in Int /\ AKShare!EffectiveStart(x) \in Int
      BY <1>2, AKStarts, AKRunning DEF AKInvariant
    <3> QED BY <1>1, <1>5, <3>1
  <2> QED BY <1>2, <2>1, AKBehind
<1>7. AKShare!CursorLosesNothing' /\ cursor \in [Symbols -> Nat]
  BY <1>3 DEF AKInvariant, AKShare!CursorLosesNothing, AKTyped, AKShare!Days
<1> HIDE DEF i
<1> QED BY <1>1, <1>3, <1>4, <1>5, <1>6, <1>7, AKRest DEF i

\* Fetch keeps the invariant.
LEMMA AKFetch ==
  ASSUME AKInvariant, AKShare!Requesting, NEW answer \in AKShare!Answers, AKShare!Fetch(answer)
  PROVE  AKInvariant'
<1> DEFINE i == Head(run.todo)
           first == AKShare!EffectiveStart(i)
<1>1. run.pc = "item" /\ run.todo # <<>>
  BY DEF AKShare!Requesting, AKShare!Turn
<1>2. /\ run \in AKRun /\ run.pc # "idle" /\ i \in Symbols
      /\ run.day <= today /\ run.day \in Int /\ today \in Int /\ run.scope.end \in Int
  BY <1>1, AKHead, AKRunning DEF AKWorking, AKInvariant, AKWindow, AKTyped
<1>3. first \in Nat
  BY <1>2, AKStarts
<1>4. run' = [run EXCEPT !.pc = "save", !.rows = answer]
      /\ UNCHANGED <<today, kind, table, copy, cursor, directory, leftOut>>
  BY DEF AKShare!Fetch
<1>5. IF AKShare!HasCursor
      THEN \E m \in Int : /\ answer = {i} \X {d \in first..run.scope.end : d <= m}
                          /\ run.day <= m + 1 \/ run.scope.end <= m
      ELSE answer = {}
  <2>1. CASE AKShare!HasCursor
    <3> DEFINE asked == {i} \X (first..run.scope.end)
    <3>1. answer \in {{x \in asked : x[2] < today}, asked}
      BY <2>1 DEF AKShare!Answers, AKShare!Item
    <3> HIDE DEF i, first
    <3>2. CASE answer = asked
      <4>1. answer = {i} \X {d \in first..run.scope.end : d <= run.scope.end}
        BY <1>2, <1>3, <3>2
      <4> QED BY <1>2, <2>1, <4>1
    <3>3. CASE answer = {x \in asked : x[2] < today}
      <4>1. answer = {i} \X {d \in first..run.scope.end : d <= today - 1}
        BY <1>2, <1>3, <3>3
      <4>2. today - 1 \in Int /\ run.day <= today - 1 + 1
        BY <1>2
      <4> QED BY <2>1, <4>1, <4>2
    <3> QED BY <3>1, <3>2, <3>3
  <2>2. CASE ~AKShare!HasCursor
    BY <2>2 DEF AKShare!Answers
  <2> QED BY <2>1, <2>2
<1> HIDE DEF first
<1>6. answer \in SUBSET (Symbols \X Nat)
  <2>1. \A d \in first..run.scope.end : d \in Nat
    BY <1>2, <1>3
  <2> HIDE DEF i
  <2> QED BY <1>2, <1>5, <2>1
<1>7. /\ run' \in AKRun /\ run'.pc = "save" /\ run'.todo = run.todo /\ run'.items = run.items /\ run'.rows = answer
      /\ run'.scope = run.scope /\ run'.day = run.day /\ run'.passes = run.passes /\ run'.failures = run.failures
      /\ run'.force = run.force
  BY <1>2, <1>4, <1>6 DEF AKRun
<1>8. AKTyped'
  BY <1>4, <1>7 DEF AKInvariant, AKTyped
<1>9. AKWindow'
  BY <1>1, <1>2, <1>4, <1>7 DEF AKInvariant, AKWindow, AKWorking, AKAsking, AKShare!HasCursor
<1>10. AKAnswer'
  <2>1. AKShare!EffectiveStart(Head(run.todo))' = first
    BY <1>4, <1>7 DEF AKShare!EffectiveStart, first
  <2>2. AKShare!HasCursor' = AKShare!HasCursor /\ Head(run'.todo) = i
    BY <1>4, <1>7 DEF AKShare!HasCursor
  <2> HIDE DEF i
  <2> QED BY <1>5, <1>7, <2>1, <2>2 DEF AKAnswer
<1>11. AKSaved' /\ AKCopied'
  BY <1>7 DEF AKSaved, AKCopied
<1>12. AKProgress'
  BY <1>1, <1>4, <1>7 DEF AKInvariant, AKProgress, AKDone, AKWorking, AKShare!HasCursor
<1>13. AKShare!CursorLosesNothing'
  BY <1>4 DEF AKInvariant, AKShare!CursorLosesNothing, AKShare!Days
<1> QED BY <1>8, <1>9, <1>10, <1>11, <1>12, <1>13 DEF AKInvariant

\* An insertion, whole or cut, keeps the invariant.
LEMMA AKSave ==
  ASSUME AKInvariant, run.pc = "save", NEW part \in SUBSET run.rows, AKShare!SaveFrame(part)
  PROVE  AKInvariant'
<1>1. run \in AKRun /\ run.todo # <<>> /\ run.pc # "idle"
  BY AKRunning DEF AKInvariant, AKWindow, AKAsking
<1>2. /\ table' = table \union part
      /\ run' = [run EXCEPT !.pc = IF part = run.rows THEN "cursor" ELSE "cut"]
      /\ UNCHANGED <<today, kind, copy, cursor, directory, leftOut>>
  BY DEF AKShare!SaveFrame
<1>3. /\ run' \in AKRun /\ run'.pc = (IF part = run.rows THEN "cursor" ELSE "cut") /\ run'.pc \in AKAsking
      /\ run'.todo = run.todo /\ run'.items = run.items /\ run'.rows = run.rows
      /\ run'.scope = run.scope /\ run'.day = run.day /\ run'.passes = run.passes /\ run'.failures = run.failures
      /\ run'.force = run.force
  BY <1>1, <1>2 DEF AKRun, AKAsking
<1>4. AKTyped'
  BY <1>1, <1>2, <1>3 DEF AKInvariant, AKTyped, AKRun
<1>5. AKWindow'
  BY <1>1, <1>2, <1>3 DEF AKInvariant, AKWindow, AKWorking, AKAsking, AKShare!HasCursor
<1>6. AKAnswer'
  BY <1>2, <1>3 DEF AKInvariant, AKAnswer, AKAsking, AKShare!HasCursor, AKShare!EffectiveStart, AKShare!Larger
<1>7. AKSaved' /\ AKCopied'
  BY <1>2, <1>3 DEF AKSaved, AKCopied, AKAsking
<1>8. AKProgress'
  BY <1>2, <1>3 DEF AKInvariant, AKProgress, AKDone, AKWorking, AKAsking, AKShare!HasCursor
<1>9. AKShare!CursorLosesNothing'
  BY <1>2 DEF AKInvariant, AKShare!CursorLosesNothing, AKShare!Days
<1> QED BY <1>4, <1>5, <1>6, <1>7, <1>8, <1>9 DEF AKInvariant

\* UpsertTaskCursor keeps the invariant: the cursor moves no further than the rows saved.
LEMMA AKUpsert == ASSUME AKInvariant, AKShare!UpsertTaskCursor PROVE AKInvariant'
<1>1. run.pc = "cursor" /\ run.todo # <<>> /\ run.pc \in AKAsking /\ run.pc \in AKWorking
  BY DEF AKShare!UpsertTaskCursor, AKInvariant, AKWindow, AKAsking, AKWorking
<1>2. run \in AKRun /\ run.pc # "idle" /\ Head(run.todo) \in Symbols /\ Tail(run.todo) \in Seq(Symbols)
  BY <1>1, AKHead
<1>3. PICK i \in Symbols : i = Head(run.todo)
  BY <1>2
<1> DEFINE days == {x[2] : x \in run.rows}
           newest == AKShare!Latest(days)
           first == AKShare!EffectiveStart(i)
<1>4. /\ cursor' = [cursor EXCEPT ![i] = AKShare!Larger(cursor[i], newest)]
      /\ leftOut' = leftOut \union
             {<<i, d>> : d \in {e \in AKShare!Days : newest > 0 /\ cursor[i] < e /\ e < run.scope.begin}}
      /\ run' = [run EXCEPT !.pc = "item", !.todo = Tail(run.todo), !.rows = {},
                            !.succeeded = run.succeeded + 1, !.consecutive = 0]
      /\ UNCHANGED <<today, kind, table, copy, directory>>
  BY <1>3 DEF AKShare!UpsertTaskCursor, AKShare!Item, AKShare!ItemDone
<1>5. /\ cursor \in [Symbols -> Nat] /\ run.scope.end \in 1..LastDay /\ run.scope.begin \in 1..LastDay
      /\ LastDay \in Nat /\ first \in Nat /\ run.rows \subseteq table
  BY <1>1, <1>2, AKRunning, AKStarts DEF AKInvariant, AKTyped, AKSaved
<1> HIDE DEF first
<1>6. \A x \in run.rows : x = <<i, x[2]>> /\ x[2] \in first..run.scope.end
  BY <1>1, <1>3 DEF AKInvariant, AKAnswer, first
<1>7. \A d \in first..run.scope.end : \A e \in days : d <= e => <<i, d>> \in run.rows
  <2> SUFFICES ASSUME NEW d \in first..run.scope.end, NEW x \in run.rows, d <= x[2] PROVE <<i, d>> \in run.rows
    OBVIOUS
  <2>1. AKShare!HasCursor
    BY <1>1 DEF AKInvariant, AKAnswer
  <2>2. PICK m \in Int : run.rows = {i} \X {e \in first..run.scope.end : e <= m}
    BY <1>1, <1>3, <2>1 DEF AKInvariant, AKAnswer, first
  <2>3. x[2] \in first..run.scope.end /\ x[2] <= m
    BY <2>2
  <2>4. d <= m
    BY <1>5, <2>3
  <2> QED BY <2>2, <2>4
<1>8. /\ newest \in Nat /\ newest <= LastDay
      /\ newest # 0 => newest \in days
  <2>1. \A d \in days : d \in Nat
    BY <1>5, <1>6
  <2> DEFINE saved == days \ {0}
  <2>2. saved \in SUBSET (1..LastDay)
    BY <1>5, <1>6
  <2>3. CASE days = {}
    BY <1>5, <2>3 DEF AKShare!Latest
  <2>4. CASE days # {}
    <3>1. 0 \notin days
      <4>1. first # 0
        BY <1>2, <1>5, AKStarts DEF first
      <4> QED BY <1>5, <1>6, <4>1
    <3>2. days \in SUBSET (1..LastDay)
      BY <2>2, <3>1
    <3>3. newest = LatestIn(days)
      BY DEF AKShare!Latest, LatestIn
    <3> HIDE DEF days
    <3>4. LatestIn(days) \in 0..LastDay /\ LatestIn(days) \in days
      BY <1>5, <2>4, <3>2, LatestValue
    <3> QED BY <1>5, <3>3, <3>4
  <2> QED BY <2>3, <2>4
<1> HIDE DEF days, newest
<1>9. leftOut \subseteq leftOut'
  BY <1>4
<1>10. /\ cursor' \in [Symbols -> Nat]
       /\ \A s \in Symbols : s # i => cursor'[s] = cursor[s]
       /\ cursor'[i] = cursor[i] \/ (cursor'[i] = newest /\ newest > cursor[i])
  <2>1. AKShare!Larger(cursor[i], newest) \in Nat
    BY <1>5, <1>8 DEF AKShare!Larger
  <2>2. cursor'[i] = AKShare!Larger(cursor[i], newest)
    BY <1>4, <1>5
  <2>3. cursor'[i] = cursor[i] \/ (cursor'[i] = newest /\ newest > cursor[i])
    BY <1>5, <1>8, <2>2 DEF AKShare!Larger
  <2> QED BY <1>4, <1>5, <2>1, <2>3
<1>11. AKShare!CursorLosesNothing'
  <2> SUFFICES ASSUME NEW s \in Symbols, NEW d \in 1..LastDay, d <= cursor'[s], ~(d <= cursor[s])
               PROVE  <<s, d>> \in table \union leftOut'
    BY <1>4, <1>9 DEF AKInvariant, AKShare!CursorLosesNothing, AKShare!Days
  <2>1. s = i /\ d <= newest /\ newest > cursor[i] /\ cursor[i] < d /\ cursor[i] \in Nat
    BY <1>5, <1>10
  <2>2. newest > 0 /\ newest \in days
    BY <1>8, <2>1
  <2>3. CASE d < first
    <3>1. first = run.scope.begin \/ (first = cursor[i] + 1 /\ run.scope.begin <= cursor[i] + 1)
      BY <1>1, <1>2, AKStarts DEF first
    <3>2. d < run.scope.begin
      BY <1>5, <2>1, <2>3, <3>1
    <3> QED BY <1>4, <2>1, <2>2, <3>2 DEF AKShare!Days
  <2>4. CASE ~(d < first)
    <3>1. newest <= run.scope.end
      BY <1>5, <1>6, <2>2 DEF days
    <3>2. d \in first..run.scope.end
      BY <1>5, <1>8, <2>1, <2>4, <3>1
    <3> QED BY <1>5, <1>7, <2>1, <2>2, <3>2
  <2> QED BY <2>3, <2>4
<1>12. /\ run' \in AKRun /\ run'.pc = "item" /\ run'.todo = Tail(run.todo) /\ run'.items = run.items
       /\ run'.scope = run.scope /\ run'.day = run.day /\ run'.passes = run.passes /\ run'.failures = run.failures
  <2>1. run.succeeded \in Int
    BY <1>2 DEF AKRun
  <2>2. PICK n \in Int, none \in Int : n = run.succeeded + 1 /\ none = 0
    BY <2>1
  <2>3. PICK rest \in Seq(Symbols) : rest = Tail(run.todo)
    BY <1>2
  <2>4. run' = [run EXCEPT !.pc = "item", !.todo = rest, !.rows = {}, !.succeeded = n, !.consecutive = none]
    BY <1>4, <2>2, <2>3
  <2>5. run' \in AKRun
    BY <1>2, <2>4 DEF AKRun
  <2>6. run'.pc = "item" /\ run'.todo = rest /\ run'.items = run.items /\ run'.scope = run.scope
    BY <1>2, <2>4 DEF AKRun
  <2>7. run'.day = run.day /\ run'.passes = run.passes /\ run'.failures = run.failures
    BY <1>2, <2>4 DEF AKRun
  <2> QED BY <2>3, <2>5, <2>6, <2>7
<1>13. AKShare!HasCursor => AKDone(i)'
  <2> SUFFICES ASSUME AKShare!HasCursor, NEW d \in run.scope.begin..run.scope.end, d < run.day
               PROVE  <<i, d>> \in table \union leftOut
    BY <1>4, <1>9, <1>12 DEF AKDone
  <2>1. CASE d < first
    BY <1>2, <2>1, AKBehind DEF first
  <2>2. CASE ~(d < first)
    <3>1. PICK m \in Int : /\ run.rows = {i} \X {e \in first..run.scope.end : e <= m}
                           /\ run.day <= m + 1 \/ run.scope.end <= m
      BY <1>1, <1>3 DEF AKInvariant, AKAnswer, first
    <3>2. run.day \in Int
      BY <1>2, AKRunning DEF AKInvariant
    <3>3. d \in first..run.scope.end /\ d <= m
      BY <1>5, <2>2, <3>1, <3>2
    <3> QED BY <1>5, <3>1, <3>3
  <2> QED BY <2>1, <2>2
<1> QED BY <1>1, <1>3, <1>4, <1>9, <1>10, <1>11, <1>12, <1>13, AKRest

\* ItemFails keeps the invariant.
LEMMA AKFails == ASSUME AKInvariant, AKShare!ItemFails PROVE AKInvariant'
<1>1. UNCHANGED <<today, kind, table, copy, cursor, directory, leftOut>>
  BY DEF AKShare!ItemFails
<1>2. run.pc \in AKAsking \union {"item"} /\ run.todo # <<>>
  BY DEF AKShare!ItemFails, AKShare!Requesting, AKShare!Turn, AKInvariant, AKWindow, AKAsking
<1>3. run \in AKRun /\ run.pc # "idle" /\ Head(run.todo) \in Symbols /\ Tail(run.todo) \in Seq(Symbols)
  BY <1>2, AKHead DEF AKWorking
<1>4. CASE run' = AKShare!Idle
  BY <1>1, <1>4, AKQuiet DEF AKInvariant, AKTyped, AKFrame
<1>5. CASE run' # AKShare!Idle
  <2>1. PICK i \in Symbols : i = Head(run.todo)
    BY <1>3
  <2>2. run' = [run EXCEPT !.pc = "item", !.todo = Tail(run.todo), !.rows = {},
                           !.failures = run.failures \union {i}, !.consecutive = run.consecutive + 1]
    BY <1>5, <2>1 DEF AKShare!ItemFails, AKShare!TaskFails, AKShare!Item
  <2>3. run.consecutive \in Int /\ run.failures \union {i} \in SUBSET Symbols
    BY <1>3 DEF AKRun
  <2>4. PICK failed \in SUBSET Symbols : failed = run.failures \union {i}
    BY <2>3
  <2>5. /\ run' \in AKRun /\ run'.pc = "item" /\ run'.todo = Tail(run.todo) /\ run'.items = run.items
        /\ run'.scope = run.scope /\ run'.day = run.day /\ run'.passes = run.passes /\ run'.failures = failed
    <3>1. run.consecutive + 1 \in Int
      BY <2>3
    <3>2. PICK n \in Int : n = run.consecutive + 1
      BY <3>1
    <3>3. PICK rest \in Seq(Symbols) : rest = Tail(run.todo)
      BY <1>3
    <3>4. run' = [run EXCEPT !.pc = "item", !.todo = rest, !.rows = {}, !.failures = failed, !.consecutive = n]
      BY <2>2, <2>4, <3>2, <3>3
    <3>5. run' \in AKRun
      BY <1>3, <3>4 DEF AKRun
    <3>6. run'.pc = "item" /\ run'.todo = rest /\ run'.items = run.items /\ run'.scope = run.scope
      BY <1>3, <3>4 DEF AKRun
    <3>7. run'.day = run.day /\ run'.passes = run.passes /\ run'.failures = failed
      BY <1>3, <3>4 DEF AKRun
    <3> QED BY <3>3, <3>5, <3>6, <3>7
  <2>6. AKShare!CursorLosesNothing' /\ cursor \in [Symbols -> Nat]
    BY <1>1 DEF AKInvariant, AKShare!CursorLosesNothing, AKTyped, AKShare!Days
  <2> QED BY <1>1, <1>2, <2>1, <2>4, <2>5, <2>6, AKRest
<1> QED BY <1>4, <1>5

\* FinishPass keeps the invariant.
LEMMA AKFinish == ASSUME AKInvariant, AKShare!FinishPass PROVE AKInvariant'
<1>1. /\ run.pc = "item" /\ run.todo = <<>> /\ run.pc # "idle"
      /\ UNCHANGED <<today, kind, table, copy, cursor, directory, leftOut>>
  BY DEF AKShare!FinishPass
<1>2. run \in AKRun /\ run.items \in Seq(Symbols) /\ run.passes \in Int
  BY <1>1, AKRunning DEF AKInvariant, AKRun
<1>3. \/ run' = [run EXCEPT !.pc = "log"]
      \/ run.passes # 1 /\ run' = [run EXCEPT !.passes = run.passes - 1, !.todo = run.items,
                                              !.succeeded = 0, !.failures = {}, !.consecutive = 0]
  BY DEF AKShare!FinishPass
<1>4. CASE run' = [run EXCEPT !.pc = "log"]
  <2>1. /\ run' \in AKRun /\ run'.pc = "log" /\ run'.items = run.items /\ run'.todo = <<>>
        /\ run'.scope = run.scope /\ run'.day = run.day /\ run'.passes = run.passes /\ run'.failures = run.failures
    BY <1>1, <1>2, <1>4 DEF AKRun
  <2>2. AKTyped'
    BY <1>1, <2>1 DEF AKInvariant, AKTyped
  <2>3. AKWindow'
    BY <1>1, <2>1 DEF AKInvariant, AKWindow, AKWorking, AKAsking, AKShare!HasCursor
  <2>4. AKAnswer' /\ AKSaved' /\ AKCopied'
    BY <2>1 DEF AKAnswer, AKSaved, AKCopied, AKAsking
  <2>5. AKProgress'
    BY <1>1, <2>1 DEF AKInvariant, AKProgress, AKDone, AKWorking, AKShare!HasCursor
  <2>6. AKShare!CursorLosesNothing'
    BY <1>1 DEF AKInvariant, AKShare!CursorLosesNothing, AKShare!Days
  <2> QED BY <2>2, <2>3, <2>4, <2>5, <2>6 DEF AKInvariant
<1>5. CASE run' # [run EXCEPT !.pc = "log"]
  <2>1. /\ run' \in AKRun /\ run'.pc = "item" /\ run'.items = run.items /\ run'.todo = run.items
        /\ run'.scope = run.scope /\ run'.day = run.day
    <3>1. run.passes - 1 \in Int
      BY <1>2
    <3>2. PICK n \in Int, none \in Int : n = run.passes - 1 /\ none = 0
      BY <3>1
    <3>3. run' = [run EXCEPT !.passes = n, !.todo = run.items, !.succeeded = none, !.failures = {}, !.consecutive = none]
      BY <1>3, <1>5, <3>2
    <3>4. run' \in AKRun
      BY <1>2, <3>3 DEF AKRun
    <3>5. run'.pc = run.pc /\ run'.items = run.items /\ run'.todo = run.items
      BY <1>2, <3>3 DEF AKRun
    <3>6. run'.scope = run.scope /\ run'.day = run.day
      BY <1>2, <3>3 DEF AKRun
    <3> QED BY <1>1, <3>4, <3>5, <3>6
  <2>2. ~AKShare!HasCursor
    BY <1>1, <1>3, <1>5 DEF AKInvariant, AKWindow
  <2>3. AKTyped'
    BY <1>1, <2>1 DEF AKInvariant, AKTyped
  <2>4. AKWindow'
    BY <1>1, <2>1, <2>2 DEF AKInvariant, AKWindow, AKWorking, AKAsking, AKShare!HasCursor
  <2>5. AKAnswer' /\ AKSaved' /\ AKCopied'
    BY <2>1 DEF AKAnswer, AKSaved, AKCopied, AKAsking
  <2>6. AKProgress'
    BY <1>1, <2>2 DEF AKProgress, AKShare!HasCursor
  <2>7. AKShare!CursorLosesNothing'
    BY <1>1 DEF AKInvariant, AKShare!CursorLosesNothing, AKShare!Days
  <2> QED BY <2>3, <2>4, <2>5, <2>6, <2>7 DEF AKInvariant
<1> QED BY <1>4, <1>5

\* Time and upgrades keep the invariant.
LEMMA AKWorld == ASSUME AKInvariant, AKShare!Upgrade \/ AKShare!Tick PROVE AKInvariant'
<1>1. UNCHANGED <<kind, table, copy, cursor, directory, run, leftOut>>
  BY DEF AKShare!Upgrade, AKShare!Tick
<1>2. today \in 1..LastDay /\ LastDay \in Nat
  BY ProviderAssumption DEF AKInvariant, AKTyped
<1>3. today' \in 1..LastDay /\ today <= today'
  BY <1>2 DEF AKShare!Upgrade, AKShare!Tick
<1>4. AKTyped'
  BY <1>1, <1>3 DEF AKInvariant, AKTyped
<1>5. AKWindow'
  <2>1. run.pc # "idle" => run.day \in 1..LastDay /\ run.day <= today
    BY AKRunning DEF AKInvariant, AKWindow
  <2>2. run.pc # "idle" => run.day <= today'
    BY <1>2, <1>3, <2>1
  <2> QED BY <1>1, <2>2 DEF AKInvariant, AKWindow, AKShare!HasCursor
<1> QED BY <1>1, <1>4, <1>5 DEF AKInvariant, AKAnswer, AKSaved, AKCopied, AKProgress, AKDone, AKShare!HasCursor,
      AKShare!EffectiveStart, AKShare!Larger, AKShare!CursorLosesNothing, AKShare!Days

\* Every step of the AKShare runner keeps the invariant.
LEMMA AKStep == ASSUME AKInvariant, AKShare!Next PROVE AKInvariant'
<1>1. CASE \E task_ \in {"task", "directory"}, begin, end \in AKShare!Days, limit \in {0, 1}, force, goOn \in BOOLEAN :
              AKShare!StartRun(task_, begin, end, limit, force, goOn)
  BY <1>1, AKStart
<1>2. CASE AKShare!Requesting /\ \E answer \in AKShare!Answers : AKShare!Fetch(answer)
  BY <1>2, AKFetch
<1>3. CASE run.pc = "save" /\ \E part \in SUBSET run.rows : AKShare!SaveFrame(part)
  BY <1>3, AKSave
<1>4. CASE run.pc = "copy" /\ \E part \in SUBSET table : AKShare!CopyRows(part)
  BY <1>4, AKOpening
<1>5. CASE AKShare!MigrateNothing \/ AKShare!CreateCopy \/ AKShare!ExchangeTables \/ AKShare!DropCopy
  BY <1>5, AKOpening
<1>6. CASE AKShare!Due /\ \E part \in (SUBSET Symbols) \ {{}} : AKShare!FetchDirectory(part)
  BY <1>6, AKFetchDirectory
<1>7. CASE AKShare!ResolveItems
  BY <1>7, AKResolve
<1>8. CASE AKShare!SkipSuccessfulToday \/ AKShare!RaiseIfAllFailed \/ AKShare!LogSuccess \/ AKShare!Killed
  BY <1>8, AKEnds
<1>9. CASE AKShare!SkipItem \/ AKShare!UpsertTaskCursor \/ AKShare!ItemFails \/ AKShare!FinishPass
  BY <1>9, AKSkip, AKUpsert, AKFails, AKFinish
<1>10. CASE AKShare!Upgrade \/ AKShare!Tick
  BY <1>10, AKWorld
<1> QED BY <1>1, <1>2, <1>3, <1>4, <1>5, <1>6, <1>7, <1>8, <1>9, <1>10 DEF AKShare!Next

\* The invariant holds initially.
LEMMA AKInit == ASSUME AKShare!Init PROVE AKInvariant
<1>1. /\ table = {} /\ copy = AKShare!NoCopy /\ cursor = [i \in Symbols |-> 0] /\ directory = [day |-> 0, items |-> {}]
      /\ run = AKShare!Idle /\ kind \in AKShareKinds /\ today = 1
  BY DEF AKShare!Init
<1>2. LastDay \in Nat \ {0}
  BY ProviderAssumption
<1>3. today \in 1..LastDay
  BY <1>1, <1>2
<1>4. AKTyped
  <2>1. copy \in [there : BOOLEAN, rows : SUBSET (Symbols \X Nat)]
    BY <1>1 DEF AKShare!NoCopy
  <2>2. cursor \in [Symbols -> Nat] /\ directory.items \in SUBSET Symbols
    BY <1>1
  <2> QED BY <1>1, <1>3, <2>1, <2>2 DEF AKTyped
<1>5. run.pc = "idle"
  BY <1>1 DEF AKShare!Idle
<1>6. AKWindow /\ AKAnswer /\ AKSaved /\ AKCopied /\ AKProgress
  BY <1>5 DEF AKWindow, AKAnswer, AKSaved, AKCopied, AKProgress, AKAsking, AKWorking
<1>7. AKShare!CursorLosesNothing
  BY <1>1 DEF AKShare!CursorLosesNothing, AKShare!Days
<1> QED BY <1>4, <1>6, <1>7 DEF AKInvariant

\* SuccessIsComplete follows from the invariant.
LEMMA AKComplete == ASSUME AKInvariant PROVE AKShare!SuccessIsComplete
<1> SUFFICES ASSUME AKShare!LogSuccess, AKShare!HasCursor,
                    NEW i \in AKShare!ToSet(run.items) \ run.failures, NEW d \in run.scope.begin..run.scope.end, d < run.day
             PROVE  <<i, d>> \in table \union leftOut
  BY DEF AKShare!SuccessIsComplete
<1>1. run.pc = "log" /\ run.todo = <<>>
  BY DEF AKShare!LogSuccess, AKInvariant, AKWindow
<1>2. PICK k \in DOMAIN run.items : run.items[k] = i
  BY DEF AKShare!ToSet
<1>3. AKDone(i)
  BY <1>1, <1>2 DEF AKInvariant, AKProgress, AKWorking
<1> QED BY <1>3 DEF AKDone

\* A step that changes nothing keeps it.
LEMMA AKStutter ==
  ASSUME AKInvariant, UNCHANGED <<today, kind, table, copy, cursor, directory, run, leftOut>> PROVE AKInvariant'
BY DEF AKInvariant, AKTyped, AKWindow, AKAnswer, AKSaved, AKCopied, AKProgress, AKDone, AKShare!HasCursor,
       AKShare!EffectiveStart, AKShare!Larger, AKShare!CursorLosesNothing, AKShare!Days

--------------------------------------------------------------------------------
(* AmazingData. *)

\* The newest day a table has of a code.
ADNewest(T, c) == LatestIn({d \in 1..LastDay : <<c, d>> \in T})

\* A request of several codes from a day on, and the day it was made on.
ADEntry == [codes : SUBSET Codes, first : Nat \ {0}, on : 1..LastDay]
ADRun ==
    [pc : {"filter", "code", "log"}, begin : 1..LastDay, end : 1..LastDay, force : BOOLEAN, resume : BOOLEAN,
     todo : Seq(Codes), batch : SUBSET ADEntry, rows : SUBSET (Codes \X (1..LastDay))]

\* Types.
ADTyped ==
    /\ today \in 1..LastDay
    /\ kind \in AmazingData!Tasks
    /\ table \in SUBSET (Codes \X (1..LastDay))
    /\ \A e \in log : e.on \in 1..LastDay /\ e.on <= today
    /\ run \in ADRun \union {AmazingData!Idle}

\* The window of a run had come when it began; without a window everything is asked for.
ADWindow ==
    run.pc # "idle" =>
        /\ run.begin <= run.end /\ run.end <= today
        /\ ~kind.run.dated => run.begin = 1

\* Lists of what is present today; errors that leave a trace, and errors that end a batch.
ADListing == kind.sync.start = "present"
ADReported == kind.fetch.errors \in {"raised", "emptied"} /\ ~ADListing
ADRaised == kind.fetch.errors = "raised" /\ ~ADListing
ADFactor == kind \in {AmazingData!AdjFactor, AmazingData!BackwardFactor}

\* A request leaves out no day after the newest one of a code, save those before the begin_date,
\* and goes back over the days that may have been revised.
ADDue(e) ==
    ~ADListing /\ kind.sync.latest # "table" =>
        \A c \in e.codes :
            \/ e.first = run.begin
            \/ /\ e.first <= AmazingData!Newest(c) + 1
               /\ kind.sync.start = "overlap" => e.first <= AmazingData!Newest(c) - Lookback

\* Requests are of today or earlier, and rows are at hand only while a code is worked on.
ADBatch ==
    run.pc # "idle" => /\ \A e \in run.batch : e.on <= today /\ ADDue(e)
                       /\ run.pc = "filter" => run.batch = {}
                       /\ run.pc # "code" => run.rows = {}

\* What is not yet saved has no hole, and has the past days of the window.
ADAnswered ==
    run.pc = "code" /\ ADReported =>
        \A x \in run.rows :
            \E e \in run.batch :
                x[1] \in e.codes /\ e.first <= x[2] /\ \A d \in e.first..x[2] : <<x[1], d>> \in run.rows
ADWhole ==
    run.pc = "code" /\ ADRaised =>
        \A e \in run.batch : \A c \in e.codes, d \in e.first..run.end - 1 : <<c, d>> \in run.rows

\* What is about to be logged is saved.
ADSaved ==
    run.pc = "log" /\ ADRaised =>
        \A e \in run.batch : \A c \in e.codes, d \in e.first..run.end - 1 : <<c, d>> \in table /\ <<c, d>> \notin stale

\* Only statements are revised; only a begin_date leaves days out.
ADFresh == kind.sync.start # "overlap" => stale = {}
ADUndated == ~kind.run.dated /\ kind.sync.latest # "table" => leftOut = {}

\* Factors are saved up to the day before the one of their checkpoint, unless their table was
\* dropped since.
ADFactors ==
    ADFactor =>
        /\ \A e \in log : \A c \in e.scope.codes \intersect Codes :
              AmazingData!Newest(c) > 0 => e.on <= AmazingData!Newest(c) + 1
        /\ run.pc = "code" =>
              \A e \in run.batch :
                 /\ \A l \in log : l.on <= e.on
                 /\ \A c \in e.codes : \E x \in run.rows : x[1] = c /\ e.on <= x[2] + 1
        /\ run.pc = "log" =>
              \A e \in run.batch : \A c \in e.codes : e.on <= AmazingData!Newest(c) + 1

\* What the AmazingData runner keeps to.
ADInvariant ==
    /\ ADTyped
    /\ ADWindow
    /\ ADBatch
    /\ ADAnswered
    /\ ADWhole
    /\ ADSaved
    /\ ADFresh
    /\ ADUndated
    /\ ADFactors
    /\ AmazingData!CursorLosesNothing

\* The newest day of a code is one of its rows, and no row is newer.
LEMMA ADNewestDay ==
  ASSUME NEW T \in SUBSET (Codes \X (1..LastDay)), NEW c
  PROVE  /\ ADNewest(T, c) \in 0..LastDay
         /\ ADNewest(T, c) # 0 => <<c, ADNewest(T, c)>> \in T
         /\ \A d \in 1..LastDay : <<c, d>> \in T => d <= ADNewest(T, c)
<1> DEFINE days == {d \in 1..LastDay : <<c, d>> \in T}
<1>1. days \in SUBSET (1..LastDay) /\ LastDay \in Nat /\ ADNewest(T, c) = LatestIn(days)
  BY ProviderAssumption DEF ADNewest
<1>2. \A d \in 1..LastDay : d \in days <=> <<c, d>> \in T
  OBVIOUS
<1> HIDE DEF days
<1>3. /\ LatestIn(days) \in 0..LastDay /\ (days # {} => LatestIn(days) \in days)
      /\ \A e \in days : e <= LatestIn(days)
  BY <1>1, LatestValue
<1>4. days = {} => LatestIn(days) = 0
  BY DEF LatestIn
<1> QED BY <1>1, <1>2, <1>3, <1>4

\* What Newest computes depends on the rows only.
LEMMA ADNewestIs == \A c : AmazingData!Newest(c) = ADNewest(table, c)
BY DEF AmazingData!Newest, AmazingData!Latest, AmazingData!Days, ADNewest, LatestIn

\* A row saved makes nothing older the newest.
LEMMA ADNewestGrows ==
  ASSUME NEW T \in SUBSET (Codes \X (1..LastDay)), NEW U \in SUBSET (Codes \X (1..LastDay)), T \subseteq U, NEW c
  PROVE  /\ ADNewest(T, c) \in Nat /\ ADNewest(U, c) \in Nat /\ ADNewest(T, c) <= ADNewest(U, c)
         /\ ADNewest(U, c) # ADNewest(T, c) => <<c, ADNewest(U, c)>> \in U \ T
<1>1. LastDay \in Nat
  BY ProviderAssumption
<1>2. /\ ADNewest(T, c) \in 0..LastDay /\ ADNewest(U, c) \in 0..LastDay
      /\ ADNewest(T, c) # 0 => <<c, ADNewest(T, c)>> \in T
      /\ ADNewest(U, c) # 0 => <<c, ADNewest(U, c)>> \in U
      /\ \A d \in 1..LastDay : <<c, d>> \in T => d <= ADNewest(T, c)
      /\ \A d \in 1..LastDay : <<c, d>> \in U => d <= ADNewest(U, c)
  BY ADNewestDay
<1> QED BY <1>1, <1>2

\* The types of what a process at work has at hand.
LEMMA ADRunning ==
  ASSUME ADTyped, run.pc # "idle"
  PROVE  /\ run \in ADRun /\ LastDay \in Nat
         /\ run.begin \in 1..LastDay /\ run.end \in 1..LastDay
         /\ run.todo \in Seq(Codes) /\ run.batch \in SUBSET ADEntry /\ run.rows \in SUBSET (Codes \X (1..LastDay))
<1>1. run # AmazingData!Idle
  BY DEF AmazingData!Idle
<1>2. run \in ADRun
  BY <1>1 DEF ADTyped
<1> QED BY <1>2, ProviderAssumption DEF ADRun

\* The least of a set of days.
LEMMA ADLeast ==
  ASSUME NEW S \in SUBSET Nat, S # {}
  PROVE  AmazingData!Least(S) \in S /\ \A e \in S : AmazingData!Least(S) <= e
<1>1. PICK d \in S : \A e \in S : ~(<<e, d>> \in OpToRel(<,Nat))
  BY NatLessThanWellFounded, WFMin
<1>3. \A e \in S : ~(e < d)
  BY <1>1 DEF OpToRel
<1>2. \A e \in S : d <= e
  BY <1>3
<1> QED BY <1>2 DEF AmazingData!Least

\* The day from which a run goes on with some codes.
LEMMA ADLatestDate ==
  ASSUME ADTyped, NEW codes \in SUBSET Codes, codes # {}
  PROVE  /\ AmazingData!LatestDate(codes) \in Nat
         /\ kind.sync.latest # "table" =>
               \A c \in codes : AmazingData!LatestDate(codes) <= AmazingData!Newest(c)
<1>1. LastDay \in Nat /\ table \in SUBSET (Codes \X (1..LastDay))
  BY ProviderAssumption DEF ADTyped
<1>2. CASE kind.sync.latest = "table"
  <2> DEFINE days == {x[2] : x \in table}
  <2>1. AmazingData!LatestDate(codes) = LatestIn(days)
    BY <1>2 DEF AmazingData!LatestDate, AmazingData!Latest, LatestIn
  <2>2. days \in SUBSET (1..LastDay)
    BY <1>1
  <2> HIDE DEF days
  <2>3. LatestIn(days) \in 0..LastDay
    BY <1>1, <2>2, LatestValue
  <2> QED BY <1>1, <1>2, <2>1, <2>3
<1>3. CASE kind.sync.latest # "table"
  <2> DEFINE newest == {AmazingData!Newest(c) : c \in codes}
  <2>1. AmazingData!LatestDate(codes) = AmazingData!Least(newest)
    BY <1>3 DEF AmazingData!LatestDate
  <2>2. \A c : AmazingData!Newest(c) \in Nat
    <3>1. \A c : ADNewest(table, c) \in 0..LastDay
      BY <1>1, ADNewestDay
    <3> QED BY <1>1, <3>1, ADNewestIs
  <2>3. newest \in SUBSET Nat /\ newest # {} /\ \A c \in codes : AmazingData!Newest(c) \in newest
    BY <2>2
  <2> HIDE DEF newest
  <2>4. \A e \in newest : AmazingData!LatestDate(codes) <= e
    BY <2>1, <2>3, ADLeast
  <2>5. AmazingData!LatestDate(codes) \in newest
    BY <2>1, <2>3, ADLeast
  <2> QED BY <2>3, <2>4, <2>5
<1> QED BY <1>2, <1>3

\* A request leaves out no day after the newest one of a code, save those before the begin_date
\* (_resolve_sync_begin_date).
LEMMA ADStarts ==
  ASSUME ADTyped, run.pc # "idle", NEW codes \in SUBSET Codes, codes # {}
  PROVE  /\ AmazingData!SyncStart(codes) \in Nat \ {0}
         /\ ~ADListing /\ kind.sync.latest # "table" =>
              \A c \in codes :
                \/ AmazingData!SyncStart(codes) = run.begin
                \/ /\ AmazingData!SyncStart(codes) <= AmazingData!Newest(c) + 1
                   /\ kind.sync.start = "overlap" => AmazingData!SyncStart(codes) <= AmazingData!Newest(c) - Lookback
<1> DEFINE first == AmazingData!SyncStart(codes)
           latest == AmazingData!LatestDate(codes)
<1>1. /\ LastDay \in Nat /\ Lookback \in Nat /\ today \in Nat \ {0} /\ run.begin \in Nat \ {0}
  BY ADRunning, ProviderAssumption DEF ADTyped
<1>2. latest \in Nat /\ (kind.sync.latest # "table" => \A c \in codes : latest <= AmazingData!Newest(c))
  BY ADLatestDate
<1>3. \A c : AmazingData!Newest(c) \in Nat
  <2>1. \A c : ADNewest(table, c) \in 0..LastDay
    BY ADNewestDay DEF ADTyped
  <2> QED BY <1>1, <2>1, ADNewestIs
<1>4. \/ ADListing /\ first = today
      \/ first = run.begin
      \/ kind.sync.start = "newest" /\ first = latest /\ latest # 0
      \/ kind.sync.start = "overlap" /\ first = AmazingData!Larger(latest - Lookback, run.begin)
      \/ kind.sync.start # "overlap" /\ first = AmazingData!Larger(latest + 1, run.begin)
  BY DEF AmazingData!SyncStart, AmazingData!WholeWindow, ADListing
<1> HIDE DEF first, latest
<1>5. \/ ADListing /\ first = today
      \/ first = run.begin
      \/ first \in Nat \ {0} /\ first <= latest + 1 /\ (kind.sync.start = "overlap" => first <= latest - Lookback)
  BY <1>1, <1>2, <1>4 DEF AmazingData!Larger
<1>6. first \in Nat \ {0}
  BY <1>1, <1>5
<1>7. ASSUME ~ADListing, kind.sync.latest # "table", NEW c \in codes
      PROVE  \/ first = run.begin
             \/ /\ first <= AmazingData!Newest(c) + 1
                /\ kind.sync.start = "overlap" => first <= AmazingData!Newest(c) - Lookback
  BY <1>1, <1>2, <1>3, <1>5, <1>7
<1> QED BY <1>6, <1>7 DEF first

\* What the tasks of factors have in common.
LEMMA ADFactorIs ==
  ASSUME ADFactor
  PROVE  /\ kind.run.dated = FALSE /\ kind.run.together = FALSE /\ kind.run.codes = TRUE
         /\ kind.sync.start = "newest" /\ kind.sync.latest = "codes" /\ kind.sync.emptyAnswer = "failure"
         /\ kind.sync.insertion = "whole" /\ kind.sync.onlyNew = FALSE /\ kind.sync.skipsToday = "rows and checkpoint"
         /\ kind.fetch.errors = "raised" /\ kind.fetch.cuts = TRUE
<1> DEFINE factor == AmazingData!AdjFactor
<1>1. kind = factor
  BY DEF ADFactor, AmazingData!AdjFactor, AmazingData!BackwardFactor, AmazingData!RunBackwardFactor,
         AmazingData!SyncBackwardFactor, AmazingData!FetchBackwardFactorRowsByCode
<1>2. factor = [run |-> AmazingData!RunAdjFactor, sync |-> AmazingData!SyncAdjFactor,
                fetch |-> AmazingData!FetchAdjFactorRowsByCode, resumes |-> "never"]
  BY DEF AmazingData!AdjFactor, AmazingData!Task
<1>3. /\ AmazingData!RunAdjFactor.dated = FALSE /\ AmazingData!RunAdjFactor.together = FALSE
      /\ AmazingData!RunAdjFactor.codes = TRUE
  BY DEF AmazingData!RunAdjFactor, AmazingData!RunPerCodeTask
<1>4. /\ AmazingData!SyncAdjFactor.start = "newest" /\ AmazingData!SyncAdjFactor.latest = "codes"
      /\ AmazingData!SyncAdjFactor.emptyAnswer = "failure" /\ AmazingData!SyncAdjFactor.insertion = "whole"
      /\ AmazingData!SyncAdjFactor.onlyNew = FALSE /\ AmazingData!SyncAdjFactor.skipsToday = "rows and checkpoint"
  BY DEF AmazingData!SyncAdjFactor, AmazingData!SyncKline
<1>5. /\ AmazingData!FetchAdjFactorRowsByCode.cuts = TRUE
      /\ AmazingData!FetchAdjFactorRowsByCode.errors = "raised"
  BY DEF AmazingData!FetchAdjFactorRowsByCode, AmazingData!Everything, AmazingData!Sent
<1> HIDE DEF factor
<1> QED BY <1>1, <1>2, <1>3, <1>4, <1>5

\* A process without rows at hand holds nothing the tables could contradict.
LEMMA ADEmpty ==
  ASSUME ADTyped', ADWindow', ADFresh', ADUndated', AmazingData!CursorLosesNothing',
         ADFactor' => \A e \in log' : \A c \in e.scope.codes \intersect Codes :
                         (AmazingData!Newest(c) > 0 => e.on <= AmazingData!Newest(c) + 1)',
         run'.pc # "idle" => run'.pc \in {"filter", "code"} /\ run'.batch = {} /\ run'.rows = {}
  PROVE  ADInvariant'
<1>1. ADBatch'
  BY DEF ADBatch
<1>2. ADAnswered' /\ ADWhole' /\ ADSaved'
  BY DEF ADAnswered, ADWhole, ADSaved
<1>3. ADFactors'
  BY DEF ADFactors
<1> QED BY <1>1, <1>2, <1>3 DEF ADInvariant

\* The same rows have the same newest days.
LEMMA ADNewestSame == ASSUME table' = table PROVE \A c : AmazingData!Newest(c)' = AmazingData!Newest(c)
BY DEF AmazingData!Newest, AmazingData!Latest, AmazingData!Days

\* The process alone changes, and has no rows at hand.
LEMMA ADQuiet ==
  ASSUME ADInvariant, UNCHANGED <<today, kind, table, stale, log, leftOut>>,
         run' \in ADRun \union {AmazingData!Idle}, ADWindow',
         run'.pc # "idle" => run'.pc \in {"filter", "code"} /\ run'.batch = {} /\ run'.rows = {}
  PROVE  ADInvariant'
<1>1. ADTyped'
  BY DEF ADInvariant, ADTyped
<1>2. ADFresh' /\ ADUndated'
  BY DEF ADInvariant, ADFresh, ADUndated
<1>3. AmazingData!CursorLosesNothing'
  BY DEF ADInvariant, AmazingData!CursorLosesNothing, AmazingData!Newest, AmazingData!Latest, AmazingData!Days
<1>4. ADFactor' => \A e \in log' : \A c \in e.scope.codes \intersect Codes :
                      (AmazingData!Newest(c) > 0 => e.on <= AmazingData!Newest(c) + 1)'
  <2>1. \A c : AmazingData!Newest(c)' = AmazingData!Newest(c)
    BY ADNewestSame
  <2>2. ADFactor' = ADFactor
    BY DEF ADFactor
  <2> QED BY <2>1, <2>2 DEF ADInvariant, ADFactors
<1> QED BY <1>1, <1>2, <1>3, <1>4, ADEmpty

\* The process goes on with what it has at hand.
LEMMA ADGoesOn ==
  ASSUME ADInvariant, UNCHANGED <<today, kind, table, stale, log, leftOut>>, run.pc \in {"filter", "code"},
         NEW rest \in Seq(Codes), run' = [run EXCEPT !.pc = "code", !.todo = rest]
  PROVE  ADInvariant'
<1>1. run \in ADRun /\ run.pc # "idle"
  BY ADRunning DEF ADInvariant
<1>2. /\ run' \in ADRun /\ run'.pc = "code" /\ run'.begin = run.begin /\ run'.end = run.end
      /\ run'.batch = run.batch /\ run'.rows = run.rows /\ run'.force = run.force
  BY <1>1 DEF ADRun
<1>3. CASE run.pc = "filter"
  <2>1. run'.batch = {} /\ run'.rows = {}
    BY <1>2, <1>3 DEF ADInvariant, ADBatch
  <2>2. ADWindow'
    BY <1>1, <1>2 DEF ADInvariant, ADWindow
  <2> QED BY <1>2, <2>1, <2>2, ADQuiet
<1>4. CASE run.pc = "code"
  <2>1. ADTyped'
    BY <1>2 DEF ADInvariant, ADTyped
  <2>2. ADWindow'
    BY <1>1, <1>2 DEF ADInvariant, ADWindow
  <2>3. ADBatch'
    <3>1. \A c : AmazingData!Newest(c)' = AmazingData!Newest(c)
      BY ADNewestSame
    <3>2. \A e : ADDue(e) => ADDue(e)'
      BY <1>2, <3>1 DEF ADDue, ADListing
    <3> QED BY <1>1, <1>2, <1>4, <3>2 DEF ADInvariant, ADBatch
  <2>4. ADAnswered' /\ ADWhole' /\ ADSaved'
    BY <1>2, <1>4 DEF ADInvariant, ADAnswered, ADWhole, ADSaved, ADReported, ADRaised, ADListing
  <2>5. ADFresh' /\ ADUndated'
    BY DEF ADInvariant, ADFresh, ADUndated
  <2>6. ADFactors'
    <3>1. \A c : AmazingData!Newest(c)' = AmazingData!Newest(c)
      BY ADNewestSame
    <3>2. ADFactor' = ADFactor
      BY DEF ADFactor
    <3> QED BY <1>2, <1>4, <3>1, <3>2 DEF ADInvariant, ADFactors
  <2>7. AmazingData!CursorLosesNothing'
    BY DEF ADInvariant, AmazingData!CursorLosesNothing, AmazingData!Newest, AmazingData!Latest, AmazingData!Days
  <2> QED BY <2>1, <2>2, <2>3, <2>4, <2>5, <2>6, <2>7 DEF ADInvariant
<1> QED BY <1>3, <1>4

\* FinishTask and Killed keep the invariant.
LEMMA ADEnds == ASSUME ADInvariant, AmazingData!FinishTask \/ AmazingData!Killed PROVE ADInvariant'
<1>1. run' = AmazingData!Idle /\ UNCHANGED <<today, kind, table, stale, log, leftOut>>
  BY DEF AmazingData!FinishTask, AmazingData!Killed
<1>2. run'.pc = "idle" /\ run' \in ADRun \union {AmazingData!Idle}
  BY <1>1 DEF AmazingData!Idle
<1>3. ADWindow'
  BY <1>2 DEF ADWindow
<1> QED BY <1>1, <1>2, <1>3, ADQuiet

\* The codes to work on, under a limit too.
LEMMA ADTodo ==
  ASSUME NEW S \in SUBSET Codes, NEW limit \in {0, 1}
  PROVE  /\ AmazingData!SetToSeq(S) \in Seq(Codes)
         /\ AmazingData!SetToSeq(S) # <<>> => SubSeq(AmazingData!SetToSeq(S), 1, limit) \in Seq(Codes)
<1>1. IsFiniteSet(S)
  BY ProviderAssumption, FS_Subset
<1>2. AmazingData!SetToSeq(S) = SetToSeq(S)
  BY DEF AmazingData!SetToSeq, SetToSeq, AmazingData!Cardinality, Cardinality
<1>3. SetToSeq(S) \in [1..Cardinality(S) -> S] /\ Cardinality(S) \in Nat
  BY <1>1, SetToSeqLists
<1>4. SetToSeq(S) \in Seq(Codes)
  <2> DEFINE list == SetToSeq(S)
             n == Cardinality(S)
  <2>1. list \in [1..n -> S] /\ n \in Nat /\ S \subseteq Codes
    BY <1>3
  <2> HIDE DEF list, n
  <2>2. list \in Seq(Codes)
    BY <2>1
  <2> QED BY <2>2 DEF list
<1>5. ASSUME NEW list \in Seq(Codes), list # <<>> PROVE SubSeq(list, 1, limit) \in Seq(Codes)
  BY <1>5
<1> QED BY <1>2, <1>4, <1>5

\* StartRun keeps the invariant.
LEMMA ADStart ==
  ASSUME ADInvariant, NEW begin \in AmazingData!Days, NEW end \in AmazingData!Days, NEW limit \in {0, 1},
         NEW missing \in BOOLEAN, NEW force \in BOOLEAN, NEW resume \in BOOLEAN,
         AmazingData!StartRun(begin, end, limit, missing, force, resume)
  PROVE  ADInvariant'
<1>1. /\ UNCHANGED <<today, kind, table, stale, log, leftOut>>
      /\ begin <= end /\ end <= today /\ (~kind.run.dated => begin = 1)
  BY ProviderAssumption DEF AmazingData!StartRun, ADInvariant, ADTyped, AmazingData!Days
<1>2. AmazingData!Universe(missing) \in SUBSET Codes
  BY DEF AmazingData!Universe
<1>3. PICK todo \in Seq(Codes) :
         run' = [pc |-> "filter", begin |-> begin, end |-> end, force |-> force, resume |-> resume,
                 todo |-> todo, batch |-> {}, rows |-> {}]
  <2> DEFINE listed == AmazingData!SetToSeq(AmazingData!Universe(missing))
             todo == IF limit = 0 \/ listed = <<>> \/ ~kind.run.codes THEN listed ELSE SubSeq(listed, 1, limit)
  <2>1. listed \in Seq(Codes) /\ (listed # <<>> => SubSeq(listed, 1, limit) \in Seq(Codes))
    BY <1>2, ADTodo
  <2>2. run' = [pc |-> "filter", begin |-> begin, end |-> end, force |-> force, resume |-> resume,
                todo |-> todo, batch |-> {}, rows |-> {}]
    BY DEF AmazingData!StartRun
  <2> HIDE DEF listed
  <2>3. todo \in Seq(Codes)
    BY <2>1
  <2> QED BY <2>2, <2>3
<1>4. /\ run' \in ADRun /\ run'.pc = "filter" /\ run'.batch = {} /\ run'.rows = {}
      /\ run'.begin = begin /\ run'.end = end
  BY <1>3 DEF ADRun, AmazingData!Days
<1>5. ADWindow'
  BY <1>1, <1>4 DEF ADWindow
<1> QED BY <1>1, <1>4, <1>5, ADQuiet

\* FilterForResume keeps the invariant.
LEMMA ADFilter == ASSUME ADInvariant, AmazingData!FilterForResume PROVE ADInvariant'
<1> DEFINE left == {c \in Codes : ~(run.resume /\ AmazingData!DoneBefore(c))}
<1>1. /\ run.pc = "filter" /\ UNCHANGED <<today, kind, table, stale, log, leftOut>>
      /\ run' = [run EXCEPT !.pc = "code", !.todo = AmazingData!Among(run.todo, left)]
  BY DEF AmazingData!FilterForResume
<1>2. AmazingData!Among(run.todo, left) = Among(run.todo, left)
  BY DEF AmazingData!Among, Among
<1>3. run.todo \in Seq(Codes)
  BY <1>1, ADRunning DEF ADInvariant
<1> HIDE DEF left
<1>4. Among(run.todo, left) \in Seq(Codes)
  BY <1>3, AmongOrdered
<1> QED BY <1>1, <1>2, <1>4, ADGoesOn

\* What is asked for next, and what is left.
LEMMA ADRest ==
  ASSUME ADInvariant, AmazingData!Turn
  PROVE  /\ run.pc = "code" /\ run \in ADRun /\ AmazingData!Rest \in Seq(Codes)
         /\ AmazingData!Asked \in SUBSET Codes
         /\ ~AmazingData!Skipped => AmazingData!Asked # {}
<1>1. run.pc = "code" /\ run.todo # <<>>
  BY DEF AmazingData!Turn
<1>2. run \in ADRun /\ run.todo \in Seq(Codes)
  BY <1>1, ADRunning DEF ADInvariant
<1>3. Head(run.todo) \in Codes /\ Tail(run.todo) \in Seq(Codes)
  BY <1>1, <1>2, ListEnds
<1>4. AmazingData!Rest \in Seq(Codes)
  BY <1>3 DEF AmazingData!Rest
<1>5. AmazingData!Asked \in SUBSET Codes
  <2>1. AmazingData!ToSet(run.todo) \in SUBSET Codes
    BY <1>2 DEF AmazingData!ToSet
  <2> QED BY <1>3, <2>1 DEF AmazingData!Asked
<1> QED BY <1>1, <1>2, <1>4, <1>5 DEF AmazingData!Skipped

\* SkipCode keeps the invariant.
LEMMA ADSkip == ASSUME ADInvariant, AmazingData!SkipCode PROVE ADInvariant'
<1>1. /\ AmazingData!Turn /\ UNCHANGED <<today, kind, table, stale, log, leftOut>>
      /\ run' = [run EXCEPT !.todo = AmazingData!Rest]
  BY DEF AmazingData!SkipCode
<1>2. run.pc = "code" /\ run \in ADRun /\ AmazingData!Rest \in Seq(Codes)
  BY <1>1, ADRest
<1>3. run' = [run EXCEPT !.pc = "code", !.todo = AmazingData!Rest]
  BY <1>1, <1>2 DEF ADRun
<1> QED BY <1>1, <1>2, <1>3, ADGoesOn

\* FetchFails keeps the invariant.
LEMMA ADFails == ASSUME ADInvariant, AmazingData!FetchFails PROVE ADInvariant'
<1>1. /\ AmazingData!Turn /\ UNCHANGED <<today, kind, table, stale, log, leftOut>>
      /\ run' = AmazingData!Idle \/ run' = [run EXCEPT !.todo = AmazingData!Rest]
  BY DEF AmazingData!FetchFails, AmazingData!Requesting
<1>2. run.pc = "code" /\ run \in ADRun /\ AmazingData!Rest \in Seq(Codes)
  BY <1>1, ADRest
<1>3. CASE run' = AmazingData!Idle
  <2>1. run'.pc = "idle" /\ ADWindow'
    BY <1>3 DEF AmazingData!Idle, ADWindow
  <2> QED BY <1>1, <1>3, <2>1, ADQuiet
<1>4. CASE run' = [run EXCEPT !.todo = AmazingData!Rest]
  <2>1. run' = [run EXCEPT !.pc = "code", !.todo = AmazingData!Rest]
    BY <1>2, <1>4 DEF ADRun
  <2> QED BY <1>1, <1>2, <2>1, ADGoesOn
<1> QED BY <1>1, <1>3, <1>4

\* The days that an answer may have.
ADDays(first) ==
    IF kind.fetch.sends \/ kind.fetch.cuts THEN first..(IF kind.run.dated THEN run.end ELSE today) ELSE 1..today

\* An answer has the days asked for, all of them or those that have passed, unless an error is
\* reported as an empty answer.
LEMMA ADAnswer ==
  ASSUME ADInvariant, AmazingData!Requesting, NEW answer \in AmazingData!Answers
  PROVE  LET first == AmazingData!SyncStart(AmazingData!Asked)
             asked == AmazingData!Asked \X {d \in ADDays(first) : d >= first}
         IN  IF ADListing THEN answer = AmazingData!Asked \X {today}
             ELSE /\ answer \subseteq asked
                  /\ ADReported => answer = {} \/ answer = asked \/ answer = {x \in asked : x[2] < today}
                  /\ ADRaised => answer = asked \/ answer = {x \in asked : x[2] < today}
<1> DEFINE first == AmazingData!SyncStart(AmazingData!Asked)
           last == IF kind.run.dated THEN run.end ELSE today
           whole == AmazingData!Asked \X ADDays(first)
           asked == AmazingData!Asked \X {d \in ADDays(first) : d >= first}
           fetched == AmazingData!Fetched(kind.fetch, AmazingData!Asked, first, last, today)
<1>1. CASE ADListing
  BY <1>1 DEF AmazingData!Answers, ADListing
<1>2. CASE ~ADListing
  <2>1. PICK rows \in fetched : answer = {x \in rows : x[2] >= first}
    BY <1>2 DEF AmazingData!Answers, ADListing
  <2>2. /\ rows \subseteq whole
        /\ ADReported => rows = {} \/ rows = whole \/ rows = {x \in whole : x[2] < today}
        /\ ADRaised => rows = whole \/ rows = {x \in whole : x[2] < today}
    BY <2>1 DEF AmazingData!Fetched, ADDays, ADReported, ADRaised
  <2>3. {x \in whole : x[2] >= first} = asked
    OBVIOUS
  <2> HIDE DEF whole, asked, fetched, first
  <2>4. answer \subseteq asked
    BY <2>1, <2>2, <2>3
  <2>5. ASSUME rows = {x \in whole : x[2] < today} PROVE answer = {x \in asked : x[2] < today}
    BY <2>1, <2>3, <2>5
  <2>6. ADReported => answer = {} \/ answer = asked \/ answer = {x \in asked : x[2] < today}
    BY <2>1, <2>2, <2>3, <2>5
  <2>7. ADRaised => answer = asked \/ answer = {x \in asked : x[2] < today}
    BY <2>1, <2>2, <2>3, <2>5
  <2> QED BY <1>2, <2>4, <2>6, <2>7 DEF asked, first
<1> QED BY <1>1, <1>2

\* Fetch keeps the invariant.
LEMMA ADFetch ==
  ASSUME ADInvariant, AmazingData!Requesting, NEW answer \in AmazingData!Answers, AmazingData!Fetch(answer)
  PROVE  ADInvariant'
<1>1. /\ AmazingData!Turn /\ ~AmazingData!Skipped
      /\ UNCHANGED <<today, kind, table, stale, log, leftOut>>
      /\ kind.sync.emptyAnswer = "failure" => answer # {}
  BY DEF AmazingData!Fetch, AmazingData!Requesting
<1>2. /\ run.pc = "code" /\ run \in ADRun /\ AmazingData!Rest \in Seq(Codes)
      /\ AmazingData!Asked \in SUBSET Codes /\ AmazingData!Asked # {}
  BY <1>1, ADRest
<1>3. PICK codes \in SUBSET Codes : codes = AmazingData!Asked
  BY <1>2
<1>4. PICK first \in Nat \ {0} : first = AmazingData!SyncStart(codes)
  BY <1>2, <1>3, ADStarts DEF ADInvariant
<1>5. PICK rest \in Seq(Codes) : rest = AmazingData!Rest
  BY <1>2
<1> DEFINE entry == [codes |-> codes, first |-> first, on |-> today]
           asked == codes \X {d \in ADDays(first) : d >= first}
<1>6. run' = [run EXCEPT !.todo = rest, !.rows = run.rows \union answer, !.batch = run.batch \union {entry}]
  BY <1>3, <1>4, <1>5 DEF AmazingData!Fetch
<1>7. /\ run.begin \in 1..LastDay /\ run.end \in 1..LastDay /\ LastDay \in Nat /\ today \in 1..LastDay
      /\ run.batch \in SUBSET ADEntry /\ run.rows \in SUBSET (Codes \X (1..LastDay))
      /\ run.begin <= run.end /\ run.end <= today
  BY <1>2, ADRunning DEF ADInvariant, ADTyped, ADWindow
<1>8. /\ ADListing => answer = codes \X {today}
      /\ ~ADListing => answer \subseteq asked
      /\ ADReported => answer = {} \/ answer = asked \/ answer = {x \in asked : x[2] < today}
      /\ ADRaised => answer = asked \/ answer = {x \in asked : x[2] < today}
  <2>1. ADReported => ~ADListing
    BY DEF ADReported
  <2>2. ADRaised => ~ADListing
    BY DEF ADRaised
  <2> QED BY <1>3, <1>4, <2>1, <2>2, ADAnswer
<1>9. ADDays(first) \subseteq 1..LastDay
  BY <1>7 DEF ADDays
<1>10. answer \in SUBSET (Codes \X (1..LastDay))
  BY <1>7, <1>8, <1>9
<1>11. entry \in ADEntry
  BY <1>7 DEF ADEntry
<1>12. /\ run' \in ADRun /\ run'.pc = "code" /\ run'.begin = run.begin /\ run'.end = run.end
       /\ run'.rows = run.rows \union answer /\ run'.batch = run.batch \union {entry}
  <2>1. PICK rows \in SUBSET (Codes \X (1..LastDay)) : rows = run.rows \union answer
    BY <1>7, <1>10
  <2>2. PICK batch \in SUBSET ADEntry : batch = run.batch \union {entry}
    BY <1>7, <1>11
  <2>3. run' = [run EXCEPT !.todo = rest, !.rows = rows, !.batch = batch]
    BY <1>6, <2>1, <2>2
  <2> HIDE DEF entry
  <2> QED BY <1>2, <2>1, <2>2, <2>3 DEF ADRun
<1>13. \A c : AmazingData!Newest(c)' = AmazingData!Newest(c)
  BY <1>1, ADNewestSame
<1>14. ADTyped'
  BY <1>1, <1>12 DEF ADInvariant, ADTyped
<1>15. ADWindow'
  BY <1>1, <1>2, <1>12 DEF ADInvariant, ADWindow
<1>16. ADBatch'
  <2>1. ADDue(entry)
    <3>1. entry.codes = codes /\ entry.first = first
      OBVIOUS
    <3>2. ~ADListing /\ kind.sync.latest # "table" =>
             \A c \in codes :
                \/ first = run.begin
                \/ /\ first <= AmazingData!Newest(c) + 1
                   /\ kind.sync.start = "overlap" => first <= AmazingData!Newest(c) - Lookback
      BY <1>2, <1>3, <1>4, ADStarts DEF ADInvariant
    <3> HIDE DEF entry
    <3> QED BY <3>1, <3>2 DEF ADDue
  <2>2. \A e : ADDue(e)' <=> ADDue(e)
    BY <1>1, <1>12, <1>13 DEF ADDue, ADListing
  <2>3. entry.on = today
    OBVIOUS
  <2> HIDE DEF entry
  <2>4. \A e \in run'.batch : e.on <= today' /\ ADDue(e)'
    BY <1>1, <1>2, <1>7, <1>12, <2>1, <2>2, <2>3 DEF ADInvariant, ADBatch
  <2> QED BY <1>12, <2>4 DEF ADBatch
<1>17. ADAnswered'
  <2> SUFFICES ASSUME ADReported, NEW x \in run.rows \union answer
               PROVE  \E e \in run.batch \union {entry} :
                         /\ x[1] \in e.codes /\ e.first <= x[2]
                         /\ \A d \in e.first..x[2] : <<x[1], d>> \in run.rows \union answer
    BY <1>1, <1>12 DEF ADAnswered, ADReported, ADListing
  <2>1. CASE x \in run.rows
    BY <1>2, <2>1 DEF ADInvariant, ADAnswered
  <2>2. CASE x \in answer
    <3>1. answer = asked \/ answer = {y \in asked : y[2] < today}
      BY <1>8, <2>2
    <3>2. x \in asked
      BY <2>2, <3>1
    <3>3. x[1] \in codes /\ x[2] \in ADDays(first) /\ first <= x[2] /\ x[2] \in Nat
      BY <1>7, <1>9, <3>2
    <3>4. \A d \in first..x[2] : d \in ADDays(first)
      BY <1>7, <3>3 DEF ADDays
    <3>5. \A d \in first..x[2] : <<x[1], d>> \in answer
      <4> SUFFICES ASSUME NEW d \in first..x[2] PROVE <<x[1], d>> \in answer
        OBVIOUS
      <4>1. <<x[1], d>> \in asked
        BY <3>3, <3>4
      <4>2. x[2] < today => d < today
        BY <1>7, <3>3
      <4> HIDE DEF asked
      <4> QED BY <2>2, <3>1, <4>1, <4>2
    <3>6. entry.codes = codes /\ entry.first = first
      OBVIOUS
    <3> HIDE DEF entry, asked
    <3> QED BY <3>3, <3>5, <3>6
  <2> QED BY <2>1, <2>2
<1>18. ADWhole'
  <2> SUFFICES ASSUME ADRaised, NEW e \in run.batch \union {entry}, NEW c \in e.codes, NEW d \in e.first..run.end - 1
               PROVE  <<c, d>> \in run.rows \union answer
    BY <1>1, <1>12 DEF ADWhole, ADRaised, ADListing
  <2>1. CASE e \in run.batch
    BY <1>2, <2>1 DEF ADInvariant, ADWhole
  <2>2. CASE e = entry
    <3>1. c \in codes /\ d \in first..run.end - 1
      BY <2>2
    <3>2. d \in ADDays(first) /\ d >= first /\ d < today
      BY <1>7, <3>1 DEF ADDays
    <3>3. <<c, d>> \in asked
      BY <3>1, <3>2
    <3> HIDE DEF asked
    <3> QED BY <1>8, <3>2, <3>3
  <2> QED BY <2>1, <2>2
<1>19. ADSaved' /\ ADFresh' /\ ADUndated'
  BY <1>1, <1>12 DEF ADInvariant, ADSaved, ADFresh, ADUndated
<1>20. ADFactors'
  <2> SUFFICES ASSUME ADFactor PROVE ADFactors'
    BY <1>1 DEF ADFactors, ADFactor
  <2>1. \A l \in log : l.on <= today
    BY DEF ADInvariant, ADTyped
  <2>2. \A c \in codes : \E x \in answer : x[1] = c /\ today <= x[2] + 1
    <3>1. ~kind.run.dated /\ kind.fetch.cuts /\ ADRaised /\ answer # {}
      BY <1>1, ADFactorIs DEF ADRaised, ADListing
    <3>2. ADDays(first) = first..today
      BY <3>1 DEF ADDays
    <3>3. CASE answer = asked
      <4>1. first <= today
        BY <1>7, <3>1, <3>2, <3>3
      <4>2. \A c \in codes : <<c, today>> \in asked
        BY <1>7, <3>2, <4>1
      <4> HIDE DEF asked
      <4>3. today <= today + 1
        BY <1>7
      <4> QED BY <3>3, <4>2, <4>3
    <3>4. CASE answer = {x \in asked : x[2] < today}
      <4>1. first <= today - 1 /\ today - 1 \in Int
        BY <1>7, <3>1, <3>2, <3>4
      <4>2. PICK d \in Int : d = today - 1
        BY <4>1
      <4>3. d < today /\ today <= d + 1 /\ d >= first
        BY <1>7, <4>1, <4>2
      <4>4. d \in first..today
        BY <1>7, <4>3
      <4>5. \A c \in codes : <<c, d>> \in asked
        BY <3>2, <4>3, <4>4
      <4> HIDE DEF asked
      <4>6. \A c \in codes : <<c, d>> \in answer
        BY <3>4, <4>3, <4>5
      <4> QED BY <4>3, <4>6
    <3> QED BY <1>8, <3>1, <3>3, <3>4
  <2>3. entry.codes = codes /\ entry.on = today
    OBVIOUS
  <2> HIDE DEF entry
  <2>4. \A e \in run'.batch :
           /\ \A l \in log' : l.on <= e.on
           /\ \A c \in e.codes : \E x \in run'.rows : x[1] = c /\ e.on <= x[2] + 1
    <3>1. \A e \in run.batch :
             /\ \A l \in log : l.on <= e.on
             /\ \A c \in e.codes : \E x \in run.rows : x[1] = c /\ e.on <= x[2] + 1
      BY <1>2 DEF ADInvariant, ADFactors
    <3> QED BY <1>1, <1>12, <2>1, <2>2, <2>3, <3>1
  <2>5. \A e \in log' : \A c \in e.scope.codes \intersect Codes :
           (AmazingData!Newest(c) > 0 => e.on <= AmazingData!Newest(c) + 1)'
    BY <1>1, <1>13 DEF ADInvariant, ADFactors
  <2> QED BY <1>12, <2>4, <2>5 DEF ADFactors
<1>21. AmazingData!CursorLosesNothing'
  BY <1>1, <1>13 DEF ADInvariant, AmazingData!CursorLosesNothing, AmazingData!Days
<1> QED BY <1>14, <1>15, <1>16, <1>17, <1>18, <1>19, <1>20, <1>21 DEF ADInvariant

\* The days that a request passes over are before the begin_date.
LEMMA ADPassedOver ==
  ASSUME ADInvariant, run.pc = "code", NEW e \in run.batch
  PROVE  /\ kind.sync.latest # "table" /\ ~kind.run.dated => AmazingData!PassedOver(e) = {}
         /\ ~ADListing =>
               \A x \in run.rows, d \in 1..LastDay :
                  /\ x[1] \in e.codes /\ AmazingData!Newest(x[1]) < d
                  /\ d < e.first /\ (kind.sync.latest # "table" => d < run.begin)
                  => <<x[1], d>> \in AmazingData!PassedOver(e)
<1>1. run \in ADRun /\ run.begin \in 1..LastDay /\ LastDay \in Nat
  BY ADRunning DEF ADInvariant
<1>2. ~kind.run.dated => run.begin = 1
  BY DEF ADInvariant, ADWindow
<1>3. ASSUME kind.sync.latest # "table", ~kind.run.dated PROVE AmazingData!PassedOver(e) = {}
  <2>1. ~\E d \in 1..LastDay : d < run.begin
    BY <1>1, <1>2, <1>3
  <2> QED BY <1>3, <2>1 DEF AmazingData!PassedOver, AmazingData!Days
<1>4. ASSUME ~ADListing, NEW x \in run.rows, NEW d \in 1..LastDay,
             x[1] \in e.codes, AmazingData!Newest(x[1]) < d, d < e.first, kind.sync.latest # "table" => d < run.begin
      PROVE  <<x[1], d>> \in AmazingData!PassedOver(e)
  <2> DEFINE row == <<x[1], d>>
             until == IF kind.sync.latest = "table" THEN e.first ELSE run.begin
  <2>1. row \in {y[1] : y \in run.rows} \X AmazingData!Days
    BY <1>4 DEF AmazingData!Days
  <2>2. row[1] \in e.codes /\ AmazingData!Newest(row[1]) < row[2] /\ row[2] < until
    BY <1>4
  <2>3. AmazingData!PassedOver(e) =
           {y \in {z[1] : z \in run.rows} \X AmazingData!Days :
               y[1] \in e.codes /\ AmazingData!Newest(y[1]) < y[2] /\ y[2] < until}
    BY <1>4 DEF AmazingData!PassedOver, ADListing
  <2> HIDE DEF row, until
  <2> QED BY <2>1, <2>2, <2>3 DEF row
<1> QED BY <1>3, <1>4

\* SaveRows keeps the invariant, be it of all rows or of some codes.
LEMMA ADSave ==
  ASSUME ADInvariant, NEW part \in SUBSET run.rows, AmazingData!SaveRows(part)
  PROVE  ADInvariant'
<1>1. /\ run.pc = "code" /\ run.batch # {} /\ UNCHANGED <<today, kind, log>>
      /\ table' = table \union part /\ stale' = stale \ part
      /\ part = {} => leftOut' = leftOut
      /\ part # {} => leftOut' = leftOut \union UNION {AmazingData!PassedOver(e) : e \in run.batch}
      /\ kind.sync.insertion = "by month" => \A x \in part, y \in run.rows \ part : x[2] < y[2]
      /\ kind.sync.insertion # "by month" => part \in {{}, run.rows}
  BY DEF AmazingData!SaveRows, AmazingData!Saving
<1>2. /\ run \in ADRun /\ run.begin \in 1..LastDay /\ run.end \in 1..LastDay /\ LastDay \in Nat
      /\ run.batch \in SUBSET ADEntry /\ run.rows \in SUBSET (Codes \X (1..LastDay))
      /\ table \in SUBSET (Codes \X (1..LastDay))
  BY <1>1, ADRunning DEF ADInvariant, ADTyped
<1>3. /\ run' \in ADRun \union {AmazingData!Idle}
      /\ run' # AmazingData!Idle =>
            /\ run'.begin = run.begin /\ run'.end = run.end /\ run'.rows = {}
            /\ \/ run'.pc = "code" /\ run'.batch = {}
               \/ run'.pc = "log" /\ run'.batch = run.batch /\ part = run.rows
  BY <1>1, <1>2 DEF AmazingData!SaveRows, ADRun
<1>4. run'.pc # "idle" => run' # AmazingData!Idle
  BY DEF AmazingData!Idle
<1>5. table' \in SUBSET (Codes \X (1..LastDay)) /\ leftOut \subseteq leftOut' /\ table \subseteq table' /\ part \subseteq table'
  BY <1>1, <1>2
<1>6. \A c : /\ AmazingData!Newest(c) \in Nat /\ AmazingData!Newest(c)' \in Nat
             /\ AmazingData!Newest(c) <= AmazingData!Newest(c)'
             /\ AmazingData!Newest(c)' # AmazingData!Newest(c) => <<c, AmazingData!Newest(c)'>> \in part
  <2> SUFFICES ASSUME NEW c
               PROVE  /\ AmazingData!Newest(c) \in Nat /\ AmazingData!Newest(c)' \in Nat
                      /\ AmazingData!Newest(c) <= AmazingData!Newest(c)'
                      /\ AmazingData!Newest(c)' # AmazingData!Newest(c) => <<c, AmazingData!Newest(c)'>> \in part
    OBVIOUS
  <2>1. AmazingData!Newest(c) = ADNewest(table, c)
    BY ADNewestIs
  <2>2. AmazingData!Newest(c)' = ADNewest(table', c)
    BY DEF AmazingData!Newest, AmazingData!Latest, AmazingData!Days, ADNewest, LatestIn
  <2>3. /\ ADNewest(table, c) \in Nat /\ ADNewest(table', c) \in Nat
        /\ ADNewest(table, c) <= ADNewest(table', c)
        /\ ADNewest(table', c) # ADNewest(table, c) => <<c, ADNewest(table', c)>> \in table' \ table
    BY <1>2, <1>5, ADNewestGrows
  <2> QED BY <1>1, <2>1, <2>2, <2>3
<1>7. ADTyped'
  BY <1>1, <1>3, <1>5 DEF ADInvariant, ADTyped
<1>8. ADWindow'
  BY <1>1, <1>3, <1>4 DEF ADInvariant, ADWindow
<1>9. ADFresh'
  BY <1>1 DEF ADInvariant, ADFresh
<1>10. ADUndated'
  <2> SUFFICES ASSUME ~kind.run.dated, kind.sync.latest # "table" PROVE leftOut' = {}
    BY <1>1 DEF ADUndated
  <2>1. \A e \in run.batch : AmazingData!PassedOver(e) = {}
    BY <1>1, ADPassedOver
  <2>2. leftOut = {}
    BY DEF ADInvariant, ADUndated
  <2> QED BY <1>1, <2>1, <2>2
<1>11. \A c \in Codes : \A d \in 1..LastDay :
          ADReported /\ AmazingData!Newest(c) < d /\ d <= AmazingData!Newest(c)' => <<c, d>> \in table' \union leftOut'
  <2> SUFFICES ASSUME ADReported, NEW c \in Codes, NEW d \in 1..LastDay,
                      AmazingData!Newest(c) < d, d <= AmazingData!Newest(c)'
               PROVE  <<c, d>> \in table' \union leftOut'
    OBVIOUS
  <2>1. PICK n \in Nat : n = AmazingData!Newest(c)'
    BY <1>6
  <2>2. <<c, n>> \in part /\ AmazingData!Newest(c) \in Nat /\ d <= n /\ n \in 1..LastDay
    <3>1. n # AmazingData!Newest(c)
      BY <1>6, <2>1
    <3>2. <<c, n>> \in part
      BY <1>6, <2>1, <3>1
    <3> QED BY <1>2, <1>6, <2>1, <3>2
  <2>3. PICK x \in part : x = <<c, n>>
    BY <2>2
  <2>4. PICK e \in run.batch : c \in e.codes /\ e.first <= n /\ \A f \in e.first..n : <<c, f>> \in run.rows
    BY <1>1, <2>3 DEF ADInvariant, ADAnswered
  <2>5. e.first \in Nat
    BY <1>2 DEF ADEntry
  <2>6. CASE e.first <= d
    <3>1. <<c, d>> \in run.rows
      BY <2>2, <2>4, <2>5, <2>6
    <3>2. PICK y \in run.rows : y = <<c, d>>
      BY <3>1
    <3>3. y \in part
      <4>1. ~(x[2] < y[2])
        BY <2>2, <2>3, <3>2
      <4>2. part # {}
        BY <2>3
      <4> QED BY <1>1, <2>3, <4>1, <4>2
    <3> QED BY <1>5, <3>2, <3>3
  <2>7. CASE ~(e.first <= d)
    <3>1. ~ADListing /\ d < e.first
      BY <2>5, <2>7 DEF ADReported
    <3>2. ADDue(e)
      BY <1>1 DEF ADInvariant, ADBatch
    <3>3. kind.sync.latest # "table" => d < run.begin
      BY <1>2, <2>2, <2>4, <2>5, <3>1, <3>2 DEF ADDue
    <3>4. <<x[1], d>> \in AmazingData!PassedOver(e)
      <4>1. x \in run.rows /\ x[1] = c
        BY <2>3
      <4> QED BY <1>1, <2>4, <3>1, <3>3, <4>1, ADPassedOver
    <3>5. x[1] = c /\ part # {}
      BY <2>3
    <3> QED BY <1>1, <3>4, <3>5
  <2> QED BY <2>6, <2>7
<1>12. AmazingData!CursorLosesNothing'
  <2>1. ADReported => \A c \in Codes, d \in 1..LastDay : d <= AmazingData!Newest(c) => <<c, d>> \in table \union leftOut
    BY DEF ADInvariant, AmazingData!CursorLosesNothing, AmazingData!Days, ADReported, ADListing
  <2>2. ADReported => \A c \in Codes, d \in 1..LastDay : d <= AmazingData!Newest(c)' => <<c, d>> \in table' \union leftOut'
    <3> SUFFICES ASSUME ADReported, NEW c \in Codes, NEW d \in 1..LastDay, d <= AmazingData!Newest(c)'
                 PROVE  <<c, d>> \in table' \union leftOut'
      OBVIOUS
    <3>4. AmazingData!Newest(c) \in Nat
      BY <1>6
    <3>5. d \in Nat
      BY <1>2
    <3>1. d <= AmazingData!Newest(c) \/ AmazingData!Newest(c) < d
      BY <3>4, <3>5
    <3>2. CASE d <= AmazingData!Newest(c)
      <4>1. <<c, d>> \in table \union leftOut
        BY <2>1, <3>2
      <4> QED BY <1>5, <4>1
    <3>3. CASE AmazingData!Newest(c) < d
      BY <1>11, <3>3
    <3> QED BY <3>1, <3>2, <3>3
  <2> QED BY <1>1, <2>2 DEF AmazingData!CursorLosesNothing, AmazingData!Days, ADReported, ADListing
<1>13. ADFactor =>
          /\ \A e \in log : \A c \in e.scope.codes \intersect Codes :
                (AmazingData!Newest(c) > 0 => e.on <= AmazingData!Newest(c) + 1)'
          /\ part = run.rows => \A e \in run.batch : \A c \in e.codes : e.on <= AmazingData!Newest(c)' + 1
  <2> SUFFICES ASSUME ADFactor
               PROVE  /\ \A e \in log : \A c \in e.scope.codes \intersect Codes :
                            (AmazingData!Newest(c) > 0 => e.on <= AmazingData!Newest(c) + 1)'
                      /\ part = run.rows => \A e \in run.batch : \A c \in e.codes : e.on <= AmazingData!Newest(c)' + 1
    OBVIOUS
  <2>1. part = {} \/ part = run.rows
    BY <1>1, ADFactorIs
  <2>2. \A e \in run.batch : e.on \in Nat /\ e.codes \in SUBSET Codes
    BY <1>2 DEF ADEntry
  <2>3. ASSUME part = run.rows, NEW e \in run.batch, NEW c \in e.codes PROVE e.on <= AmazingData!Newest(c)' + 1
    <3>1. PICK x \in run.rows : x[1] = c /\ e.on <= x[2] + 1
      BY <1>1 DEF ADInvariant, ADFactors
    <3>2. x = <<c, x[2]>> /\ x[2] \in 1..LastDay
      BY <1>2, <3>1
    <3>3. <<c, x[2]>> \in table'
      BY <1>5, <2>3, <3>2
    <3>4. AmazingData!Newest(c)' = ADNewest(table', c)
      BY DEF AmazingData!Newest, AmazingData!Latest, AmazingData!Days, ADNewest, LatestIn
    <3>5. x[2] <= AmazingData!Newest(c)'
      BY <1>5, <3>2, <3>3, <3>4, ADNewestDay
    <3>6. PICK n \in Nat : n = AmazingData!Newest(c)'
      BY <1>6
    <3>7. e.on \in Nat /\ x[2] \in Nat /\ x[2] <= n
      BY <1>2, <2>2, <3>2, <3>5, <3>6
    <3>8. e.on <= n + 1
      BY <3>1, <3>6, <3>7
    <3> QED BY <3>6, <3>8
  <2>4. ASSUME NEW l \in log, NEW c \in l.scope.codes \intersect Codes, AmazingData!Newest(c)' > 0
        PROVE  l.on <= AmazingData!Newest(c)' + 1
    <3>1. CASE AmazingData!Newest(c)' = AmazingData!Newest(c)
      <4>1. AmazingData!Newest(c) > 0
        BY <2>4, <3>1
      <4> QED BY <3>1, <4>1 DEF ADInvariant, ADFactors
    <3>2. CASE AmazingData!Newest(c)' # AmazingData!Newest(c)
      <4>1. <<c, AmazingData!Newest(c)'>> \in part
        BY <1>6, <3>2
      <4>2. PICK x \in part : x[1] = c
        BY <4>1
      <4>3. part = run.rows
        BY <2>1, <4>2
      <4>4. ADReported
        BY ADFactorIs DEF ADReported, ADListing
      <4>5. PICK e \in run.batch : c \in e.codes
        BY <1>1, <4>2, <4>4 DEF ADInvariant, ADAnswered
      <4>6. e.on <= AmazingData!Newest(c)' + 1
        BY <2>3, <4>3, <4>5
      <4>7. l.on <= e.on
        BY <1>1, <4>5 DEF ADInvariant, ADFactors
      <4>8. l.on \in 1..LastDay
        BY DEF ADInvariant, ADTyped
      <4>9. PICK n \in Nat : n = AmazingData!Newest(c)'
        BY <1>6
      <4>10. e.on \in Nat /\ e.on <= n + 1
        BY <2>2, <4>5, <4>6, <4>9
      <4>11. l.on <= n + 1
        BY <1>2, <4>7, <4>8, <4>10
      <4> QED BY <4>9, <4>11
    <3> QED BY <3>1, <3>2
  <2> QED BY <2>3, <2>4
<1>14. CASE run'.pc # "log"
  <2>1. run'.pc # "idle" => run'.pc \in {"filter", "code"} /\ run'.batch = {} /\ run'.rows = {}
    BY <1>3, <1>4, <1>14
  <2>2. ADFactor' => \A e \in log' : \A c \in e.scope.codes \intersect Codes :
                        (AmazingData!Newest(c) > 0 => e.on <= AmazingData!Newest(c) + 1)'
    <3>1. ADFactor' = ADFactor
      BY <1>1 DEF ADFactor
    <3> QED BY <1>1, <1>13, <3>1
  <2> QED BY <1>7, <1>8, <1>9, <1>10, <1>12, <2>1, <2>2, ADEmpty
<1>15. CASE run'.pc = "log"
  <2>1. /\ run'.pc # "idle" /\ run'.begin = run.begin /\ run'.end = run.end /\ run'.rows = {}
        /\ run'.batch = run.batch /\ part = run.rows
    BY <1>3, <1>4, <1>15
  <2>2. ADBatch'
    <3>1. ASSUME NEW e \in run.batch PROVE ADDue(e)'
      <4>1. ADDue(e) /\ e.first \in Nat /\ Lookback \in Nat
        BY <1>1, <1>2, ProviderAssumption DEF ADInvariant, ADBatch, ADEntry
      <4> SUFFICES ASSUME ~ADListing, kind.sync.latest # "table", NEW c \in e.codes
                   PROVE  \/ e.first = run.begin
                          \/ /\ e.first <= AmazingData!Newest(c)' + 1
                             /\ kind.sync.start = "overlap" => e.first <= AmazingData!Newest(c)' - Lookback
        BY <1>1, <2>1 DEF ADDue, ADListing
      <4>2. \/ e.first = run.begin
            \/ /\ e.first <= AmazingData!Newest(c) + 1
               /\ kind.sync.start = "overlap" => e.first <= AmazingData!Newest(c) - Lookback
        BY <4>1 DEF ADDue
      <4>3. /\ AmazingData!Newest(c) \in Nat /\ AmazingData!Newest(c)' \in Nat
            /\ AmazingData!Newest(c) <= AmazingData!Newest(c)'
        BY <1>6
      <4> QED BY <4>1, <4>2, <4>3
    <3>2. \A e \in run'.batch : e.on <= today' /\ ADDue(e)'
      BY <1>1, <2>1, <3>1 DEF ADInvariant, ADBatch
    <3> QED BY <1>15, <2>1, <3>2 DEF ADBatch
  <2>3. ADAnswered' /\ ADWhole'
    BY <1>15 DEF ADAnswered, ADWhole
  <2>4. ADSaved'
    <3>1. ADRaised => \A e \in run.batch : \A c \in e.codes, d \in e.first..run.end - 1 : <<c, d>> \in part
      BY <1>1, <2>1 DEF ADInvariant, ADWhole
    <3> QED BY <1>1, <2>1, <3>1 DEF ADSaved, ADRaised, ADListing
  <2>5. ADFactors'
    <3>1. ADFactor' = ADFactor
      BY <1>1 DEF ADFactor
    <3> QED BY <1>1, <1>13, <1>15, <2>1, <3>1 DEF ADFactors
  <2> QED BY <1>7, <1>8, <1>9, <1>10, <1>12, <2>2, <2>3, <2>4, <2>5 DEF ADInvariant
<1> QED BY <1>14, <1>15

\* LogSuccess and LogFails keep the invariant.
LEMMA ADLog ==
  ASSUME ADInvariant, NEW entry \in run.batch, AmazingData!LogSuccess(entry) \/ AmazingData!LogFails(entry)
  PROVE  ADInvariant'
<1>1. /\ run.pc = "log" /\ UNCHANGED <<today, kind, table, stale, leftOut>>
      /\ run' = [run EXCEPT !.batch = run.batch \ {entry}, !.pc = IF run.batch = {entry} THEN "code" ELSE "log"]
  BY DEF AmazingData!LogSuccess, AmazingData!LogFails, AmazingData!Logged
<1>14. \A l \in log' : l \in log \/ (l.on = entry.on /\ l.scope.codes = entry.codes)
  <2>1. CASE AmazingData!LogSuccess(entry)
    <3>1. AmazingData!Scope(entry.codes, entry.first).codes = entry.codes
      BY DEF AmazingData!Scope
    <3>2. log' = log \union {[scope |-> AmazingData!Scope(entry.codes, entry.first), on |-> entry.on]}
      BY <2>1 DEF AmazingData!LogSuccess
    <3> QED BY <3>1, <3>2
  <2>2. CASE AmazingData!LogFails(entry)
    BY <2>2 DEF AmazingData!LogFails
  <2> QED BY <2>1, <2>2
<1>2. run \in ADRun /\ run.batch \in SUBSET ADEntry /\ run.rows = {}
  BY <1>1, ADRunning DEF ADInvariant, ADBatch
<1>3. /\ run' \in ADRun /\ run'.batch = run.batch \ {entry} /\ run'.begin = run.begin /\ run'.end = run.end
      /\ run'.rows = {} /\ run'.pc \in {"code", "log"} /\ (run'.pc = "code" => run'.batch = {})
  BY <1>1, <1>2 DEF ADRun
<1>4. entry.on \in 1..LastDay /\ entry.on <= today
  BY <1>1, <1>2 DEF ADInvariant, ADBatch, ADEntry
<1>5. \A c : AmazingData!Newest(c)' = AmazingData!Newest(c)
  BY <1>1, ADNewestSame
<1>6. ADTyped'
  BY <1>1, <1>3, <1>4, <1>14 DEF ADInvariant, ADTyped
<1>7. ADWindow'
  BY <1>1, <1>3 DEF ADInvariant, ADWindow
<1>8. ADBatch'
  <2>1. \A e : ADDue(e)' <=> ADDue(e)
    BY <1>1, <1>3, <1>5 DEF ADDue, ADListing
  <2> QED BY <1>1, <1>3, <2>1 DEF ADInvariant, ADBatch
<1>9. ADAnswered' /\ ADWhole'
  BY <1>3 DEF ADAnswered, ADWhole
<1>10. ADSaved'
  BY <1>1, <1>3 DEF ADInvariant, ADSaved, ADRaised, ADListing
<1>11. ADFresh' /\ ADUndated'
  BY <1>1 DEF ADInvariant, ADFresh, ADUndated
<1>12. ADFactors'
  <2> SUFFICES ASSUME ADFactor PROVE ADFactors'
    BY <1>1 DEF ADFactors, ADFactor
  <2>1. \A e \in run.batch : \A c \in e.codes : e.on <= AmazingData!Newest(c) + 1
    BY <1>1 DEF ADInvariant, ADFactors
  <2>2. \A l \in log' : \A c \in l.scope.codes \intersect Codes :
           AmazingData!Newest(c)' > 0 => l.on <= AmazingData!Newest(c)' + 1
    BY <1>1, <1>5, <1>14, <2>1 DEF ADInvariant, ADFactors
  <2> QED BY <1>3, <1>5, <2>1, <2>2 DEF ADFactors
<1>13. AmazingData!CursorLosesNothing'
  BY <1>1, <1>5 DEF ADInvariant, AmazingData!CursorLosesNothing, AmazingData!Days
<1> QED BY <1>6, <1>7, <1>8, <1>9, <1>10, <1>11, <1>12, <1>13 DEF ADInvariant

\* DropTable keeps the invariant.
LEMMA ADDrop == ASSUME ADInvariant, AmazingData!DropTable PROVE ADInvariant'
<1>1. /\ run.pc = "idle" /\ UNCHANGED <<today, kind, log, run>>
      /\ table' = {} /\ stale' = {} /\ leftOut' = {}
  BY DEF AmazingData!DropTable
<1>2. \A c : AmazingData!Newest(c)' = 0
  BY <1>1 DEF AmazingData!Newest, AmazingData!Latest
<1>3. LastDay \in Nat
  BY ProviderAssumption
<1>4. ADTyped' /\ ADFresh' /\ ADUndated'
  BY <1>1 DEF ADInvariant, ADTyped, ADFresh, ADUndated
<1>5. ADWindow'
  BY <1>1 DEF ADWindow
<1>6. AmazingData!CursorLosesNothing'
  BY <1>2, <1>3 DEF AmazingData!CursorLosesNothing, AmazingData!Days
<1> QED BY <1>1, <1>2, <1>4, <1>5, <1>6, ADEmpty

\* Revise keeps the invariant.
LEMMA ADRevise == ASSUME ADInvariant, NEW row \in table, AmazingData!Revise(row) PROVE ADInvariant'
<1>1. /\ kind.sync.start = "overlap" /\ stale' = stale \union {row}
      /\ run.pc # "idle" => \A e \in run.batch : row[1] \notin e.codes
      /\ UNCHANGED <<today, kind, table, log, run, leftOut>>
  BY DEF AmazingData!Revise
<1>2. ADTyped' /\ ADWindow'
  BY <1>1 DEF ADInvariant, ADTyped, ADWindow
<1>3. \A c : AmazingData!Newest(c)' = AmazingData!Newest(c)
  BY <1>1, ADNewestSame
<1>4. ADBatch'
  <2>1. \A e : ADDue(e)' <=> ADDue(e)
    BY <1>1, <1>3 DEF ADDue, ADListing
  <2> QED BY <1>1, <2>1 DEF ADInvariant, ADBatch
<1>5. ADAnswered' /\ ADWhole'
  BY <1>1 DEF ADInvariant, ADAnswered, ADWhole, ADReported, ADRaised, ADListing
<1>6. ADSaved'
  <2>1. run.pc = "log" => \A e \in run.batch : \A c \in e.codes : \A d : <<c, d>> # row
    <3>1. run.pc = "log" => run.pc # "idle"
      OBVIOUS
    <3>2. \A c, d : <<c, d>>[1] = c
      OBVIOUS
    <3> QED BY <1>1, <3>1, <3>2
  <2>2. /\ run'.pc = run.pc /\ run'.batch = run.batch /\ run'.end = run.end /\ table' = table
        /\ ADRaised' = ADRaised
    BY <1>1 DEF ADRaised, ADListing
  <2> QED BY <1>1, <2>1, <2>2 DEF ADInvariant, ADSaved
<1>7. ADFresh' /\ ADUndated'
  BY <1>1 DEF ADInvariant, ADFresh, ADUndated
<1>8. ADFactors'
  <2>1. ADFactor' = ADFactor
    BY <1>1 DEF ADFactor
  <2> QED BY <1>1, <1>3, <2>1 DEF ADInvariant, ADFactors
<1>9. AmazingData!CursorLosesNothing'
  BY <1>1, <1>3 DEF ADInvariant, AmazingData!CursorLosesNothing, AmazingData!Days
<1> QED BY <1>2, <1>4, <1>5, <1>6, <1>7, <1>8, <1>9 DEF ADInvariant

\* Time keeps the invariant.
LEMMA ADTime ==
  ASSUME ADInvariant, UNCHANGED <<kind, table, stale, log, run, leftOut>>,
         today' \in 1..LastDay, today <= today'
  PROVE  ADInvariant'
<1>1. today \in Nat /\ today' \in Nat /\ LastDay \in Nat
  BY ProviderAssumption DEF ADInvariant, ADTyped
<1>2. ADTyped'
  <2>1. \A e \in log : e.on <= today'
    BY <1>1 DEF ADInvariant, ADTyped
  <2> QED BY <2>1 DEF ADInvariant, ADTyped
<1>3. ADWindow'
  <2>1. run.pc # "idle" => run.end \in Nat /\ run.end <= today
    BY ADRunning DEF ADInvariant, ADWindow
  <2>2. run.pc # "idle" => run.end <= today'
    BY <1>1, <2>1
  <2> QED BY <2>2 DEF ADInvariant, ADWindow
<1>4. \A c : AmazingData!Newest(c)' = AmazingData!Newest(c)
  BY ADNewestSame
<1>5. ADBatch'
  <2>1. \A e : ADDue(e)' <=> ADDue(e)
    BY <1>4 DEF ADDue, ADListing
  <2>2. run.pc # "idle" => \A e \in run.batch : e.on \in Nat /\ e.on <= today
    BY ADRunning DEF ADInvariant, ADBatch, ADEntry
  <2>3. run.pc # "idle" => \A e \in run.batch : e.on <= today'
    BY <1>1, <2>2
  <2> QED BY <2>1, <2>3 DEF ADInvariant, ADBatch
<1>6. ADAnswered' /\ ADWhole' /\ ADSaved'
  BY DEF ADInvariant, ADAnswered, ADWhole, ADSaved, ADReported, ADRaised, ADListing
<1>7. ADFresh' /\ ADUndated'
  BY DEF ADInvariant, ADFresh, ADUndated
<1>8. ADFactors'
  <2>1. ADFactor' = ADFactor
    BY DEF ADFactor
  <2> QED BY <1>4, <2>1 DEF ADInvariant, ADFactors
<1>9. AmazingData!CursorLosesNothing'
  BY <1>4 DEF ADInvariant, AmazingData!CursorLosesNothing, AmazingData!Days
<1> QED BY <1>2, <1>3, <1>5, <1>6, <1>7, <1>8, <1>9 DEF ADInvariant

\* Every step of the AmazingData runner keeps the invariant.
LEMMA ADStep == ASSUME ADInvariant, AmazingData!Next PROVE ADInvariant'
<1>1. CASE \E begin, end \in AmazingData!Days, limit \in {0, 1}, missing, force, resume \in BOOLEAN :
              AmazingData!StartRun(begin, end, limit, missing, force, resume)
  BY <1>1, ADStart
<1>2. CASE AmazingData!FilterForResume \/ AmazingData!SkipCode \/ AmazingData!FetchFails
  BY <1>2, ADFilter, ADSkip, ADFails
<1>3. CASE AmazingData!Requesting /\ \E answer \in AmazingData!Answers : AmazingData!Fetch(answer)
  BY <1>3, ADFetch
<1>4. CASE AmazingData!Saving /\ \E part \in SUBSET run.rows : AmazingData!SaveRows(part)
  BY <1>4, ADSave
<1>5. CASE run.pc = "log" /\ \E entry \in run.batch : AmazingData!LogSuccess(entry)
  BY <1>5, ADLog
<1>6. CASE run.pc = "log" /\ \E entry \in run.batch : AmazingData!LogFails(entry)
  BY <1>6, ADLog
<1>7. CASE AmazingData!FinishTask \/ AmazingData!Killed
  BY <1>7, ADEnds
<1>8. CASE AmazingData!DropTable
  BY <1>8, ADDrop
<1>9. CASE \E row \in table : AmazingData!Revise(row)
  BY <1>9, ADRevise
<1>10. CASE AmazingData!Tick
  <2>1. /\ UNCHANGED <<kind, table, stale, log, run, leftOut>> /\ today < LastDay /\ today' = today + 1
        /\ today \in 1..LastDay /\ LastDay \in Nat
    BY <1>10, ProviderAssumption DEF AmazingData!Tick, ADInvariant, ADTyped
  <2>2. today' \in 1..LastDay /\ today <= today'
    BY <2>1
  <2> QED BY <2>1, <2>2, ADTime
<1> QED BY <1>1, <1>2, <1>3, <1>4, <1>5, <1>6, <1>7, <1>8, <1>9, <1>10 DEF AmazingData!Next

\* A step that changes nothing keeps it.
LEMMA ADStutter ==
  ASSUME ADInvariant, UNCHANGED <<today, kind, table, stale, log, run, leftOut>> PROVE ADInvariant'
<1>1. today \in 1..LastDay /\ LastDay \in Nat
  BY ProviderAssumption DEF ADInvariant, ADTyped
<1> QED BY <1>1, ADTime

\* The invariant holds initially.
LEMMA ADInit == ASSUME AmazingData!Init PROVE ADInvariant
<1>1. /\ today = 1 /\ kind \in AmazingData!Tasks /\ table = {} /\ stale = {} /\ log = {} /\ leftOut = {}
      /\ run = AmazingData!Idle /\ run.pc = "idle"
  BY DEF AmazingData!Init, AmazingData!Idle
<1>2. LastDay \in Nat \ {0}
  BY ProviderAssumption
<1>3. ADTyped
  BY <1>1, <1>2 DEF ADTyped
<1>4. ADWindow /\ ADBatch /\ ADAnswered /\ ADWhole /\ ADSaved /\ ADFresh /\ ADUndated
  BY <1>1 DEF ADWindow, ADBatch, ADAnswered, ADWhole, ADSaved, ADFresh, ADUndated
<1>5. ADFactors
  BY <1>1 DEF ADFactors
<1>6. \A c : AmazingData!Newest(c) = 0
  BY <1>1 DEF AmazingData!Newest, AmazingData!Latest
<1>7. AmazingData!CursorLosesNothing
  BY <1>2, <1>6 DEF AmazingData!CursorLosesNothing, AmazingData!Days
<1> QED BY <1>3, <1>4, <1>5, <1>7 DEF ADInvariant

\* SuccessIsComplete follows from the invariant.
LEMMA ADComplete == ASSUME ADInvariant PROVE AmazingData!SuccessIsComplete
<1> SUFFICES ASSUME run.pc = "log", NEW entry \in run.batch, kind.fetch.errors = "raised", ~ADListing,
                    kind.sync.latest = "codes", NEW c \in entry.codes, NEW d \in run.begin..run.end - 1
             PROVE  /\ <<c, d>> \in table \union leftOut
                    /\ d >= AmazingData!Newest(c) - Lookback => <<c, d>> \notin stale
  BY DEF AmazingData!SuccessIsComplete, ADListing
<1>1. /\ run.begin \in 1..LastDay /\ run.end \in 1..LastDay /\ LastDay \in Nat /\ Lookback \in Nat
      /\ entry.first \in Nat /\ c \in Codes
  BY ADRunning, ProviderAssumption DEF ADInvariant, ADEntry
<1>2. AmazingData!Newest(c) \in Nat
  <2>1. ADNewest(table, c) \in 0..LastDay
    BY ADNewestDay DEF ADInvariant, ADTyped
  <2> QED BY <1>1, <2>1, ADNewestIs
<1>3. CASE d >= entry.first
  <2>1. ADRaised
    BY DEF ADRaised
  <2>2. d \in entry.first..run.end - 1
    BY <1>1, <1>3
  <2> QED BY <2>1, <2>2 DEF ADInvariant, ADSaved
<1>4. CASE ~(d >= entry.first)
  <2>1. ADDue(entry)
    BY DEF ADInvariant, ADBatch
  <2>2. /\ entry.first <= AmazingData!Newest(c) + 1
        /\ kind.sync.start = "overlap" => entry.first <= AmazingData!Newest(c) - Lookback
    BY <1>1, <1>4, <2>1 DEF ADDue
  <2>3. d \in 1..LastDay /\ d <= AmazingData!Newest(c)
    BY <1>1, <1>2, <1>4, <2>2
  <2>4. <<c, d>> \in table \union leftOut
    BY <1>1, <2>3 DEF ADInvariant, AmazingData!CursorLosesNothing, AmazingData!Days, ADListing
  <2>5. CASE kind.sync.start = "overlap"
    BY <1>1, <1>2, <1>4, <2>2, <2>4, <2>5
  <2>6. CASE kind.sync.start # "overlap"
    BY <2>4, <2>6 DEF ADInvariant, ADFresh
  <2> QED BY <2>5, <2>6
<1> QED BY <1>3, <1>4

\* SkippedFactorIsWhole follows from the invariant.
LEMMA ADSkippedFactor == ASSUME ADInvariant PROVE AmazingData!SkippedFactorIsWhole
<1> SUFFICES ASSUME AmazingData!SkipCode, ADFactor, NEW c \in AmazingData!Asked, NEW d \in AmazingData!Days, d < today
             PROVE  <<c, d>> \in table
  BY DEF AmazingData!SkippedFactorIsWhole, ADFactor
<1>1. AmazingData!Turn /\ AmazingData!Skipped
  BY DEF AmazingData!SkipCode
<1>2. AmazingData!Asked \in SUBSET Codes /\ AmazingData!Asked # {}
  BY <1>1, ADRest
<1>3. /\ AmazingData!LatestDate(AmazingData!Asked) > 0
      /\ [scope |-> AmazingData!Scope(AmazingData!Asked, 0), on |-> today] \in log
  BY <1>1, <1>2, ADFactorIs DEF AmazingData!Skipped, AmazingData!SucceededToday, AmazingData!WindowEmpty
<1>4. AmazingData!Scope(AmazingData!Asked, 0).codes = AmazingData!Asked
  BY DEF AmazingData!Scope
<1>5. /\ AmazingData!LatestDate(AmazingData!Asked) \in Nat
      /\ AmazingData!LatestDate(AmazingData!Asked) <= AmazingData!Newest(c)
  BY <1>2, ADLatestDate, ADFactorIs DEF ADInvariant
<1>6. AmazingData!Newest(c) \in Nat /\ LastDay \in Nat /\ today \in 1..LastDay
  <2>1. ADNewest(table, c) \in 0..LastDay
    BY ADNewestDay DEF ADInvariant, ADTyped
  <2> QED BY ProviderAssumption, <2>1, ADNewestIs DEF ADInvariant, ADTyped
<1>7. today <= AmazingData!Newest(c) + 1
  <2>1. AmazingData!Newest(c) > 0 /\ c \in Codes
    BY <1>2, <1>3, <1>5, <1>6
  <2>2. PICK l \in log : l.scope.codes = AmazingData!Asked /\ l.on = today
    BY <1>3, <1>4
  <2> QED BY <2>1, <2>2 DEF ADInvariant, ADFactors
<1>8. d \in 1..LastDay /\ d <= AmazingData!Newest(c)
  BY <1>6, <1>7 DEF AmazingData!Days
<1>9. <<c, d>> \in table \union leftOut
  BY <1>2, <1>8, ADFactorIs DEF ADInvariant, AmazingData!CursorLosesNothing, AmazingData!Days
<1>10. leftOut = {}
  BY ADFactorIs DEF ADInvariant, ADUndated
<1> QED BY <1>9, <1>10

--------------------------------------------------------------------------------
(* All providers. *)

\* What every runner keeps to.
ProvidersInvariant ==
    /\ provider \in {"tushare", "baostock", "qmt", "akshare", "yfinance", "amazingdata"}
    /\ provider = "tushare" => TUInvariant /\ TUUniverse
    /\ provider = "baostock" => BSInvariant
    /\ provider = "qmt" => QMInvariant
    /\ provider = "akshare" => AKInvariant
    /\ provider = "yfinance" => YFInvariant /\ YFRows
    /\ provider = "amazingdata" => ADInvariant

\* The invariant holds initially.
LEMMA ProvidersInit == ASSUME Init PROVE ProvidersInvariant
BY TUInit, TUUniverseInit, BSInit, QMInit, AKInit, YFInit, ADInit DEF Init, ProvidersInvariant

\* Every step of the runner at work keeps its invariant.
LEMMA ProvidersStep == ASSUME ProvidersInvariant, [Next]_vars PROVE ProvidersInvariant'
<1>1. provider' = provider
  BY DEF Next, vars
<1>2. CASE provider = "tushare"
  <2>1. CASE Next
    <3>1. Tushare!Next
      BY <1>2, <2>1 DEF Next
    <3>2. TUInvariant' /\ TUUniverse'
      BY <1>2, <3>1, TUStep, TUUniverseStep DEF ProvidersInvariant
    <3> QED BY <1>1, <1>2, <3>2 DEF ProvidersInvariant
  <2>2. CASE UNCHANGED vars
    <3>1. TUInvariant' /\ TUUniverse'
      BY <1>2, <2>2, TUStutter, TUUniverseStutter DEF ProvidersInvariant
    <3> QED BY <1>1, <1>2, <3>1 DEF ProvidersInvariant
  <2> QED BY <2>1, <2>2
<1>3. CASE provider = "baostock"
  <2>1. CASE Next
    <3>1. BaoStock!Next
      BY <1>3, <2>1 DEF Next
    <3>2. BSInvariant'
      BY <1>3, <3>1, BSStep DEF ProvidersInvariant
    <3> QED BY <1>1, <1>3, <3>2 DEF ProvidersInvariant
  <2>2. CASE UNCHANGED vars
    <3>1. UNCHANGED <<today, kind, table, log, run, stops>>
      BY <2>2 DEF vars
    <3>2. BSInvariant'
      BY <1>3, <3>1, BSStutter DEF ProvidersInvariant
    <3> QED BY <1>1, <1>3, <3>2 DEF ProvidersInvariant
  <2> QED BY <2>1, <2>2
<1>4. CASE provider = "qmt"
  <2>1. CASE Next
    <3>1. Qmt!Next
      BY <1>4, <2>1 DEF Next
    <3>2. QMInvariant'
      BY <1>4, <3>1, QMStep DEF ProvidersInvariant
    <3> QED BY <1>1, <1>4, <3>2 DEF ProvidersInvariant
  <2>2. CASE UNCHANGED vars
    <3>1. UNCHANGED <<today, task, table, log, run, hidden>>
      BY <2>2 DEF vars
    <3>2. QMInvariant'
      BY <1>4, <3>1, QMStutter DEF ProvidersInvariant
    <3> QED BY <1>1, <1>4, <3>2 DEF ProvidersInvariant
  <2> QED BY <2>1, <2>2
<1>5. CASE provider = "akshare"
  <2>1. CASE Next
    <3>1. AKShare!Next
      BY <1>5, <2>1 DEF Next
    <3>2. AKInvariant'
      BY <1>5, <3>1, AKStep DEF ProvidersInvariant
    <3> QED BY <1>1, <1>5, <3>2 DEF ProvidersInvariant
  <2>2. CASE UNCHANGED vars
    <3>1. UNCHANGED <<today, kind, table, copy, cursor, directory, run, leftOut>>
      BY <2>2 DEF vars
    <3>2. AKInvariant'
      BY <1>5, <3>1, AKStutter DEF ProvidersInvariant
    <3> QED BY <1>1, <1>5, <3>2 DEF ProvidersInvariant
  <2> QED BY <2>1, <2>2
<1>6. CASE provider = "yfinance"
  <2>1. CASE Next
    <3>1. YFinance!Next
      BY <1>6, <2>1 DEF Next
    <3>2. YFInvariant' /\ YFRows'
      BY <1>6, <3>1, YFStep DEF ProvidersInvariant
    <3> QED BY <1>1, <1>6, <3>2 DEF ProvidersInvariant
  <2>2. CASE UNCHANGED vars
    <3>1. UNCHANGED YFinance!vars
      BY <2>2 DEF vars, YFinance!vars
    <3>2. YFInvariant' /\ YFRows'
      BY <1>6, <3>1, YFStutter DEF ProvidersInvariant
    <3> QED BY <1>1, <1>6, <3>2 DEF ProvidersInvariant
  <2> QED BY <2>1, <2>2
<1>7. CASE provider = "amazingdata"
  <2>1. CASE Next
    <3>1. AmazingData!Next
      BY <1>7, <2>1 DEF Next
    <3>2. ADInvariant'
      BY <1>7, <3>1, ADStep DEF ProvidersInvariant
    <3> QED BY <1>1, <1>7, <3>2 DEF ProvidersInvariant
  <2>2. CASE UNCHANGED vars
    <3>1. UNCHANGED <<today, kind, table, stale, log, run, leftOut>>
      BY <2>2 DEF vars
    <3>2. ADInvariant'
      BY <1>7, <3>1, ADStutter DEF ProvidersInvariant
    <3> QED BY <1>1, <1>7, <3>2 DEF ProvidersInvariant
  <2> QED BY <2>1, <2>2
<1> QED BY <1>2, <1>3, <1>4, <1>5, <1>6, <1>7 DEF ProvidersInvariant

\* Whichever runner is at work keeps its invariant, for all codes, symbols, calendars, batch
\* sizes, limits and numbers of runs.
THEOREM InvariantHolds == Spec => []ProvidersInvariant
BY ProvidersInit, ProvidersStep, PTL DEF Spec

\* Wherever a run of any provider was stopped, nothing is missing behind the position from
\* which the next one goes on (load_latest_cursor, load_task_cursor, _resolve_sync_begin_date).
THEOREM NothingIsLost == Spec => []NothingLostBehindCursor
<1>1. ProvidersInvariant => NothingLostBehindCursor
  <2> SUFFICES ASSUME ProvidersInvariant PROVE NothingLostBehindCursor
    OBVIOUS
  <2>1. provider = "tushare" => Tushare!ResumeLosesNothing
    BY TUResume DEF ProvidersInvariant
  <2>2. provider = "baostock" => BaoStock!RangeHasNoHole
    BY DEF ProvidersInvariant, BSInvariant
  <2>3. provider = "qmt" => Qmt!CalendarHasNoHole
    BY DEF ProvidersInvariant, QMInvariant
  <2>4. provider = "akshare" => AKShare!CursorLosesNothing
    BY DEF ProvidersInvariant, AKInvariant
  <2>5. provider = "yfinance" => YFinance!CursorLosesNothing
    BY YFCursor DEF ProvidersInvariant
  <2>6. provider = "amazingdata" => AmazingData!CursorLosesNothing
    BY DEF ProvidersInvariant, ADInvariant
  <2> QED BY <2>1, <2>2, <2>3, <2>4, <2>5, <2>6 DEF NothingLostBehindCursor
<1> QED BY <1>1, InvariantHolds, PTL

\* A success in the log of BaoStock or QMT means that the rows it speaks of are in the table
\* (has_successful_sync, has_successful_sync_today).
THEOREM LogIsTrue == Spec => []LogTellsTruth
<1>1. ProvidersInvariant => LogTellsTruth
  BY QMTold DEF ProvidersInvariant, BSInvariant, LogTellsTruth
<1> QED BY <1>1, InvariantHolds, PTL

\* yfinance saves no row of a session still open (latest_completed_us_session_date).
THEOREM NothingOpenIsSaved == Spec => []OnlyCompletedSessions
<1>1. ProvidersInvariant => OnlyCompletedSessions
  BY DEF ProvidersInvariant, YFInvariant, OnlyCompletedSessions, YFinance!OnlyCompletedSessions
<1> QED BY <1>1, InvariantHolds, PTL

\* A task, or a code, is logged as a success only if its window is saved (run_sync_args,
\* _run_sync_job).
THEOREM SuccessesAreComplete == Spec => SuccessIsComplete
<1>1. ProvidersInvariant =>
         /\ provider = "tushare" => Tushare!SuccessIsComplete
         /\ provider = "akshare" => AKShare!SuccessIsComplete
         /\ provider = "yfinance" => YFinance!SuccessMeansHistory
         /\ provider = "amazingdata" => AmazingData!SuccessIsComplete
  BY TUComplete, AKComplete, YFHistory, ADComplete DEF ProvidersInvariant
<1> QED BY <1>1, InvariantHolds, PTL DEF SuccessIsComplete

\* A day of BaoStock and a factor of AmazingData that are skipped because rows of them exist
\* are whole.
THEOREM SkippedAreWhole == Spec => SkippedIsWhole
<1>1. ProvidersInvariant =>
         /\ provider = "baostock" => BaoStock!DaySkippedIsWhole
         /\ provider = "amazingdata" => AmazingData!SkippedFactorIsWhole
  BY BSSkipped, ADSkippedFactor DEF ProvidersInvariant
<1> QED BY <1>1, InvariantHolds, PTL DEF SkippedIsWhole

\* A Tushare task over the saved universe that succeeds has the rows of every code saved there,
\* those included that a source task of the same process has added since an earlier task
\* (_invalidate_universe_cache), for any codes, calendar, windows, batches and budget.
THEOREM ListedCodesSaved == Spec => ListedCodesAreComplete
<1>1. ProvidersInvariant => (provider = "tushare" => Tushare!ListedCodesAreComplete)
  BY TUListed DEF ProvidersInvariant
<1> QED BY <1>1, InvariantHolds, PTL DEF ListedCodesAreComplete

\* The date up to which yfinance asks is a weekday whose close is over, and the last of them, at
\* any minute of any date (latest_completed_us_session_date).
THEOREM LatestSessionIsCompleted ==
  ASSUME NEW date \in Nat, date >= 3, NEW time \in 0..YFinance!DayMinutes - 1,
         NEW last, last = YFinance!LatestCompletedDate(date, time)
  PROVE  /\ last \in Int /\ ~YFinance!Weekend(last)
         /\ last * YFinance!DayMinutes + YFinance!CloseBuffer <= date * YFinance!DayMinutes + time
         /\ \A d \in Int : last < d /\ d * YFinance!DayMinutes + YFinance!CloseBuffer <= date * YFinance!DayMinutes + time
                           => YFinance!Weekend(d)
<1> DEFINE candidate == IF YFinance!Weekend(date) \/ time < YFinance!CloseBuffer THEN date - 1 ELSE date
<1>1. last = IF YFinance!Weekend(candidate) THEN candidate - ((candidate % 7) - 4) ELSE candidate
  BY DEF YFinance!LatestCompletedDate
<1>2. YFinance!DayMinutes = 1440 /\ YFinance!CloseBuffer = 975 /\ time \in Int /\ 0 <= time /\ time <= 1439
  BY DEF YFinance!DayMinutes, YFinance!CloseBuffer
<1>3. /\ candidate \in Int
      /\ candidate = date \/ candidate = date - 1
      /\ candidate = date => time >= 975 /\ ~YFinance!Weekend(date)
      /\ candidate = date - 1 => YFinance!Weekend(date) \/ time < 975
  BY <1>2
<1> HIDE DEF candidate
<1>4. last \in Int /\ last <= candidate /\ ~YFinance!Weekend(last)
      /\ \A d \in Int : last < d /\ d <= candidate => YFinance!Weekend(d)
  BY <1>1, <1>3 DEF YFinance!Weekend
<1>5. last * 1440 + 975 <= date * 1440 + time
  BY <1>2, <1>3, <1>4
<1>6. ASSUME NEW d \in Int, last < d, d * 1440 + 975 <= date * 1440 + time PROVE YFinance!Weekend(d)
  <2>1. d <= date
    BY <1>2, <1>6
  <2>2. d = date /\ ~YFinance!Weekend(date) => candidate = date
    BY <1>2, <1>3, <1>6
  <2>3. d <= candidate \/ YFinance!Weekend(d)
    BY <1>3, <2>1, <2>2
  <2> QED BY <1>4, <1>6, <2>3
<1> QED BY <1>2, <1>4, <1>5, <1>6
================================================================================
