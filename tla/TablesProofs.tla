----------------------------- MODULE TablesProofs ------------------------------
(* The wide tables and the status of tables in SourcesAndTables: one writer, and any number of
   versions, months, runs and kills; any number of viewers, changes and attempts. *)
EXTENDS SourcesAndTables, TLAPS

--------------------------------------------------------------------------------
(* The wide table. *)

Statements ==
    [op : {"drop", "create", "truncate", "list", "select", "backup", "publish"},
     on : WideTable!Names]
    \union [op : {"insert"}, on : WideTable!Names, month : 1..LastMonth]

Tables == {WideTable!Absent} \union [layout : Versions, rows : SUBSET (Versions \X (1..LastMonth))]

Runs == [pc : {"planned", "saved", "execute", "failed"}, spec : WideTable!WideTableMetadata,
         action : {"invalid", "create_and_sync", "rebuild", "sync"}, todo : Seq(Statements),
         swaps : BOOLEAN, listed : 0..LastMonth, before : Tables]

WideTypes(w) ==
    /\ catalog \in [WideTable!Names -> Tables]
    /\ source \in 0..LastMonth
    /\ writer \in [{w} -> {WideTable!Idle} \union Runs]

\* What is left of a sequence of statements.
Rest(t, plan) == \A i \in 1..Len(t) : t[i] = plan[Len(plan) - Len(t) + i]

\* The months of the statements before the last k, which are insertions.
Months(t, k) == {m \in 1..LastMonth : \E i \in 1..(Len(t) - k) : m = t[i].month}

\* The insertions ahead, before the last k statements, are all that the table lacks.
Filling(t, k, name, version, listed) ==
    /\ Len(t) >= k
    /\ \A i \in 1..(Len(t) - k) : t[i].op = "insert" /\ t[i].on = name
    /\ catalog[name].layout = version
    /\ catalog[name].rows \union ({version} \X Months(t, k)) = {version} \X (1..listed)

\* A rebuild leaves the target alone until the new table is whole, then swaps.
BeforeFilling(w) ==
    LET t == writer[w].todo
    IN  /\ Rest(t, WideTable!Rebuild) /\ Len(t) \in 4..9
        /\ catalog["target"] = writer[w].before
        /\ Len(t) \in {7, 8} => catalog["tmp"] = WideTable!Absent
        /\ Len(t) <= 7 => catalog["old"] = WideTable!Absent
        /\ Len(t) <= 6 => catalog["tmp"] = [layout |-> writer[w].spec.version, rows |-> {}]

BeforeSwap(w) ==
    LET t == writer[w].todo
    IN  /\ Filling(t, 3, "tmp", writer[w].spec.version, writer[w].listed)
        /\ t[Len(t) - 2] = WideTable!Swap[1] /\ t[Len(t) - 1] = WideTable!Swap[2]
        /\ t[Len(t)] = WideTable!Drop("old")[1]
        /\ catalog["target"] = writer[w].before
        /\ catalog["old"] = WideTable!Absent

BetweenRenames(w) ==
    LET t == writer[w].todo
    IN  /\ Rest(t, WideTable!Rebuild) /\ Len(t) = 2
        /\ catalog["target"] = WideTable!Absent
        /\ catalog["old"] = writer[w].before
        /\ catalog["tmp"] = WideTable!Whole(writer[w].spec.version, writer[w].listed)

AfterSwap(w) ==
    LET t == writer[w].todo
    IN  /\ Rest(t, WideTable!Rebuild) /\ Len(t) <= 1
        /\ catalog["target"] = WideTable!Whole(writer[w].spec.version, writer[w].listed)

\* A run without a swap fills the target itself.
BeforeRefill(w) ==
    LET t == writer[w].todo
    IN  /\ Rest(t, WideTable!DropAndRefresh) /\ Len(t) \in 1..5
        /\ Len(t) = 4 => catalog["target"] = WideTable!Absent
        /\ Len(t) <= 3 => catalog["target"] = [layout |-> writer[w].spec.version, rows |-> {}]

Refilling(w) == Filling(writer[w].todo, 0, "target", writer[w].spec.version, writer[w].listed)

\* A failure leaves a rebuild where it was.
RunInPlace(w) ==
    /\ writer[w].pc \in {"planned", "saved"} => ~writer[w].swaps
    /\ writer[w].pc \in {"execute", "failed"} /\ writer[w].swaps =>
          /\ writer[w].before # WideTable!Absent
          /\ BeforeFilling(w) \/ BeforeSwap(w) \/ BetweenRenames(w) \/ AfterSwap(w)
    /\ writer[w].pc = "execute" /\ ~writer[w].swaps => BeforeRefill(w) \/ Refilling(w)

\* No success is on record while a run may change the target.
StateTrue(w) ==
    /\ writer[w].pc \in {"saved", "execute"} => state.status = "running"
    /\ WideTable!SuccessIsPublished

WideInPlace(w) == WideTypes(w) /\ RunInPlace(w) /\ StateTrue(w)

--------------------------------------------------------------------------------
(* The statements in order. *)

\* The statements of a run without a swap.
LEMMA DropAndRefreshOrder ==
    /\ Len(WideTable!DropAndRefresh) = 5
    /\ WideTable!DropAndRefresh[1] = [op |-> "drop", on |-> "target"]
    /\ WideTable!DropAndRefresh[2] = [op |-> "create", on |-> "target"]
    /\ WideTable!DropAndRefresh[3] = [op |-> "truncate", on |-> "target"]
    /\ WideTable!DropAndRefresh[4] = [op |-> "list", on |-> "target"]
    /\ WideTable!DropAndRefresh[5] = [op |-> "select", on |-> "target"]
BY DEF WideTable!DropAndRefresh, WideTable!FullRefresh, WideTable!Drop, WideTable!Create,
   WideTable!Truncate, WideTable!Fill

\* The statements of a rebuild.
LEMMA RebuildOrder ==
    /\ Len(WideTable!Rebuild) = 9
    /\ WideTable!Rebuild[1] = [op |-> "drop", on |-> "tmp"]
    /\ WideTable!Rebuild[2] = [op |-> "drop", on |-> "old"]
    /\ WideTable!Rebuild[3] = [op |-> "create", on |-> "tmp"]
    /\ WideTable!Rebuild[4] = [op |-> "truncate", on |-> "tmp"]
    /\ WideTable!Rebuild[5] = [op |-> "list", on |-> "tmp"]
    /\ WideTable!Rebuild[6] = [op |-> "select", on |-> "tmp"]
    /\ WideTable!Rebuild[7] = [op |-> "backup", on |-> "target"]
    /\ WideTable!Rebuild[8] = [op |-> "publish", on |-> "tmp"]
    /\ WideTable!Rebuild[9] = [op |-> "drop", on |-> "old"]
BY DEF WideTable!Rebuild, WideTable!FullRefresh, WideTable!Drop, WideTable!Create,
   WideTable!Truncate, WideTable!Fill, WideTable!Swap

\* What each of them does, and on which table.
LEMMA RebuildAt ==
    /\ WideTable!Rebuild[1].op = "drop" /\ WideTable!Rebuild[1].on = "tmp"
    /\ WideTable!Rebuild[2].op = "drop" /\ WideTable!Rebuild[2].on = "old"
    /\ WideTable!Rebuild[3].op = "create" /\ WideTable!Rebuild[3].on = "tmp"
    /\ WideTable!Rebuild[4].op = "truncate" /\ WideTable!Rebuild[4].on = "tmp"
    /\ WideTable!Rebuild[5].op = "list" /\ WideTable!Rebuild[5].on = "tmp"
    /\ WideTable!Rebuild[6].op = "select" /\ WideTable!Rebuild[6].on = "tmp"
    /\ WideTable!Rebuild[9].op = "drop" /\ WideTable!Rebuild[9].on = "old"
BY RebuildOrder

\* Both are lists of statements.
LEMMA PlansTyped == WideTable!Rebuild \in Seq(Statements) /\ WideTable!DropAndRefresh \in Seq(Statements)
<1>1. /\ \A name \in WideTable!Names :
           /\ WideTable!Drop(name) \in Seq(Statements)
           /\ WideTable!Create(name) \in Seq(Statements)
           /\ WideTable!Truncate(name) \in Seq(Statements)
           /\ WideTable!Fill(name) \in Seq(Statements)
      /\ WideTable!Swap \in Seq(Statements)
  BY DEF WideTable!Drop, WideTable!Create, WideTable!Truncate, WideTable!Fill, WideTable!Swap,
     Statements, WideTable!Names
<1>2. \A s, t \in Seq(Statements) : s \o t \in Seq(Statements)
  OBVIOUS
<1>3. \A name \in WideTable!Names : WideTable!FullRefresh(name) \in Seq(Statements)
  BY <1>1, <1>2 DEF WideTable!FullRefresh
<1>4. "target" \in WideTable!Names /\ "tmp" \in WideTable!Names /\ "old" \in WideTable!Names
  BY DEF WideTable!Names
<1> QED
  BY <1>1, <1>2, <1>3, <1>4 DEF WideTable!Rebuild, WideTable!DropAndRefresh

\* What is left of a list.
LEMMA Behind ==
    ASSUME NEW t \in Seq(Statements), t # <<>>
    PROVE  /\ Tail(t) \in Seq(Statements) /\ Len(Tail(t)) = Len(t) - 1 /\ Len(t) \in Nat \ {0}
           /\ \A i \in 1..(Len(t) - 1) : Tail(t)[i] = t[i + 1]
           /\ Head(t) = t[1] /\ Head(t) \in Statements
OBVIOUS

\* What is left of a plan begins with the next of its statements.
LEMMA RestBehind ==
    ASSUME NEW t \in Seq(Statements), t # <<>>, NEW plan \in Seq(Statements), Rest(t, plan)
    PROVE  Rest(Tail(t), plan) /\ Head(t) = plan[Len(plan) - Len(t) + 1]
<1>1. /\ Len(Tail(t)) = Len(t) - 1 /\ Len(t) \in Nat \ {0} /\ Len(plan) \in Nat
      /\ \A i \in 1..(Len(t) - 1) : Tail(t)[i] = t[i + 1]
      /\ Head(t) = t[1]
  BY Behind
<1>2. \A i \in 1..Len(t) : t[i] = plan[Len(plan) - Len(t) + i]
  BY DEF Rest
<1>3. Head(t) = plan[Len(plan) - Len(t) + 1]
  BY <1>1, <1>2
<1>4. ASSUME NEW i \in 1..Len(Tail(t))
      PROVE  Tail(t)[i] = plan[Len(plan) - Len(Tail(t)) + i]
  <2>1. i \in 1..(Len(t) - 1) /\ i + 1 \in 1..Len(t)
    BY <1>1
  <2>2. Len(plan) - Len(Tail(t)) + i = Len(plan) - Len(t) + (i + 1)
    BY <1>1
  <2> QED
    BY <1>1, <1>2, <2>1, <2>2
<1> QED
  BY <1>3, <1>4 DEF Rest

\* A run at a statement.
LEMMA RunForm ==
    ASSUME NEW w, WideTypes(w), writer[w].pc # "idle"
    PROVE  /\ writer[w] \in Runs
           /\ writer[w].todo \in Seq(Statements) /\ writer[w].listed \in 0..LastMonth
           /\ writer[w].before \in Tables /\ writer[w].spec.version \in Versions
           /\ writer[w].swaps \in BOOLEAN /\ writer[w].spec \in WideTable!WideTableMetadata
<1>1. writer[w] \in Runs
  BY DEF WideTypes, WideTable!Idle
<1>2. writer[w].spec \in WideTable!WideTableMetadata
  BY <1>1 DEF Runs
<1> QED
  BY <1>1, <1>2 DEF Runs, WideTable!WideTableMetadata

\* A run after a statement.
LEMMA DoneForm ==
    ASSUME NEW w, WideTypes(w), writer[w].pc = "execute", writer[w].todo # <<>>, WideTable!Done(w)
    PROVE  /\ writer' \in [{w} -> {WideTable!Idle} \union Runs]
           /\ writer'[w].pc = "execute" /\ writer'[w].todo = Tail(writer[w].todo)
           /\ writer'[w].spec = writer[w].spec /\ writer'[w].swaps = writer[w].swaps
           /\ writer'[w].listed = writer[w].listed /\ writer'[w].before = writer[w].before
<1> DEFINE x == [writer[w] EXCEPT !.todo = Tail(writer[w].todo)]
<1>1. writer[w] \in Runs /\ Tail(writer[w].todo) \in Seq(Statements)
  BY RunForm, Behind
<1>2. x \in Runs /\ x.pc = "execute" /\ x.todo = Tail(writer[w].todo) /\ x.spec = writer[w].spec
      /\ x.swaps = writer[w].swaps /\ x.listed = writer[w].listed /\ x.before = writer[w].before
  BY <1>1 DEF Runs
<1>3. writer' = [writer EXCEPT ![w] = x]
  BY DEF WideTable!Done
<1> HIDE DEF x
<1> QED
  BY <1>2, <1>3 DEF WideTypes

\* The statement a run is at.
LEMMA Turns ==
    ASSUME NEW w, WideTypes(w), writer[w].pc = "execute", writer[w].todo # <<>>
    PROVE  LET t == writer[w].todo IN
           /\ BeforeFilling(w) => Head(t) = WideTable!Rebuild[10 - Len(t)]
           /\ BeforeSwap(w) => IF Len(t) = 3 THEN Head(t) = WideTable!Swap[1]
                               ELSE Head(t).op = "insert" /\ Head(t).on = "tmp" /\ Len(t) > 3
           /\ BetweenRenames(w) => Head(t) = WideTable!Swap[2]
           /\ AfterSwap(w) => Len(t) = 1 /\ Head(t) = WideTable!Rebuild[9]
           /\ BeforeRefill(w) => Head(t) = WideTable!DropAndRefresh[6 - Len(t)]
           /\ Refilling(w) => Head(t).op = "insert" /\ Head(t).on = "target"
<1> DEFINE t == writer[w].todo
<1>1. t \in Seq(Statements) /\ t # <<>> /\ Len(t) \in Nat \ {0} /\ Head(t) = t[1]
  BY RunForm, Behind
<1>2. Len(WideTable!Rebuild) = 9 /\ Len(WideTable!DropAndRefresh) = 5
      /\ WideTable!Rebuild \in Seq(Statements)
      /\ WideTable!DropAndRefresh \in Seq(Statements)
  BY RebuildOrder, DropAndRefreshOrder, PlansTyped
<1>3. BeforeFilling(w) => Head(t) = WideTable!Rebuild[10 - Len(t)]
  <2>1. BeforeFilling(w) => Head(t) = WideTable!Rebuild[Len(WideTable!Rebuild) - Len(t) + 1]
    BY <1>1, <1>2, RestBehind DEF BeforeFilling
  <2>2. Len(WideTable!Rebuild) - Len(t) + 1 = 10 - Len(t)
    BY <1>1, <1>2
  <2> QED
    BY <2>1, <2>2
<1>4. BeforeSwap(w) => IF Len(t) = 3 THEN Head(t) = WideTable!Swap[1]
                       ELSE Head(t).op = "insert" /\ Head(t).on = "tmp" /\ Len(t) > 3
  <2> SUFFICES ASSUME BeforeSwap(w)
               PROVE  IF Len(t) = 3 THEN Head(t) = WideTable!Swap[1]
                      ELSE Head(t).op = "insert" /\ Head(t).on = "tmp" /\ Len(t) > 3
    OBVIOUS
  <2>1. /\ Len(t) >= 3 /\ t[Len(t) - 2] = WideTable!Swap[1]
        /\ \A i \in 1..(Len(t) - 3) : t[i].op = "insert" /\ t[i].on = "tmp"
    BY DEF BeforeSwap, Filling
  <2> HIDE DEF t
  <2>2. CASE Len(t) = 3
    <3>1. Len(t) - 2 = 1
      BY <2>2
    <3> QED
      BY <1>1, <2>1, <2>2, <3>1
  <2>3. CASE Len(t) # 3
    <3>1. Len(t) >= 3 /\ Len(t) \in Nat
      BY <1>1, <2>1
    <3> DEFINE n == Len(t)
    <3>2. n >= 3 /\ n \in Nat /\ n # 3
      BY <2>3, <3>1
    <3> HIDE DEF n
    <3>3. 1 \in 1..(n - 3) /\ n > 3
      BY <3>2
    <3> QED
      BY <1>1, <2>1, <2>3, <3>3 DEF n
  <2> QED
    BY <2>2, <2>3
<1>5. AfterSwap(w) => Len(t) = 1 /\ Head(t) = WideTable!Rebuild[9]
  <2> SUFFICES ASSUME AfterSwap(w) PROVE Len(t) = 1 /\ Head(t) = WideTable!Rebuild[9]
    OBVIOUS
  <2>1. Len(t) <= 1 /\ Head(t) = WideTable!Rebuild[Len(WideTable!Rebuild) - Len(t) + 1]
    BY <1>1, <1>2, RestBehind DEF AfterSwap
  <2> HIDE DEF t
  <2>2. Len(t) = 1
    <3> DEFINE n == Len(t)
    <3>1. n \in Nat \ {0} /\ n <= 1
      BY <1>1, <2>1
    <3> HIDE DEF n
    <3>2. n = 1
      BY <3>1
    <3> QED
      BY <3>2 DEF n
  <2>3. Len(WideTable!Rebuild) - Len(t) + 1 = 9
    BY <1>2, <2>2
  <2> QED
    BY <2>1, <2>2, <2>3
<1>6. BeforeRefill(w) => Head(t) = WideTable!DropAndRefresh[6 - Len(t)]
  <2>1. BeforeRefill(w) => Head(t) = WideTable!DropAndRefresh[Len(WideTable!DropAndRefresh) - Len(t) + 1]
    BY <1>1, <1>2, RestBehind DEF BeforeRefill
  <2>2. Len(WideTable!DropAndRefresh) - Len(t) + 1 = 6 - Len(t)
    BY <1>1, <1>2
  <2> QED
    BY <2>1, <2>2
<1>7. Refilling(w) => Head(t).op = "insert" /\ Head(t).on = "target"
  <2> SUFFICES ASSUME Refilling(w) PROVE Head(t).op = "insert" /\ Head(t).on = "target"
    OBVIOUS
  <2>1. \A i \in 1..(Len(t) - 0) : t[i].op = "insert" /\ t[i].on = "target"
    BY DEF Refilling, Filling
  <2> HIDE DEF t
  <2> QED
    BY <1>1, <2>1
<1>8. BetweenRenames(w) => Head(t) = WideTable!Swap[2]
  <2> SUFFICES ASSUME BetweenRenames(w) PROVE Head(t) = WideTable!Swap[2]
    OBVIOUS
  <2>1. Len(t) = 2 /\ Head(t) = WideTable!Rebuild[Len(WideTable!Rebuild) - Len(t) + 1]
    BY <1>1, <1>2, RestBehind DEF BetweenRenames
  <2> HIDE DEF t
  <2>2. Len(WideTable!Rebuild) - Len(t) + 1 = 8
    BY <1>2, <2>1
  <2> QED
    BY <2>1, <2>2, RebuildOrder DEF WideTable!Swap
<1> QED
  BY <1>3, <1>4, <1>5, <1>6, <1>7, <1>8

\* The kind of statement each part of a run is at.
LEMMA Phases ==
    ASSUME NEW w, WideTypes(w), writer[w].pc = "execute", writer[w].todo # <<>>
    PROVE  LET op == Head(writer[w].todo).op
               n == Len(writer[w].todo)
               fills == {"drop", "create", "truncate", "list", "select"}
           IN  /\ BeforeFilling(w) => op \in fills
               /\ BeforeSwap(w) => (op = "backup" /\ n = 3) \/ (op = "insert" /\ n > 3)
               /\ BetweenRenames(w) => op = "publish"
               /\ AfterSwap(w) => op = "drop"
               /\ BeforeRefill(w) => op \in fills
               /\ Refilling(w) => op = "insert"
<1> DEFINE t == writer[w].todo
           n == Len(t)
           fills == {"drop", "create", "truncate", "list", "select"}
<1>1. n \in Nat \ {0}
  BY RunForm, Behind
<1>2. BeforeFilling(w) => n \in {4, 5, 6, 7, 8, 9} /\ Head(t) = WideTable!Rebuild[10 - n]
  <2>1. n \in 4..9 => n \in {4, 5, 6, 7, 8, 9}
    BY <1>1
  <2> QED
    BY <2>1, Turns DEF BeforeFilling
<1>3. BeforeRefill(w) => n \in {1, 2, 3, 4, 5} /\ Head(t) = WideTable!DropAndRefresh[6 - n]
  <2>1. n \in 1..5 => n \in {1, 2, 3, 4, 5}
    BY <1>1
  <2> QED
    BY <2>1, Turns DEF BeforeRefill
<1>4. /\ BeforeSwap(w) => IF n = 3 THEN Head(t) = WideTable!Swap[1] ELSE Head(t).op = "insert" /\ n > 3
      /\ BetweenRenames(w) => Head(t) = WideTable!Swap[2]
      /\ AfterSwap(w) => Head(t) = WideTable!Rebuild[9]
      /\ Refilling(w) => Head(t).op = "insert"
  BY Turns
<1>5. \A k \in {4, 5, 6, 7, 8, 9} : WideTable!Rebuild[10 - k].op \in fills
  BY RebuildAt
<1>6. \A k \in {1, 2, 3, 4, 5} : WideTable!DropAndRefresh[6 - k].op \in fills
  BY DropAndRefreshOrder
<1>7. WideTable!Swap[1].op = "backup" /\ WideTable!Swap[2].op = "publish"
      /\ WideTable!Rebuild[9].op = "drop"
  BY RebuildAt DEF WideTable!Swap
<1> HIDE DEF n, fills
<1>8. BeforeFilling(w) => Head(t).op \in fills
  BY <1>2, <1>5
<1>9. BeforeRefill(w) => Head(t).op \in fills
  BY <1>3, <1>6
<1>10. BeforeSwap(w) => (Head(t).op = "backup" /\ n = 3) \/ (Head(t).op = "insert" /\ n > 3)
  BY <1>4, <1>7
<1> QED
  BY <1>4, <1>7, <1>8, <1>9, <1>10 DEF n, fills

--------------------------------------------------------------------------------
(* The statements keep the order. *)

\* What is left after a statement.
LEMMA DoneRest ==
    ASSUME NEW w, WideTypes(w), writer[w].pc = "execute", writer[w].todo # <<>>, WideTable!Done(w),
           NEW n, n = Len(writer[w].todo)
    PROVE  /\ n \in Nat \ {0} /\ Len(writer'[w].todo) = n - 1
           /\ \A plan \in Seq(Statements) : Rest(writer[w].todo, plan) => Rest(writer'[w].todo, plan)
           /\ \A i \in 1..(n - 1) : writer'[w].todo[i] = writer[w].todo[i + 1]
<1> DEFINE t == writer[w].todo
<1>1. t \in Seq(Statements) /\ t # <<>> /\ writer'[w].todo = Tail(t)
  BY RunForm, DoneForm
<1>2. n = Len(t)
  OBVIOUS
<1> HIDE DEF t
<1>3. /\ n \in Nat \ {0} /\ Len(Tail(t)) = n - 1
      /\ \A i \in 1..(n - 1) : Tail(t)[i] = t[i + 1]
  BY <1>1, <1>2, Behind
<1>4. \A plan \in Seq(Statements) : Rest(t, plan) => Rest(Tail(t), plan)
  BY <1>1, RestBehind
<1> QED
  BY <1>1, <1>3, <1>4 DEF t

\* A drop keeps the order.
LEMMA DropKeeps ==
    ASSUME NEW w, WideTypes(w), RunInPlace(w), WideTable!DropTable(w)
    PROVE  RunInPlace(w)'
<1> DEFINE t == writer[w].todo
           n == Len(t)
<1>1. writer[w].pc = "execute" /\ t # <<>> /\ Head(t).op = "drop" /\ WideTable!Done(w)
      /\ catalog' = [catalog EXCEPT ![Head(t).on] = WideTable!Absent]
  BY DEF WideTable!DropTable, WideTable!Executing, WideTable!On
<1>2. /\ n \in Nat \ {0} /\ Len(writer'[w].todo) = n - 1
      /\ Rest(t, WideTable!Rebuild) => Rest(writer'[w].todo, WideTable!Rebuild)
      /\ Rest(t, WideTable!DropAndRefresh) => Rest(writer'[w].todo, WideTable!DropAndRefresh)
  BY <1>1, DoneRest, PlansTyped
<1>3. /\ writer'[w].pc = "execute" /\ writer'[w].spec = writer[w].spec
      /\ writer'[w].swaps = writer[w].swaps /\ writer'[w].listed = writer[w].listed
      /\ writer'[w].before = writer[w].before
  BY <1>1, DoneForm
<1>4. /\ BeforeFilling(w) => Head(t) = WideTable!Rebuild[10 - n]
      /\ ~BeforeSwap(w) /\ ~BetweenRenames(w)
      /\ AfterSwap(w) => n = 1 /\ Head(t) = WideTable!Rebuild[9]
      /\ BeforeRefill(w) => Head(t) = WideTable!DropAndRefresh[6 - n]
      /\ ~Refilling(w)
  BY <1>1, Turns, Phases
<1>5. DOMAIN catalog = WideTable!Names /\ "target" \in WideTable!Names /\ "tmp" \in WideTable!Names
      /\ "old" \in WideTable!Names
  BY DEF WideTypes, WideTable!Names
<1>6. CASE writer[w].swaps /\ BeforeFilling(w)
  <2>1. n \in 4..9 /\ Rest(t, WideTable!Rebuild) /\ catalog["target"] = writer[w].before
        /\ (n \in {7, 8} => catalog["tmp"] = WideTable!Absent)
    BY <1>6 DEF BeforeFilling
  <2> HIDE DEF n
  <2>2. n \in {9, 8} /\ (n = 9 => Head(t).on = "tmp") /\ (n = 8 => Head(t).on = "old")
    <3>1. n \in {4, 5, 6, 7, 8, 9}
      BY <2>1
    <3> QED
      BY <1>1, <1>4, <1>6, <3>1, RebuildAt
  <2>3. CASE n = 9
    <3>1. Len(writer'[w].todo) = 8 /\ catalog'["tmp"] = WideTable!Absent
          /\ catalog'["target"] = catalog["target"]
      BY <1>1, <1>2, <1>5, <2>2, <2>3
    <3>2. Rest(writer'[w].todo, WideTable!Rebuild)
      BY <1>2, <2>1
    <3>3. BeforeFilling(w)'
      BY <1>3, <2>1, <3>1, <3>2 DEF BeforeFilling
    <3> QED
      BY <1>1, <1>3, <1>6, <3>3 DEF RunInPlace
  <2>4. CASE n = 8
    <3>1. /\ Len(writer'[w].todo) = 7 /\ catalog'["old"] = WideTable!Absent
          /\ catalog'["target"] = catalog["target"]
          /\ catalog'["tmp"] = catalog["tmp"]
      BY <1>1, <1>2, <1>5, <2>2, <2>4
    <3>2. BeforeFilling(w)'
      BY <1>2, <1>3, <2>1, <2>4, <3>1 DEF BeforeFilling
    <3> QED
      BY <1>1, <1>3, <1>6, <3>2 DEF RunInPlace
  <2> QED
    BY <2>2, <2>3, <2>4
<1>7. CASE writer[w].swaps /\ AfterSwap(w)
  <2>1. Head(t).on = "old" /\ n = 1 /\ Rest(t, WideTable!Rebuild)
    BY <1>4, <1>7, RebuildAt DEF AfterSwap
  <2>2. catalog'["target"] = catalog["target"] /\ Len(writer'[w].todo) = 0
    BY <1>1, <1>2, <1>5, <2>1
  <2>3. AfterSwap(w)'
    BY <1>2, <1>3, <1>7, <2>1, <2>2 DEF AfterSwap, WideTable!Whole
  <2> QED
    BY <1>1, <1>3, <1>7, <2>3 DEF RunInPlace
<1>8. CASE ~writer[w].swaps /\ BeforeRefill(w)
  <2>1. n \in 1..5 /\ Rest(t, WideTable!DropAndRefresh)
    BY <1>8 DEF BeforeRefill
  <2> HIDE DEF n
  <2>2. n = 5 /\ Head(t).on = "target"
    <3>1. n \in {1, 2, 3, 4, 5}
      BY <2>1
    <3> QED
      BY <1>1, <1>4, <1>8, <3>1, DropAndRefreshOrder
  <2>3. Len(writer'[w].todo) = 4 /\ catalog'["target"] = WideTable!Absent
    BY <1>1, <1>2, <1>5, <2>2
  <2>4. Rest(writer'[w].todo, WideTable!DropAndRefresh)
    BY <1>2, <2>1
  <2>5. BeforeRefill(w)'
    BY <1>3, <2>3, <2>4 DEF BeforeRefill
  <2> QED
    BY <1>3, <1>8, <2>5 DEF RunInPlace
<1> QED
  BY <1>1, <1>4, <1>6, <1>7, <1>8 DEF RunInPlace

\* A creation keeps the order.
LEMMA CreateKeeps ==
    ASSUME NEW w, WideTypes(w), RunInPlace(w), WideTable!CreateTable(w)
    PROVE  RunInPlace(w)'
<1> DEFINE t == writer[w].todo
           n == Len(t)
           v == writer[w].spec.version
<1>1. writer[w].pc = "execute" /\ t # <<>> /\ Head(t).op = "create" /\ WideTable!Done(w)
      /\ catalog' = IF catalog[Head(t).on] # WideTable!Absent THEN catalog
                    ELSE [catalog EXCEPT ![Head(t).on] = [layout |-> v, rows |-> {}]]
  BY DEF WideTable!CreateTable, WideTable!Executing, WideTable!On, WideTable!Exists
<1>2. /\ n \in Nat \ {0} /\ Len(writer'[w].todo) = n - 1
      /\ Rest(t, WideTable!Rebuild) => Rest(writer'[w].todo, WideTable!Rebuild)
      /\ Rest(t, WideTable!DropAndRefresh) => Rest(writer'[w].todo, WideTable!DropAndRefresh)
  BY <1>1, DoneRest, PlansTyped
<1>3. /\ writer'[w].pc = "execute" /\ writer'[w].spec = writer[w].spec
      /\ writer'[w].swaps = writer[w].swaps /\ writer'[w].listed = writer[w].listed
      /\ writer'[w].before = writer[w].before
  BY <1>1, DoneForm
<1>4. /\ BeforeFilling(w) => Head(t) = WideTable!Rebuild[10 - n]
      /\ ~BeforeSwap(w)
      /\ ~AfterSwap(w) /\ ~BetweenRenames(w)
      /\ BeforeRefill(w) => Head(t) = WideTable!DropAndRefresh[6 - n]
      /\ ~Refilling(w)
  BY <1>1, Turns, Phases
<1>5. DOMAIN catalog = WideTable!Names /\ "target" \in WideTable!Names /\ "tmp" \in WideTable!Names
      /\ "old" \in WideTable!Names
  BY DEF WideTypes, WideTable!Names
<1>6. CASE writer[w].swaps /\ BeforeFilling(w)
  <2>1. n \in 4..9 /\ Rest(t, WideTable!Rebuild) /\ catalog["target"] = writer[w].before
        /\ (n \in {7, 8} => catalog["tmp"] = WideTable!Absent) /\ (n <= 7 => catalog["old"] = WideTable!Absent)
    BY <1>6 DEF BeforeFilling
  <2> HIDE DEF n
  <2>2. n = 7 /\ Head(t).on = "tmp"
    <3>1. n \in {4, 5, 6, 7, 8, 9}
      BY <2>1
    <3> QED
      BY <1>1, <1>4, <1>6, <3>1, RebuildAt
  <2>3. /\ Len(writer'[w].todo) = 6 /\ catalog'["tmp"] = [layout |-> v, rows |-> {}]
        /\ catalog'["target"] = catalog["target"] /\ catalog'["old"] = WideTable!Absent
    BY <1>1, <1>2, <1>5, <2>1, <2>2
  <2>4. Rest(writer'[w].todo, WideTable!Rebuild)
    BY <1>2, <2>1
  <2>5. BeforeFilling(w)'
    BY <1>3, <2>1, <2>3, <2>4 DEF BeforeFilling
  <2> QED
    BY <1>1, <1>3, <1>6, <2>5 DEF RunInPlace
<1>7. CASE ~writer[w].swaps /\ BeforeRefill(w)
  <2>1. n \in 1..5 /\ Rest(t, WideTable!DropAndRefresh) /\ (n = 4 => catalog["target"] = WideTable!Absent)
    BY <1>7 DEF BeforeRefill
  <2> HIDE DEF n
  <2>2. n = 4 /\ Head(t).on = "target"
    <3>1. n \in {1, 2, 3, 4, 5}
      BY <2>1
    <3> QED
      BY <1>1, <1>4, <1>7, <3>1, DropAndRefreshOrder
  <2>3. Len(writer'[w].todo) = 3 /\ catalog'["target"] = [layout |-> v, rows |-> {}]
    BY <1>1, <1>2, <1>5, <2>1, <2>2
  <2>4. Rest(writer'[w].todo, WideTable!DropAndRefresh)
    BY <1>2, <2>1
  <2>5. BeforeRefill(w)'
    BY <1>3, <2>3, <2>4 DEF BeforeRefill
  <2> QED
    BY <1>3, <1>7, <2>5 DEF RunInPlace
<1> QED
  BY <1>1, <1>4, <1>6, <1>7 DEF RunInPlace

\* So does the emptying of a table.
LEMMA TruncateKeeps ==
    ASSUME NEW w, WideTypes(w), RunInPlace(w), WideTable!TruncateTable(w)
    PROVE  RunInPlace(w)'
<1> DEFINE t == writer[w].todo
           n == Len(t)
           v == writer[w].spec.version
<1>1. writer[w].pc = "execute" /\ t # <<>> /\ Head(t).op = "truncate" /\ WideTable!Done(w)
      /\ catalog' = [catalog EXCEPT ![Head(t).on].rows = {}]
  BY DEF WideTable!TruncateTable, WideTable!Executing, WideTable!On
<1>2. /\ n \in Nat \ {0} /\ Len(writer'[w].todo) = n - 1
      /\ Rest(t, WideTable!Rebuild) => Rest(writer'[w].todo, WideTable!Rebuild)
      /\ Rest(t, WideTable!DropAndRefresh) => Rest(writer'[w].todo, WideTable!DropAndRefresh)
  BY <1>1, DoneRest, PlansTyped
<1>3. /\ writer'[w].pc = "execute" /\ writer'[w].spec = writer[w].spec
      /\ writer'[w].swaps = writer[w].swaps /\ writer'[w].listed = writer[w].listed
      /\ writer'[w].before = writer[w].before
  BY <1>1, DoneForm
<1>4. /\ BeforeFilling(w) => Head(t) = WideTable!Rebuild[10 - n]
      /\ ~BeforeSwap(w)
      /\ ~AfterSwap(w) /\ ~BetweenRenames(w)
      /\ BeforeRefill(w) => Head(t) = WideTable!DropAndRefresh[6 - n]
      /\ ~Refilling(w)
  BY <1>1, Turns, Phases
<1>5. DOMAIN catalog = WideTable!Names /\ "target" \in WideTable!Names /\ "tmp" \in WideTable!Names
      /\ "old" \in WideTable!Names
  BY DEF WideTypes, WideTable!Names
<1> DEFINE empty == [layout |-> v, rows |-> {}]
<1>6. [empty EXCEPT !.rows = {}] = empty
  OBVIOUS
<1>7. CASE writer[w].swaps /\ BeforeFilling(w)
  <2>1. /\ n \in 4..9 /\ Rest(t, WideTable!Rebuild) /\ catalog["target"] = writer[w].before
        /\ n <= 7 => catalog["old"] = WideTable!Absent
        /\ n <= 6 => catalog["tmp"] = empty
    BY <1>7 DEF BeforeFilling
  <2> HIDE DEF n, empty
  <2>2. n = 6 /\ Head(t).on = "tmp"
    <3>1. n \in {4, 5, 6, 7, 8, 9}
      BY <2>1
    <3> QED
      BY <1>1, <1>4, <1>7, <3>1, RebuildAt
  <2>3. /\ Len(writer'[w].todo) = 5 /\ catalog'["tmp"] = empty
        /\ catalog'["target"] = catalog["target"] /\ catalog'["old"] = WideTable!Absent
    <3>1. catalog' = [catalog EXCEPT !["tmp"].rows = {}]
      BY <1>1, <2>2
    <3>2. /\ catalog'["tmp"] = [catalog["tmp"] EXCEPT !.rows = {}]
          /\ catalog'["target"] = catalog["target"] /\ catalog'["old"] = catalog["old"]
      BY <1>5, <3>1
    <3> QED
      BY <1>2, <1>6, <2>1, <2>2, <3>2
  <2>4. Rest(writer'[w].todo, WideTable!Rebuild)
    BY <1>2, <2>1
  <2>5. BeforeFilling(w)'
    BY <1>3, <2>1, <2>3, <2>4 DEF BeforeFilling, empty
  <2> QED
    BY <1>1, <1>3, <1>7, <2>5 DEF RunInPlace
<1>8. CASE ~writer[w].swaps /\ BeforeRefill(w)
  <2>1. n \in 1..5 /\ Rest(t, WideTable!DropAndRefresh) /\ (n <= 3 => catalog["target"] = empty)
    BY <1>8 DEF BeforeRefill
  <2> HIDE DEF n, empty
  <2>2. n = 3 /\ Head(t).on = "target"
    <3>1. n \in {1, 2, 3, 4, 5}
      BY <2>1
    <3> QED
      BY <1>1, <1>4, <1>8, <3>1, DropAndRefreshOrder
  <2>3. Len(writer'[w].todo) = 2 /\ catalog'["target"] = empty
    BY <1>1, <1>2, <1>5, <1>6, <2>1, <2>2
  <2>4. Rest(writer'[w].todo, WideTable!DropAndRefresh)
    BY <1>2, <2>1
  <2>5. BeforeRefill(w)'
    BY <1>3, <2>3, <2>4 DEF BeforeRefill, empty
  <2> QED
    BY <1>3, <1>8, <2>5 DEF RunInPlace
<1> QED
  BY <1>1, <1>4, <1>7, <1>8 DEF RunInPlace

\* A table whose insertions are done is whole.
LEMMA FilledWhole ==
    ASSUME NEW w, LastMonth \in Nat, WideTypes(w), writer[w].pc # "idle",
           NEW name \in WideTable!Names, NEW k, k = Len(writer[w].todo),
           Filling(writer[w].todo, k, name, writer[w].spec.version, writer[w].listed)
    PROVE  catalog[name] = WideTable!Whole(writer[w].spec.version, writer[w].listed)
<1> DEFINE t == writer[w].todo
           v == writer[w].spec.version
           m == writer[w].listed
<1>1. t \in Seq(Statements) /\ m \in 0..LastMonth /\ catalog[name] \in Tables
  BY RunForm DEF WideTypes
<1>2. Months(t, k) = {}
  <2>1. 1..(Len(t) - k) = {}
    BY <1>1
  <2> HIDE DEF t
  <2> QED
    BY <2>1 DEF Months
<1>3. catalog[name].layout = v /\ catalog[name].rows \union ({v} \X Months(t, k)) = {v} \X (1..m)
  BY DEF Filling
<1> HIDE DEF t, v, m
<1>4. catalog[name].rows = {v} \X (1..m)
  BY <1>2, <1>3
<1>5. catalog[name] = [layout |-> v, rows |-> {v} \X (1..m)]
  BY <1>1, <1>3, <1>4 DEF Tables, WideTable!Absent
<1> QED
  BY <1>5 DEF WideTable!Whole, v, m

\* So does the first rename of the swap.
LEMMA SetAsideKeeps ==
    ASSUME NEW w, LastMonth \in Nat, WideTypes(w), RunInPlace(w), WideTable!SetAside(w)
    PROVE  RunInPlace(w)'
<1> DEFINE t == writer[w].todo
           n == Len(t)
           v == writer[w].spec.version
           m == writer[w].listed
<1>1. /\ writer[w].pc = "execute" /\ t # <<>> /\ Head(t).op = "backup" /\ WideTable!Done(w)
      /\ catalog' = [catalog EXCEPT !["old"] = catalog["target"], !["target"] = WideTable!Absent]
  BY DEF WideTable!SetAside, WideTable!Executing
<1>2. /\ n \in Nat \ {0} /\ Len(writer'[w].todo) = n - 1
      /\ \A i \in 1..(n - 1) : writer'[w].todo[i] = t[i + 1]
  BY <1>1, DoneRest
<1>3. /\ writer'[w].pc = "execute" /\ writer'[w].spec = writer[w].spec
      /\ writer'[w].swaps = writer[w].swaps /\ writer'[w].listed = writer[w].listed
      /\ writer'[w].before = writer[w].before
  BY <1>1, DoneForm
<1>4. /\ ~BeforeFilling(w)
      /\ BeforeSwap(w) => n = 3
      /\ ~AfterSwap(w) /\ ~BetweenRenames(w) /\ ~BeforeRefill(w) /\ ~Refilling(w)
  BY <1>1, Phases
<1>5. writer[w].swaps /\ BeforeSwap(w) /\ writer[w].before # WideTable!Absent /\ n = 3
  BY <1>1, <1>4 DEF RunInPlace
<1>6. /\ t[2] = WideTable!Swap[2] /\ t[3] = WideTable!Drop("old")[1]
      /\ catalog["tmp"] = WideTable!Whole(v, m) /\ catalog["target"] = writer[w].before
  <2>1. Filling(t, n, "tmp", v, m) /\ t[n - 1] = WideTable!Swap[2] /\ t[n] = WideTable!Drop("old")[1]
    BY <1>5 DEF BeforeSwap
  <2>2. "tmp" \in WideTable!Names /\ n - 1 = 2
    BY <1>5 DEF WideTable!Names
  <2>3. catalog["tmp"] = WideTable!Whole(v, m)
    BY <1>1, <2>1, <2>2, FilledWhole
  <2> QED
    BY <1>5, <2>1, <2>2, <2>3 DEF BeforeSwap
<1>7. Len(writer'[w].todo) = 2 /\ writer'[w].todo[1] = WideTable!Rebuild[8]
      /\ writer'[w].todo[2] = WideTable!Rebuild[9]
  <2>1. WideTable!Swap[2] = WideTable!Rebuild[8] /\ WideTable!Drop("old")[1] = WideTable!Rebuild[9]
    BY RebuildOrder DEF WideTable!Swap, WideTable!Drop
  <2> QED
    BY <1>2, <1>5, <1>6, <2>1
<1>8. Rest(writer'[w].todo, WideTable!Rebuild)
  <2>1. Len(WideTable!Rebuild) = 9
    BY RebuildOrder
  <2>2. \A i \in 1..2 : i = 1 \/ i = 2
    OBVIOUS
  <2> QED
    BY <1>7, <2>1, <2>2 DEF Rest
<1>9. /\ catalog'["target"] = WideTable!Absent /\ catalog'["old"] = catalog["target"]
      /\ catalog'["tmp"] = catalog["tmp"]
  <2>1. DOMAIN catalog = WideTable!Names
    BY DEF WideTypes
  <2> QED
    BY <1>1, <2>1 DEF WideTable!Names
<1>10. BetweenRenames(w)'
  BY <1>3, <1>6, <1>7, <1>8, <1>9 DEF BetweenRenames, WideTable!Whole
<1> QED
  BY <1>3, <1>5, <1>10 DEF RunInPlace

\* So does the second.
LEMMA PutInPlaceKeeps ==
    ASSUME NEW w, LastMonth \in Nat, WideTypes(w), RunInPlace(w), WideTable!PutInPlace(w)
    PROVE  RunInPlace(w)'
<1> DEFINE t == writer[w].todo
<1>1. /\ writer[w].pc = "execute" /\ t # <<>> /\ Head(t).op = "publish" /\ WideTable!Done(w)
      /\ catalog' = [catalog EXCEPT !["target"] = catalog["tmp"], !["tmp"] = WideTable!Absent]
  BY DEF WideTable!PutInPlace, WideTable!Executing
<1>2. /\ writer'[w].pc = "execute" /\ writer'[w].spec = writer[w].spec
      /\ writer'[w].swaps = writer[w].swaps /\ writer'[w].listed = writer[w].listed
      /\ writer'[w].before = writer[w].before
  BY <1>1, DoneForm
<1>3. writer[w].swaps /\ BetweenRenames(w) /\ writer[w].before # WideTable!Absent
  BY <1>1, Phases DEF RunInPlace
<1>4. Len(writer'[w].todo) = 1 /\ Rest(writer'[w].todo, WideTable!Rebuild)
  <2>1. Len(t) = 2 /\ Rest(t, WideTable!Rebuild)
    BY <1>3 DEF BetweenRenames
  <2>2. Len(writer'[w].todo) = Len(t) - 1
    BY <1>1, DoneRest
  <2>3. Rest(writer'[w].todo, WideTable!Rebuild)
    BY <1>1, <2>1, DoneRest, PlansTyped
  <2> QED
    BY <2>1, <2>2, <2>3
<1>5. catalog'["target"] = catalog["tmp"]
  <2>1. DOMAIN catalog = WideTable!Names
    BY DEF WideTypes
  <2> QED
    BY <1>1, <2>1 DEF WideTable!Names
<1>6. catalog'["target"] = WideTable!Whole(writer'[w].spec.version, writer'[w].listed)
  BY <1>2, <1>3, <1>5 DEF BetweenRenames
<1>7. AfterSwap(w)'
  BY <1>4, <1>6 DEF AfterSwap, WideTable!Whole
<1> QED
  BY <1>2, <1>3, <1>7 DEF RunInPlace

\* The insertions of the months.
LEMMA InsertsAll ==
    ASSUME LastMonth \in Nat, source \in 0..LastMonth, NEW name \in WideTable!Names,
           NEW s, s = WideTable!InsertByMonth(name)
    PROVE  /\ s \in Seq(Statements) /\ Len(s) \in Nat
           /\ \A i \in 1..Len(s) : s[i].op = "insert" /\ s[i].on = name
           /\ {m \in 1..LastMonth : \E i \in 1..Len(s) : m = s[i].month} = 1..source
<1>1. s = [m \in 1..source |-> [op |-> "insert", on |-> name, month |-> m]]
  BY DEF WideTable!InsertByMonth
<1>2. \A m \in 1..source : [op |-> "insert", on |-> name, month |-> m] \in Statements
  <2>1. \A m \in 1..source : m \in 1..LastMonth
    OBVIOUS
  <2> QED
    BY <2>1 DEF Statements
<1>3. s \in Seq(Statements) /\ Len(s) = source
  BY <1>1, <1>2
<1>4. \A i \in 1..source : s[i].op = "insert" /\ s[i].on = name /\ s[i].month = i
  BY <1>1
<1>5. {m \in 1..LastMonth : \E i \in 1..source : m = s[i].month} = 1..source
  BY <1>4
<1> QED
  BY <1>3, <1>4, <1>5

\* A list before another.
LEMMA Before ==
    ASSUME NEW s \in Seq(Statements), NEW r \in Seq(Statements)
    PROVE  /\ s \o r \in Seq(Statements) /\ Len(s \o r) = Len(s) + Len(r)
           /\ \A i \in 1..Len(s) : (s \o r)[i] = s[i]
           /\ \A i \in 1..Len(r) : (s \o r)[Len(s) + i] = r[i]
OBVIOUS

\* The run is replaced.
LEMMA RunSet ==
    ASSUME NEW w, WideTypes(w), NEW x \in {WideTable!Idle} \union Runs, writer' = [writer EXCEPT ![w] = x]
    PROVE  writer' \in [{w} -> {WideTable!Idle} \union Runs] /\ writer'[w] = x
BY DEF WideTypes

\* Where a run lists the months.
LEMMA AtList ==
    ASSUME NEW w, WideTypes(w), RunInPlace(w), WideTable!Executing(w, "list")
    PROVE  LET t == writer[w].todo
               empty == [layout |-> writer[w].spec.version, rows |-> {}]
           IN  /\ writer[w].swaps =>
                     /\ writer[w].before # WideTable!Absent
                     /\ Rest(t, WideTable!Rebuild) /\ Len(t) = 5 /\ Head(t).on = "tmp"
                     /\ catalog["target"] = writer[w].before
                     /\ catalog["old"] = WideTable!Absent /\ catalog["tmp"] = empty
               /\ ~writer[w].swaps =>
                     /\ Rest(t, WideTable!DropAndRefresh) /\ Len(t) = 2 /\ Head(t).on = "target"
                     /\ catalog["target"] = empty
<1> DEFINE t == writer[w].todo
           n == Len(t)
<1>1. writer[w].pc = "execute" /\ t # <<>> /\ Head(t).op = "list"
  BY DEF WideTable!Executing
<1>2. ~BeforeSwap(w) /\ ~BetweenRenames(w) /\ ~AfterSwap(w) /\ ~Refilling(w)
  BY <1>1, Phases
<1>3. /\ writer[w].swaps => BeforeFilling(w) /\ writer[w].before # WideTable!Absent
      /\ ~writer[w].swaps => BeforeRefill(w)
  BY <1>1, <1>2 DEF RunInPlace
<1>4. n \in Nat
  BY <1>1, RunForm
<1>5. BeforeFilling(w) => n \in {4, 5, 6, 7, 8, 9} /\ Head(t) = WideTable!Rebuild[10 - n]
  <2>1. n \in 4..9 => n \in {4, 5, 6, 7, 8, 9}
    BY <1>4
  <2> QED
    BY <1>1, <2>1, Turns DEF BeforeFilling
<1>6. BeforeRefill(w) => n \in {1, 2, 3, 4, 5} /\ Head(t) = WideTable!DropAndRefresh[6 - n]
  <2>1. n \in 1..5 => n \in {1, 2, 3, 4, 5}
    BY <1>4
  <2> QED
    BY <1>1, <2>1, Turns DEF BeforeRefill
<1>7. BeforeFilling(w) => /\ Rest(t, WideTable!Rebuild) /\ catalog["target"] = writer[w].before
                          /\ n <= 7 => catalog["old"] = WideTable!Absent
                          /\ n <= 6 => catalog["tmp"] = [layout |-> writer[w].spec.version, rows |-> {}]
  BY DEF BeforeFilling
<1>8. BeforeRefill(w) => /\ Rest(t, WideTable!DropAndRefresh)
                         /\ n <= 3 => catalog["target"] = [layout |-> writer[w].spec.version, rows |-> {}]
  BY DEF BeforeRefill
<1> HIDE DEF n
<1>9. BeforeFilling(w) => n = 5 /\ Head(t).on = "tmp"
  BY <1>1, <1>5, RebuildAt
<1>10. BeforeRefill(w) => n = 2 /\ Head(t).on = "target"
  BY <1>1, <1>6, DropAndRefreshOrder
<1>11. n = 5 => n <= 7 /\ n <= 6
  OBVIOUS
<1>12. n = 2 => n <= 3
  OBVIOUS
<1> QED
  BY <1>3, <1>7, <1>8, <1>9, <1>10, <1>11, <1>12 DEF n

\* Where it inserts everything at once.
LEMMA AtSelect ==
    ASSUME NEW w, WideTypes(w), RunInPlace(w), WideTable!Executing(w, "select")
    PROVE  LET t == writer[w].todo
               empty == [layout |-> writer[w].spec.version, rows |-> {}]
           IN  /\ writer[w].swaps =>
                     /\ writer[w].before # WideTable!Absent
                     /\ Rest(t, WideTable!Rebuild) /\ Len(t) = 4 /\ Head(t).on = "tmp"
                     /\ catalog["target"] = writer[w].before
                     /\ catalog["old"] = WideTable!Absent /\ catalog["tmp"] = empty
               /\ ~writer[w].swaps =>
                     /\ Rest(t, WideTable!DropAndRefresh) /\ Len(t) = 1 /\ Head(t).on = "target"
                     /\ catalog["target"] = empty
<1> DEFINE t == writer[w].todo
           n == Len(t)
<1>1. writer[w].pc = "execute" /\ t # <<>> /\ Head(t).op = "select"
  BY DEF WideTable!Executing
<1>2. ~BeforeSwap(w) /\ ~BetweenRenames(w) /\ ~AfterSwap(w) /\ ~Refilling(w)
  BY <1>1, Phases
<1>3. /\ writer[w].swaps => BeforeFilling(w) /\ writer[w].before # WideTable!Absent
      /\ ~writer[w].swaps => BeforeRefill(w)
  BY <1>1, <1>2 DEF RunInPlace
<1>4. n \in Nat
  BY <1>1, RunForm
<1>5. BeforeFilling(w) => n \in {4, 5, 6, 7, 8, 9} /\ Head(t) = WideTable!Rebuild[10 - n]
  <2>1. n \in 4..9 => n \in {4, 5, 6, 7, 8, 9}
    BY <1>4
  <2> QED
    BY <1>1, <2>1, Turns DEF BeforeFilling
<1>6. BeforeRefill(w) => n \in {1, 2, 3, 4, 5} /\ Head(t) = WideTable!DropAndRefresh[6 - n]
  <2>1. n \in 1..5 => n \in {1, 2, 3, 4, 5}
    BY <1>4
  <2> QED
    BY <1>1, <2>1, Turns DEF BeforeRefill
<1>7. BeforeFilling(w) => /\ Rest(t, WideTable!Rebuild) /\ catalog["target"] = writer[w].before
                          /\ n <= 7 => catalog["old"] = WideTable!Absent
                          /\ n <= 6 => catalog["tmp"] = [layout |-> writer[w].spec.version, rows |-> {}]
  BY DEF BeforeFilling
<1>8. BeforeRefill(w) => /\ Rest(t, WideTable!DropAndRefresh)
                         /\ n <= 3 => catalog["target"] = [layout |-> writer[w].spec.version, rows |-> {}]
  BY DEF BeforeRefill
<1> HIDE DEF n
<1>9. BeforeFilling(w) => n = 4 /\ Head(t).on = "tmp"
  BY <1>1, <1>5, RebuildAt
<1>10. BeforeRefill(w) => n = 1 /\ Head(t).on = "target"
  BY <1>1, <1>6, DropAndRefreshOrder
<1>11. n = 4 => n <= 7 /\ n <= 6
  OBVIOUS
<1>12. n = 1 => n <= 3
  OBVIOUS
<1> QED
  BY <1>3, <1>7, <1>8, <1>9, <1>10, <1>11, <1>12 DEF n

\* What is left of a list after two statements.
LEMMA BehindTwo ==
    ASSUME NEW t \in Seq(Statements), NEW n \in Nat, Len(t) = n, n >= 2
    PROVE  /\ Tail(Tail(t)) \in Seq(Statements) /\ Len(Tail(Tail(t))) = n - 2
           /\ \A i \in 1..(n - 2) : Tail(Tail(t))[i] = t[i + 2]
<1> DEFINE q == Tail(t)
<1>1. q \in Seq(Statements) /\ Len(q) = n - 1 /\ \A i \in 1..(n - 1) : q[i] = t[i + 1]
  <2>1. t # <<>>
    <3>1. t = <<>> => Len(t) = 0
      OBVIOUS
    <3> QED
      BY <3>1
  <2> QED
    BY <2>1, Behind
<1> HIDE DEF q
<1>2. q # <<>>
  <2>1. q = <<>> => Len(q) = 0
    OBVIOUS
  <2>2. n - 1 # 0
    OBVIOUS
  <2> QED
    BY <1>1, <2>1, <2>2
<1>3. /\ Tail(q) \in Seq(Statements) /\ Len(Tail(q)) = (n - 1) - 1
      /\ \A i \in 1..((n - 1) - 1) : Tail(q)[i] = q[i + 1]
  BY <1>1, <1>2, Behind
<1>4. (n - 1) - 1 = n - 2 /\ \A i \in 1..(n - 2) : i + 1 \in 1..(n - 1) /\ (i + 1) + 1 = i + 2
  OBVIOUS
<1>5. \A i \in 1..(n - 2) : Tail(q)[i] = t[i + 2]
  BY <1>1, <1>3, <1>4
<1> QED
  BY <1>3, <1>4, <1>5 DEF q

\* What a run has come to when the swap is ahead.
LEMMA SwapAhead ==
    ASSUME NEW w,
           Len(writer'[w].todo) >= 3,
           \A i \in 1..(Len(writer'[w].todo) - 3) :
               writer'[w].todo[i].op = "insert" /\ writer'[w].todo[i].on = "tmp",
           catalog'["tmp"].layout = writer'[w].spec.version,
           catalog'["tmp"].rows \union ({writer'[w].spec.version} \X Months(writer'[w].todo, 3))
             = {writer'[w].spec.version} \X (1..writer'[w].listed),
           writer'[w].todo[Len(writer'[w].todo) - 2] = WideTable!Swap[1],
           writer'[w].todo[Len(writer'[w].todo) - 1] = WideTable!Swap[2],
           writer'[w].todo[Len(writer'[w].todo)] = WideTable!Drop("old")[1],
           catalog'["target"] = writer'[w].before, catalog'["old"] = WideTable!Absent
    PROVE  BeforeSwap(w)'
BY DEF BeforeSwap, Filling, Months, WideTable!Swap, WideTable!Drop

\* And when the target is being filled.
LEMMA RefillAhead ==
    ASSUME NEW w,
           Len(writer'[w].todo) >= 0,
           \A i \in 1..(Len(writer'[w].todo) - 0) :
               writer'[w].todo[i].op = "insert" /\ writer'[w].todo[i].on = "target",
           catalog'["target"].layout = writer'[w].spec.version,
           catalog'["target"].rows \union ({writer'[w].spec.version} \X Months(writer'[w].todo, 0))
             = {writer'[w].spec.version} \X (1..writer'[w].listed)
    PROVE  Refilling(w)'
BY DEF Refilling, Filling, Months

\* A run that has the months to insert.
LEMMA ListForm ==
    ASSUME NEW w, LastMonth \in Nat, WideTypes(w), RunInPlace(w), WideTable!ListMonths(w),
           writer[w].spec.monthly, source > 0
    PROVE  /\ writer' \in [{w} -> {WideTable!Idle} \union Runs]
           /\ writer'[w].pc = "execute"
           /\ writer'[w].todo = WideTable!InsertByMonth(Head(writer[w].todo).on)
                                \o Tail(Tail(writer[w].todo))
           /\ writer'[w].spec = writer[w].spec /\ writer'[w].swaps = writer[w].swaps
           /\ writer'[w].listed = source /\ writer'[w].before = writer[w].before
<1> DEFINE t == writer[w].todo
           s == WideTable!InsertByMonth(Head(t).on)
           u == s \o Tail(Tail(t))
           x == [writer[w] EXCEPT !.listed = source, !.todo = u]
<1>1. writer[w].pc = "execute" /\ t # <<>>
      /\ writer' = [writer EXCEPT ![w].listed = source, ![w].todo = s \o Tail(Tail(@))]
  BY DEF WideTable!ListMonths, WideTable!Executing, WideTable!On
<1>2. writer[w] \in Runs /\ t \in Seq(Statements)
  BY <1>1, RunForm
<1>3. Head(t).on \in WideTable!Names
  BY <1>1, <1>2, Behind DEF Statements
<1>4. Len(t) = 5 \/ Len(t) = 2
  BY AtList, RunForm DEF WideTable!ListMonths, WideTable!Executing
<1>5. Tail(Tail(t)) \in Seq(Statements)
  <2>1. 5 \in Nat /\ 5 >= 2 /\ 2 \in Nat /\ 2 >= 2
    OBVIOUS
  <2>2. \A n \in Nat : Len(t) = n /\ n >= 2 => Tail(Tail(t)) \in Seq(Statements)
    BY <1>2, BehindTwo
  <2> QED
    BY <1>4, <2>1, <2>2
<1>6. source \in 0..LastMonth
  BY DEF WideTypes
<1>7. u \in Seq(Statements)
  <2>1. s \in Seq(Statements)
    BY <1>3, <1>6, InsertsAll
  <2> QED
    BY <1>5, <2>1, Before
<1>8. writer' = [writer EXCEPT ![w] = x]
  BY <1>1 DEF WideTypes
<1> HIDE DEF u, s, t
<1>9. x \in Runs /\ x.pc = writer[w].pc /\ x.todo = u /\ x.spec = writer[w].spec
      /\ x.swaps = writer[w].swaps /\ x.listed = source /\ x.before = writer[w].before
  BY <1>2, <1>6, <1>7 DEF Runs
<1> HIDE DEF x
<1>10. writer' \in [{w} -> {WideTable!Idle} \union Runs] /\ writer'[w] = x
  BY <1>8, <1>9, RunSet
<1> QED
  BY <1>1, <1>9, <1>10, ZenonT(30) DEF u, s, t

\* A run that has inserted everything.
LEMMA SelectForm ==
    ASSUME NEW w, LastMonth \in Nat, WideTypes(w), WideTable!InsertSelect(w)
    PROVE  /\ writer' \in [{w} -> {WideTable!Idle} \union Runs]
           /\ writer'[w].pc = "execute" /\ writer'[w].todo = Tail(writer[w].todo)
           /\ writer'[w].spec = writer[w].spec /\ writer'[w].swaps = writer[w].swaps
           /\ writer'[w].listed = source /\ writer'[w].before = writer[w].before
<1> DEFINE t == writer[w].todo
           u == Tail(t)
           x == [writer[w] EXCEPT !.listed = source, !.todo = u]
<1>1. writer[w].pc = "execute" /\ t # <<>>
      /\ writer' = [writer EXCEPT ![w].listed = source, ![w].todo = Tail(@)]
  BY DEF WideTable!InsertSelect, WideTable!Executing
<1>2. writer[w] \in Runs /\ u \in Seq(Statements) /\ source \in 0..LastMonth
  BY <1>1, RunForm, Behind DEF WideTypes
<1>3. writer' = [writer EXCEPT ![w] = x]
  BY <1>1 DEF WideTypes
<1> HIDE DEF u
<1>4. x \in Runs /\ x.pc = writer[w].pc /\ x.todo = u /\ x.spec = writer[w].spec
      /\ x.swaps = writer[w].swaps /\ x.listed = source /\ x.before = writer[w].before
  BY <1>2 DEF Runs
<1> HIDE DEF x
<1>5. writer' \in [{w} -> {WideTable!Idle} \union Runs] /\ writer'[w] = x
  BY <1>3, <1>4, RunSet
<1> QED
  BY <1>1, <1>4, <1>5 DEF u

\* The listing of the months keeps the order.
LEMMA ListKeeps ==
    ASSUME NEW w, LastMonth \in Nat, WideTypes(w), RunInPlace(w), WideTable!ListMonths(w)
    PROVE  RunInPlace(w)'
<1> DEFINE t == writer[w].todo
           n == Len(t)
           v == writer[w].spec.version
           empty == [layout |-> v, rows |-> {}]
<1>1. writer[w].pc = "execute" /\ t # <<>> /\ catalog' = catalog /\ WideTable!Executing(w, "list")
  BY DEF WideTable!ListMonths, WideTable!Executing
<1>2. /\ t \in Seq(Statements) /\ n \in Nat \ {0} /\ Head(t).on \in WideTable!Names
      /\ source \in 0..LastMonth
  BY <1>1, RunForm, Behind DEF Statements, WideTypes
<1>3. writer[w].swaps => /\ writer[w].before # WideTable!Absent
                         /\ Rest(t, WideTable!Rebuild) /\ n = 5 /\ Head(t).on = "tmp"
                         /\ catalog["target"] = writer[w].before
                         /\ catalog["old"] = WideTable!Absent /\ catalog["tmp"] = empty
  BY <1>1, AtList
<1>4. ~writer[w].swaps => /\ Rest(t, WideTable!DropAndRefresh) /\ n = 2 /\ Head(t).on = "target"
                          /\ catalog["target"] = empty
  BY <1>1, AtList
<1>5. CASE ~(writer[w].spec.monthly /\ source > 0)
  <2>1. WideTable!Done(w)
    BY <1>5 DEF WideTable!ListMonths
  <2>2. /\ writer'[w].pc = "execute" /\ writer'[w].spec = writer[w].spec
        /\ writer'[w].swaps = writer[w].swaps /\ writer'[w].before = writer[w].before
    BY <1>1, <2>1, DoneForm
  <2>3. /\ Len(writer'[w].todo) = n - 1
        /\ Rest(t, WideTable!Rebuild) => Rest(writer'[w].todo, WideTable!Rebuild)
        /\ Rest(t, WideTable!DropAndRefresh) => Rest(writer'[w].todo, WideTable!DropAndRefresh)
    BY <1>1, <2>1, DoneRest, PlansTyped
  <2> HIDE DEF n, t
  <2>4. ASSUME writer[w].swaps PROVE BeforeFilling(w)'
    <3>1. Len(writer'[w].todo) = 4
      BY <1>3, <2>3, <2>4
    <3> QED
      BY <1>1, <1>3, <2>2, <2>3, <2>4, <3>1 DEF BeforeFilling
  <2>5. ASSUME ~writer[w].swaps PROVE BeforeRefill(w)'
    <3>1. Len(writer'[w].todo) = 1
      BY <1>4, <2>3, <2>5
    <3> QED
      BY <1>1, <1>4, <2>2, <2>3, <2>5, <3>1 DEF BeforeRefill
  <2> QED
    BY <1>3, <2>2, <2>4, <2>5 DEF RunInPlace
<1>6. CASE writer[w].spec.monthly /\ source > 0
  <2> DEFINE name == Head(t).on
             s == WideTable!InsertByMonth(name)
             r == Tail(Tail(t))
             u == writer'[w].todo
             l == Len(s)
  <2>1. /\ writer'[w].pc = "execute" /\ writer'[w].spec = writer[w].spec /\ u = s \o r
        /\ writer'[w].swaps = writer[w].swaps /\ writer'[w].listed = source
        /\ writer'[w].before = writer[w].before
    BY <1>6, ListForm
  <2> HIDE DEF n
  <2>2. n >= 2
    BY <1>3, <1>4
  <2>3. /\ r \in Seq(Statements) /\ Len(r) = n - 2
        /\ \A i \in 1..(n - 2) : r[i] = t[i + 2]
    BY <1>2, <2>2, BehindTwo DEF n
  <2>4. /\ s \in Seq(Statements) /\ l \in Nat
        /\ \A i \in 1..l : s[i].op = "insert" /\ s[i].on = name
        /\ {m \in 1..LastMonth : \E i \in 1..l : m = s[i].month} = 1..source
    BY <1>2, InsertsAll
  <2> HIDE DEF name, s, r, t
  <2>5. /\ Len(u) = l + Len(r)
        /\ \A i \in 1..l : u[i] = s[i]
        /\ \A i \in 1..Len(r) : u[l + i] = r[i]
    BY <2>1, <2>3, <2>4, Before
  <2> HIDE DEF u, l, v
  <2>6. ASSUME NEW k, k = n - 2
        PROVE  /\ Len(u) - k = l /\ Len(u) >= k /\ Months(u, k) = 1..source
               /\ \A i \in 1..(Len(u) - k) : u[i].op = "insert" /\ u[i].on = name
    <3>1. Len(u) - k = l /\ Len(u) >= k
      BY <1>2, <2>2, <2>3, <2>4, <2>5, <2>6
    <3>2. {m \in 1..LastMonth : \E i \in 1..l : m = u[i].month} = 1..source
      BY <2>4, <2>5
    <3>3. Months(u, k) = 1..source
      BY <3>1, <3>2 DEF Months
    <3>4. \A i \in 1..l : u[i].op = "insert" /\ u[i].on = name
      BY <2>4, <2>5
    <3> QED
      BY <3>1, <3>3, <3>4
  <2>7. ASSUME writer[w].swaps PROVE BeforeSwap(w)'
    <3>1. n = 5 /\ name = "tmp" /\ Rest(t, WideTable!Rebuild) /\ n - 2 = 3
      BY <1>3, <2>7 DEF name
    <3>2. /\ Len(u) >= 3 /\ Months(u, 3) = 1..source
          /\ \A i \in 1..(Len(u) - 3) : u[i].op = "insert" /\ u[i].on = "tmp"
      BY <2>6, <3>1
    <3>3. t[3] = WideTable!Rebuild[7] /\ t[4] = WideTable!Rebuild[8] /\ t[5] = WideTable!Rebuild[9]
      <4>1. \A i \in 1..5 : t[i] = WideTable!Rebuild[9 - 5 + i]
        BY <3>1, RebuildOrder DEF Rest, n
      <4>2. t[3] = WideTable!Rebuild[9 - 5 + 3] /\ t[4] = WideTable!Rebuild[9 - 5 + 4]
            /\ t[5] = WideTable!Rebuild[9 - 5 + 5]
        BY <4>1
      <4> QED
        BY <4>2
    <3>4. r[1] = t[3] /\ r[2] = t[4] /\ r[3] = t[5] /\ Len(r) = 3
      BY <2>3, <3>1
    <3>5. Len(u) - 2 = l + 1 /\ Len(u) - 1 = l + 2 /\ Len(u) = l + 3
      BY <2>4, <2>5, <3>4
    <3>6. u[l + 1] = r[1] /\ u[l + 2] = r[2] /\ u[l + 3] = r[3]
      BY <2>5, <3>4
    <3>7. /\ u[Len(u) - 2] = WideTable!Swap[1] /\ u[Len(u) - 1] = WideTable!Swap[2]
          /\ u[Len(u)] = WideTable!Drop("old")[1]
      <4>1. /\ WideTable!Rebuild[7] = WideTable!Swap[1] /\ WideTable!Rebuild[8] = WideTable!Swap[2]
            /\ WideTable!Rebuild[9] = WideTable!Drop("old")[1]
        BY RebuildOrder DEF WideTable!Swap, WideTable!Drop
      <4> QED
        BY <3>3, <3>4, <3>5, <3>6, <4>1, Zenon
    <3>8. catalog'["tmp"].layout = v /\ catalog'["tmp"].rows = {}
      BY <1>1, <1>3, <2>7
    <3>9. writer'[w].spec.version = v /\ writer'[w].listed = source
      BY <2>1 DEF v
    <3>10. catalog'["tmp"].rows \union ({writer'[w].spec.version} \X Months(u, 3))
             = {writer'[w].spec.version} \X (1..writer'[w].listed)
      BY <3>2, <3>8, <3>9
    <3>11. catalog'["target"] = writer'[w].before /\ catalog'["old"] = WideTable!Absent
      BY <1>1, <1>3, <2>1, <2>7
    <3> QED
      BY <3>2, <3>7, <3>8, <3>9, <3>10, <3>11, SwapAhead DEF u
  <2>8. ASSUME ~writer[w].swaps PROVE Refilling(w)'
    <3>1. n = 2 /\ name = "target" /\ n - 2 = 0
      BY <1>4, <2>8 DEF name
    <3>2. /\ Len(u) >= 0 /\ Months(u, 0) = 1..source
          /\ \A i \in 1..(Len(u) - 0) : u[i].op = "insert" /\ u[i].on = "target"
      BY <2>6, <3>1
    <3>3. catalog'["target"].layout = v /\ catalog'["target"].rows = {}
      BY <1>1, <1>4, <2>8
    <3>4. writer'[w].spec.version = v /\ writer'[w].listed = source
      BY <2>1 DEF v
    <3>5. catalog'["target"].rows \union ({writer'[w].spec.version} \X Months(u, 0))
             = {writer'[w].spec.version} \X (1..writer'[w].listed)
      BY <3>2, <3>3, <3>4
    <3> QED
      BY <3>2, <3>3, <3>4, <3>5, RefillAhead DEF u
  <2> QED
    BY <1>3, <2>1, <2>7, <2>8 DEF RunInPlace
<1> QED
  BY <1>5, <1>6

\* So does the insertion of everything.
LEMMA SelectKeeps ==
    ASSUME NEW w, LastMonth \in Nat, WideTypes(w), RunInPlace(w), WideTable!InsertSelect(w)
    PROVE  RunInPlace(w)'
<1> DEFINE t == writer[w].todo
           n == Len(t)
           u == writer'[w].todo
           v == writer[w].spec.version
           empty == [layout |-> v, rows |-> {}]
           all == {v} \X (1..source)
<1>1. /\ writer[w].pc = "execute" /\ t # <<>> /\ WideTable!Executing(w, "select")
      /\ catalog' = [catalog EXCEPT ![Head(t).on].rows = @ \union all]
  BY DEF WideTable!InsertSelect, WideTable!Executing, WideTable!On, WideTable!Rows
<1>2. /\ writer'[w].pc = "execute" /\ writer'[w].spec = writer[w].spec /\ u = Tail(t)
      /\ writer'[w].swaps = writer[w].swaps /\ writer'[w].listed = source
      /\ writer'[w].before = writer[w].before
  BY SelectForm
<1>3. writer[w].swaps => /\ writer[w].before # WideTable!Absent
                         /\ Rest(t, WideTable!Rebuild) /\ n = 4 /\ Head(t).on = "tmp"
                         /\ catalog["target"] = writer[w].before
                         /\ catalog["old"] = WideTable!Absent /\ catalog["tmp"] = empty
  BY <1>1, AtSelect
<1>4. ~writer[w].swaps => n = 1 /\ Head(t).on = "target" /\ catalog["target"] = empty
  BY <1>1, AtSelect
<1>5. n \in Nat /\ Len(u) = n - 1 /\ \A i \in 1..(n - 1) : u[i] = t[i + 1]
  BY <1>1, <1>2, RunForm, Behind
<1>6. ASSUME NEW name \in WideTable!Names, Head(t).on = name, catalog[name] = empty
      PROVE  /\ catalog'[name].layout = v /\ catalog'[name].rows = all
             /\ \A other \in WideTable!Names \ {name} : catalog'[other] = catalog[other]
  <2>1. DOMAIN catalog = WideTable!Names
    BY DEF WideTypes
  <2>2. [empty EXCEPT !.rows = {} \union all].layout = v /\ [empty EXCEPT !.rows = {} \union all].rows = all
    OBVIOUS
  <2>3. empty.rows = {}
    OBVIOUS
  <2> HIDE DEF empty, v, t, all
  <2>4. catalog' = [catalog EXCEPT ![name] = [catalog[name] EXCEPT !.rows = catalog[name].rows \union all]]
    BY <1>1, <1>6
  <2>5. /\ catalog'[name] = [empty EXCEPT !.rows = {} \union all]
        /\ \A other \in WideTable!Names \ {name} : catalog'[other] = catalog[other]
    BY <1>6, <2>1, <2>3, <2>4
  <2> QED
    BY <2>2, <2>5
<1>7. writer'[w].spec.version = v /\ writer'[w].listed = source
  BY <1>2
<1> HIDE DEF n, u, t, all
<1>8. ASSUME NEW k \in Nat, Len(u) = k
      PROVE  /\ Len(u) >= k /\ 1..(Len(u) - k) = {} /\ Months(u, k) = {}
  <2>1. 1..(Len(u) - k) = {} /\ Len(u) >= k
    BY <1>8
  <2>2. Months(u, k) = {}
    BY <2>1 DEF Months
  <2> QED
    BY <2>1, <2>2
<1>9. CASE writer[w].swaps
  <2>1. Len(u) = 3
    BY <1>3, <1>5, <1>9
  <2>2. /\ catalog'["tmp"].layout = v /\ catalog'["tmp"].rows = all
        /\ catalog'["target"] = writer'[w].before /\ catalog'["old"] = WideTable!Absent
    <3>1. "tmp" \in WideTable!Names /\ "target" \in WideTable!Names \ {"tmp"}
          /\ "old" \in WideTable!Names \ {"tmp"}
      BY DEF WideTable!Names
    <3>2. /\ catalog'["tmp"].layout = v /\ catalog'["tmp"].rows = all
          /\ \A other \in WideTable!Names \ {"tmp"} : catalog'[other] = catalog[other]
      BY <1>3, <1>6, <1>9, <3>1
    <3> QED
      BY <1>2, <1>3, <1>9, <3>1, <3>2
  <2>3. t[2] = WideTable!Rebuild[7] /\ t[3] = WideTable!Rebuild[8] /\ t[4] = WideTable!Rebuild[9]
    <3>1. \A i \in 1..4 : t[i] = WideTable!Rebuild[9 - 4 + i]
      BY <1>3, <1>9, RebuildOrder DEF Rest, n
    <3>2. t[2] = WideTable!Rebuild[9 - 4 + 2] /\ t[3] = WideTable!Rebuild[9 - 4 + 3]
          /\ t[4] = WideTable!Rebuild[9 - 4 + 4]
      BY <3>1
    <3> QED
      BY <3>2
  <2>4. u[1] = t[2] /\ u[2] = t[3] /\ u[3] = t[4]
    BY <1>3, <1>5, <1>9
  <2>5. /\ WideTable!Rebuild[7] = WideTable!Swap[1] /\ WideTable!Rebuild[8] = WideTable!Swap[2]
        /\ WideTable!Rebuild[9] = WideTable!Drop("old")[1]
    BY RebuildOrder DEF WideTable!Swap, WideTable!Drop
  <2>6. Len(u) - 2 = 1 /\ Len(u) - 1 = 2
    BY <2>1
  <2>7. /\ u[Len(u) - 2] = WideTable!Swap[1] /\ u[Len(u) - 1] = WideTable!Swap[2]
        /\ u[Len(u)] = WideTable!Drop("old")[1]
    BY <2>1, <2>3, <2>4, <2>5, <2>6, Zenon
  <2>8. Len(u) >= 3 /\ 1..(Len(u) - 3) = {} /\ Months(u, 3) = {}
    BY <1>8, <2>1
  <2>9. catalog'["tmp"].rows \union ({writer'[w].spec.version} \X Months(u, 3))
          = {writer'[w].spec.version} \X (1..writer'[w].listed)
    BY <1>7, <2>2, <2>8 DEF all
  <2>10. \A i \in 1..(Len(u) - 3) : u[i].op = "insert" /\ u[i].on = "tmp"
    BY <2>8
  <2>11. BeforeSwap(w)'
    BY <1>7, <2>2, <2>7, <2>8, <2>9, <2>10, SwapAhead DEF u
  <2> QED
    BY <1>2, <1>3, <1>9, <2>11 DEF RunInPlace
<1>10. CASE ~writer[w].swaps
  <2>1. Len(u) = 0
    BY <1>4, <1>5, <1>10
  <2>2. catalog'["target"].layout = v /\ catalog'["target"].rows = all
    <3>1. "target" \in WideTable!Names
      BY DEF WideTable!Names
    <3> QED
      BY <1>4, <1>6, <1>10, <3>1
  <2>3. Len(u) >= 0 /\ 1..(Len(u) - 0) = {} /\ Months(u, 0) = {}
    BY <1>8, <2>1
  <2>4. catalog'["target"].rows \union ({writer'[w].spec.version} \X Months(u, 0))
          = {writer'[w].spec.version} \X (1..writer'[w].listed)
    BY <1>7, <2>2, <2>3 DEF all
  <2>5. \A i \in 1..(Len(u) - 0) : u[i].op = "insert" /\ u[i].on = "target"
    BY <2>3
  <2>6. Refilling(w)'
    BY <1>7, <2>2, <2>3, <2>4, <2>5, RefillAhead DEF u
  <2> QED
    BY <1>2, <1>10, <2>6 DEF RunInPlace
<1> QED
  BY <1>9, <1>10

\* An insertion leaves the others ahead.
LEMMA FillingGoesOn ==
    ASSUME NEW t \in Seq(Statements), NEW k \in Nat, Len(t) > k, Head(t).op = "insert"
    PROVE  /\ Len(Tail(t)) >= k
           /\ \A i \in 1..(Len(Tail(t)) - k) : i + 1 \in 1..(Len(t) - k) /\ Tail(t)[i] = t[i + 1]
           /\ Months(t, k) = {Head(t).month} \union Months(Tail(t), k)
<1>1. /\ Len(Tail(t)) = Len(t) - 1 /\ Len(t) \in Nat \ {0} /\ Head(t) = t[1] /\ Head(t) \in Statements
      /\ \A i \in 1..(Len(t) - 1) : Tail(t)[i] = t[i + 1]
  BY Behind
<1>2. Head(t).month \in 1..LastMonth
  BY <1>1 DEF Statements
<1> DEFINE n == Len(t)
           u == Tail(t)
<1>3. n \in Nat /\ n > k /\ Len(u) = n - 1 /\ \A i \in 1..(n - 1) : u[i] = t[i + 1]
  BY <1>1
<1>4. t[1].month = Head(t).month
  BY <1>1
<1> HIDE DEF n, u
<1>5. Len(u) >= k /\ \A i \in 1..(Len(u) - k) : i + 1 \in 1..(n - k) /\ u[i] = t[i + 1]
  BY <1>3
<1>6. \A i \in 1..(n - k) : i = 1 \/ (i - 1 \in 1..(Len(u) - k) /\ u[i - 1] = t[i])
  BY <1>3
<1>7. Months(t, k) = {Head(t).month} \union Months(u, k)
  <2>1. Months(t, k) = {x \in 1..LastMonth : \E i \in 1..(n - k) : x = t[i].month}
    BY DEF Months, n
  <2>2. 1 \in 1..(n - k)
    BY <1>3
  <2>3. Months(u, k) = {x \in 1..LastMonth : \E i \in 1..(Len(u) - k) : x = u[i].month}
    BY DEF Months
  <2>4. Head(t).month \in Months(t, k)
    BY <1>2, <1>4, <2>1, <2>2
  <2>5. Months(u, k) \subseteq Months(t, k)
    <3> SUFFICES ASSUME NEW x \in 1..LastMonth, NEW i \in 1..(Len(u) - k), x = u[i].month
                 PROVE  x \in Months(t, k)
      BY <2>3
    <3> QED
      BY <1>5, <2>1
  <2>6. Months(t, k) \subseteq {Head(t).month} \union Months(u, k)
    <3> SUFFICES ASSUME NEW x \in 1..LastMonth, NEW i \in 1..(n - k), x = t[i].month
                 PROVE  x = Head(t).month \/ x \in Months(u, k)
      BY <2>1
    <3> QED
      BY <1>4, <1>6, <2>3
  <2> QED
    BY <2>4, <2>5, <2>6
<1> QED
  BY <1>5, <1>7 DEF n, u

\* Rows of one version, month after month.
LEMMA Together ==
    ASSUME NEW rows, NEW v, NEW a, NEW b
    PROVE  (rows \union ({v} \X a)) \union ({v} \X b) = rows \union ({v} \X (a \union b))
OBVIOUS

\* An insertion keeps the order.
LEMMA InsertKeeps ==
    ASSUME NEW w, LastMonth \in Nat, WideTypes(w), RunInPlace(w), WideTable!InsertMonth(w)
    PROVE  RunInPlace(w)'
<1> DEFINE t == writer[w].todo
           n == Len(t)
           u == writer'[w].todo
           v == writer[w].spec.version
           m == writer[w].listed
           now == {v} \X {Head(t).month}
<1>1. writer[w].pc = "execute" /\ t # <<>> /\ Head(t).op = "insert" /\ WideTable!Done(w)
      /\ catalog' = [catalog EXCEPT ![Head(t).on].rows = @ \union now]
  BY DEF WideTable!InsertMonth, WideTable!Executing, WideTable!On, WideTable!Rows
<1>2. /\ writer'[w].pc = "execute" /\ writer'[w].spec = writer[w].spec
      /\ writer'[w].swaps = writer[w].swaps /\ writer'[w].listed = writer[w].listed
      /\ writer'[w].before = writer[w].before /\ u = Tail(t)
  BY <1>1, DoneForm
<1>3. t \in Seq(Statements) /\ n \in Nat \ {0}
  BY <1>1, RunForm, Behind
<1>4. /\ ~BeforeFilling(w) /\ ~AfterSwap(w) /\ ~BetweenRenames(w) /\ ~BeforeRefill(w)
      /\ BeforeSwap(w) => n > 3
  BY <1>1, Phases
<1>5. /\ BeforeSwap(w) => Head(t).on = "tmp"
      /\ Refilling(w) => Head(t).on = "target"
  <2>1. BeforeSwap(w) => n # 3
    <3> HIDE DEF n
    <3>1. n > 3 => n # 3
      BY <1>3
    <3> QED
      BY <1>4, <3>1
  <2> QED
    BY <1>1, <2>1, Turns
<1>6. ASSUME NEW name \in WideTable!Names, Head(t).on = name
      PROVE  /\ catalog'[name].layout = catalog[name].layout
             /\ catalog'[name].rows = catalog[name].rows \union now
             /\ \A other \in WideTable!Names \ {name} : catalog'[other] = catalog[other]
  <2>1. catalog[name] \in Tables /\ DOMAIN catalog = WideTable!Names
    BY DEF WideTypes
  <2> HIDE DEF t, v, now
  <2>2. catalog' = [catalog EXCEPT ![name].rows = @ \union now]
    BY <1>1, <1>6
  <2> QED
    BY <2>1, <2>2 DEF Tables, WideTable!Absent
<1>7. writer'[w].spec.version = v /\ writer'[w].listed = m
  BY <1>2
<1>8. CASE writer[w].swaps /\ BeforeSwap(w)
  <2>1. /\ "tmp" \in WideTable!Names /\ "target" \in WideTable!Names \ {"tmp"}
        /\ "old" \in WideTable!Names \ {"tmp"}
    BY DEF WideTable!Names
  <2>2. /\ catalog'["tmp"].layout = catalog["tmp"].layout
        /\ catalog'["tmp"].rows = catalog["tmp"].rows \union now
        /\ catalog'["target"] = catalog["target"] /\ catalog'["old"] = catalog["old"]
    BY <1>5, <1>6, <1>8, <2>1
  <2>3. /\ catalog["target"] = writer[w].before /\ catalog["old"] = WideTable!Absent
        /\ t[n - 2] = WideTable!Swap[1] /\ t[n - 1] = WideTable!Swap[2]
        /\ t[n] = WideTable!Drop("old")[1]
    BY <1>8 DEF BeforeSwap
  <2>4. /\ catalog["tmp"].layout = v
        /\ \A i \in 1..(n - 3) : t[i].op = "insert" /\ t[i].on = "tmp"
        /\ catalog["tmp"].rows \union ({v} \X Months(t, 3)) = {v} \X (1..m)
    BY <1>8 DEF BeforeSwap, Filling
  <2>5. /\ Len(u) >= 3
        /\ \A i \in 1..(Len(u) - 3) : u[i].op = "insert" /\ u[i].on = "tmp"
        /\ catalog'["tmp"].rows \union ({v} \X Months(u, 3)) = {v} \X (1..m)
    <3>1. 3 \in Nat /\ Len(t) > 3
      BY <1>4, <1>8
    <3> HIDE DEF t, u, v, m
    <3>2. /\ t \in Seq(Statements) /\ Head(t).op = "insert"
          /\ \A i \in 1..(Len(t) - 3) : t[i].op = "insert" /\ t[i].on = "tmp"
      BY <1>1, <1>3, <2>4 DEF n
    <3>3. /\ Len(Tail(t)) >= 3
          /\ \A i \in 1..(Len(Tail(t)) - 3) : i + 1 \in 1..(Len(t) - 3) /\ Tail(t)[i] = t[i + 1]
          /\ Months(t, 3) = {Head(t).month} \union Months(Tail(t), 3)
      BY <3>1, <3>2, FillingGoesOn
    <3>4. \A i \in 1..(Len(Tail(t)) - 3) : Tail(t)[i].op = "insert" /\ Tail(t)[i].on = "tmp"
      BY <3>2, <3>3
    <3>5. (catalog["tmp"].rows \union now) \union ({v} \X Months(u, 3))
            = catalog["tmp"].rows \union ({v} \X Months(t, 3))
      BY <1>2, <3>3, Together, Zenon DEF now
    <3> QED
      BY <1>2, <2>4, <2>2, <3>3, <3>4, <3>5
  <2>6. Len(u) = n - 1 /\ \A i \in 1..(n - 1) : u[i] = t[i + 1]
    BY <1>1, <1>2, <1>3, Behind
  <2>7. /\ u[Len(u) - 2] = WideTable!Swap[1] /\ u[Len(u) - 1] = WideTable!Swap[2]
        /\ u[Len(u)] = WideTable!Drop("old")[1]
    <3>1. n \in Nat /\ n > 3
      BY <1>3, <1>4, <1>8
    <3> HIDE DEF n, u, t
    <3>2. /\ n - 3 \in 1..(n - 1) /\ n - 2 \in 1..(n - 1) /\ n - 1 \in 1..(n - 1)
          /\ (n - 3) + 1 = n - 2 /\ (n - 2) + 1 = n - 1 /\ (n - 1) + 1 = n
          /\ Len(u) - 2 = n - 3 /\ Len(u) - 1 = n - 2
      BY <2>6, <3>1
    <3>3. u[n - 3] = t[n - 2] /\ u[n - 2] = t[n - 1] /\ u[n - 1] = t[n]
      BY <2>6, <3>2
    <3> QED
      BY <2>3, <2>6, <3>2, <3>3
  <2> HIDE DEF u, v, m, now
  <2>8. catalog'["tmp"].layout = writer'[w].spec.version
        /\ catalog'["tmp"].rows \union ({writer'[w].spec.version} \X Months(u, 3))
             = {writer'[w].spec.version} \X (1..writer'[w].listed)
    BY <1>7, <2>2, <2>4, <2>5
  <2>9. catalog'["target"] = writer'[w].before /\ catalog'["old"] = WideTable!Absent
    BY <1>2, <2>2, <2>3
  <2>10. BeforeSwap(w)'
    BY <2>5, <2>7, <2>8, <2>9, SwapAhead DEF u
  <2> QED
    BY <1>1, <1>2, <1>8, <2>10 DEF RunInPlace
<1>9. CASE ~writer[w].swaps /\ Refilling(w)
  <2>1. /\ catalog["target"].layout = v
        /\ \A i \in 1..(n - 0) : t[i].op = "insert" /\ t[i].on = "target"
        /\ catalog["target"].rows \union ({v} \X Months(t, 0)) = {v} \X (1..m)
    BY <1>9 DEF Refilling, Filling
  <2>2. /\ catalog'["target"].layout = catalog["target"].layout
        /\ catalog'["target"].rows = catalog["target"].rows \union now
    <3>1. "target" \in WideTable!Names
      BY DEF WideTable!Names
    <3> QED
      BY <1>5, <1>6, <1>9, <3>1
  <2>3. /\ Len(u) >= 0
        /\ \A i \in 1..(Len(u) - 0) : u[i].op = "insert" /\ u[i].on = "target"
        /\ catalog'["target"].rows \union ({v} \X Months(u, 0)) = {v} \X (1..m)
    <3>1. 0 \in Nat /\ Len(t) > 0
      BY <1>3
    <3> HIDE DEF t, u, v, m
    <3>2. /\ t \in Seq(Statements) /\ Head(t).op = "insert"
          /\ \A i \in 1..(Len(t) - 0) : t[i].op = "insert" /\ t[i].on = "target"
      BY <1>1, <1>3, <2>1 DEF n
    <3>3. /\ Len(Tail(t)) >= 0
          /\ \A i \in 1..(Len(Tail(t)) - 0) : i + 1 \in 1..(Len(t) - 0) /\ Tail(t)[i] = t[i + 1]
          /\ Months(t, 0) = {Head(t).month} \union Months(Tail(t), 0)
      BY <3>1, <3>2, FillingGoesOn
    <3>4. \A i \in 1..(Len(Tail(t)) - 0) : Tail(t)[i].op = "insert" /\ Tail(t)[i].on = "target"
      BY <3>2, <3>3
    <3>5. (catalog["target"].rows \union now) \union ({v} \X Months(u, 0))
            = catalog["target"].rows \union ({v} \X Months(t, 0))
      BY <1>2, <3>3, Together, Zenon DEF now
    <3> QED
      BY <1>2, <2>1, <2>2, <3>3, <3>4, <3>5
  <2> HIDE DEF u, v, m, now
  <2>4. catalog'["target"].layout = writer'[w].spec.version
        /\ catalog'["target"].rows \union ({writer'[w].spec.version} \X Months(u, 0))
             = {writer'[w].spec.version} \X (1..writer'[w].listed)
    BY <1>7, <2>1, <2>2, <2>3
  <2>5. Refilling(w)'
    BY <2>3, <2>4, RefillAhead DEF u
  <2> QED
    BY <1>2, <1>9, <2>5 DEF RunInPlace
<1> QED
  BY <1>1, <1>4, <1>8, <1>9 DEF RunInPlace

--------------------------------------------------------------------------------
(* The steps between the statements. *)

\* A run that begins.
LEMMA BeginForm ==
    ASSUME NEW w, NEW spec \in WideTable!WideTableMetadata, LastMonth \in Nat, WideTypes(w),
           WideTable!Begin(w, spec)
    PROVE  /\ writer' \in [{w} -> {WideTable!Idle} \union Runs]
           /\ writer'[w].pc \in {"planned", "failed"} /\ ~writer'[w].swaps
<1> DEFINE x == [pc |-> IF spec.valid THEN "planned" ELSE "failed", spec |-> spec,
                 action |-> WideTable!PlanAction(spec), todo |-> <<>>, swaps |-> FALSE, listed |-> 0,
                 before |-> catalog["target"]]
<1>1. WideTable!PlanAction(spec) \in {"invalid", "create_and_sync", "rebuild", "sync"}
  BY DEF WideTable!PlanAction, WideTable!WideTableMetadata
<1>2. catalog["target"] \in Tables
  BY DEF WideTypes, WideTable!Names
<1>3. <<>> \in Seq(Statements) /\ 0 \in 0..LastMonth
  OBVIOUS
<1>4. x \in Runs /\ x.pc \in {"planned", "failed"} /\ ~x.swaps
  BY <1>1, <1>2, <1>3 DEF Runs
<1>5. writer' = [writer EXCEPT ![w] = x]
  BY DEF WideTable!Begin
<1> HIDE DEF x
<1> QED
  BY <1>4, <1>5, RunSet

\* A run whose state row is written.
LEMMA SavedForm ==
    ASSUME NEW w, WideTypes(w), WideTable!SaveRunning(w)
    PROVE  /\ writer' \in [{w} -> {WideTable!Idle} \union Runs]
           /\ writer'[w].pc = "saved" /\ writer'[w].swaps = writer[w].swaps
<1> DEFINE x == [writer[w] EXCEPT !.pc = "saved"]
<1>1. writer[w] \in Runs
  BY RunForm DEF WideTable!SaveRunning
<1>2. x \in Runs /\ x.pc = "saved" /\ x.swaps = writer[w].swaps
  BY <1>1 DEF Runs
<1>3. writer' = [writer EXCEPT ![w] = x]
  BY DEF WideTable!SaveRunning
<1> HIDE DEF x
<1> QED
  BY <1>2, <1>3, RunSet

\* A run that fails.
LEMMA FailedForm ==
    ASSUME NEW w, WideTypes(w), WideTable!StatementFails(w)
    PROVE  /\ writer' \in [{w} -> {WideTable!Idle} \union Runs]
           /\ writer'[w].pc = "failed" /\ writer'[w].todo = writer[w].todo
           /\ writer'[w].spec = writer[w].spec /\ writer'[w].swaps = writer[w].swaps
           /\ writer'[w].listed = writer[w].listed /\ writer'[w].before = writer[w].before
<1> DEFINE x == [writer[w] EXCEPT !.pc = "failed"]
<1>1. writer[w] \in Runs
  BY RunForm DEF WideTable!StatementFails
<1>2. x \in Runs /\ x.pc = "failed" /\ x.todo = writer[w].todo /\ x.spec = writer[w].spec
      /\ x.swaps = writer[w].swaps /\ x.listed = writer[w].listed /\ x.before = writer[w].before
  BY <1>1 DEF Runs
<1>3. writer' = [writer EXCEPT ![w] = x]
  BY DEF WideTable!StatementFails, WideTypes
<1> HIDE DEF x
<1> QED
  BY <1>2, <1>3, RunSet

\* A run that begins to execute its plan.
LEMMA ExecuteForm ==
    ASSUME NEW w, WideTypes(w), WideTable!ExecutePlan(w)
    PROVE  LET swaps == writer[w].action = "rebuild" /\ WideTable!Exists("target")
           IN  /\ writer' \in [{w} -> {WideTable!Idle} \union Runs]
               /\ writer'[w].pc = "execute" /\ writer'[w].swaps = swaps
               /\ writer'[w].before = catalog["target"]
               /\ writer'[w].spec = writer[w].spec
               /\ writer'[w].todo = IF swaps THEN WideTable!Rebuild ELSE WideTable!DropAndRefresh
<1> DEFINE swaps == writer[w].action = "rebuild" /\ WideTable!Exists("target")
           todo == IF swaps THEN WideTable!Rebuild ELSE WideTable!DropAndRefresh
           x == [writer[w] EXCEPT !.pc = "execute", !.swaps = swaps, !.before = catalog["target"],
                                  !.todo = todo]
<1>1. writer[w] \in Runs
  BY RunForm DEF WideTable!ExecutePlan
<1>2. catalog["target"] \in Tables
  BY DEF WideTypes, WideTable!Names
<1>3. todo \in Seq(Statements) /\ swaps \in BOOLEAN
  BY PlansTyped
<1>4. writer' = [writer EXCEPT ![w] = x]
  BY DEF WideTable!ExecutePlan, WideTypes
<1> HIDE DEF todo, swaps
<1>5. /\ x \in Runs /\ x.pc = "execute" /\ x.swaps = swaps /\ x.before = catalog["target"]
      /\ x.spec = writer[w].spec /\ x.todo = todo
  BY <1>1, <1>2, <1>3 DEF Runs
<1> HIDE DEF x
<1> QED
  BY <1>4, <1>5, RunSet DEF todo, swaps

\* It begins in order.
LEMMA ExecuteKeeps ==
    ASSUME NEW w, WideTypes(w), WideTable!ExecutePlan(w)
    PROVE  RunInPlace(w)'
<1>1. /\ writer'[w].before = catalog["target"] /\ writer'[w].pc = "execute" /\ catalog' = catalog
      /\ writer'[w].swaps => catalog["target"] # WideTable!Absent /\ writer'[w].todo = WideTable!Rebuild
      /\ ~writer'[w].swaps => writer'[w].todo = WideTable!DropAndRefresh
  BY ExecuteForm DEF WideTable!ExecutePlan, WideTable!Exists
<1>2. ASSUME writer'[w].swaps
      PROVE  BeforeFilling(w)'
  <2>1. Rest(WideTable!Rebuild, WideTable!Rebuild) /\ Len(WideTable!Rebuild) = 9
    BY RebuildOrder DEF Rest
  <2>2. /\ Rest(writer'[w].todo, WideTable!Rebuild) /\ Len(writer'[w].todo) = 9
        /\ catalog'["target"] = writer'[w].before
    BY <1>1, <1>2, <2>1
  <2> QED
    BY <2>2 DEF BeforeFilling
<1>3. ASSUME ~writer'[w].swaps
      PROVE  BeforeRefill(w)'
  <2>1. Rest(WideTable!DropAndRefresh, WideTable!DropAndRefresh) /\ Len(WideTable!DropAndRefresh) = 5
    BY DropAndRefreshOrder DEF Rest
  <2>2. writer'[w].todo = WideTable!DropAndRefresh
    BY <1>1, <1>3, Zenon
  <2>3. Rest(writer'[w].todo, WideTable!DropAndRefresh) /\ Len(writer'[w].todo) = 5
    BY <2>1, <2>2, Zenon
  <2> QED
    BY <2>3 DEF BeforeRefill
<1> QED
  BY <1>1, <1>2, <1>3 DEF RunInPlace

\* Nothing of the run or of the tables changes.
LEMMA SameKeeps ==
    ASSUME NEW w, catalog' = catalog,
           writer'[w].todo = writer[w].todo, writer'[w].spec = writer[w].spec,
           writer'[w].listed = writer[w].listed, writer'[w].before = writer[w].before
    PROVE  /\ BeforeFilling(w) => BeforeFilling(w)'
           /\ BeforeSwap(w) => BeforeSwap(w)'
           /\ BetweenRenames(w) => BetweenRenames(w)'
           /\ AfterSwap(w) => AfterSwap(w)'
           /\ BeforeRefill(w) => BeforeRefill(w)'
           /\ Refilling(w) => Refilling(w)'
<1>1. BeforeFilling(w) => BeforeFilling(w)'
  BY DEF BeforeFilling, WideTable!Absent
<1>2. BeforeSwap(w) => BeforeSwap(w)'
  BY ZenonT(60) DEF BeforeSwap, Filling
<1>3. BetweenRenames(w) => BetweenRenames(w)'
  BY DEF BetweenRenames, WideTable!Absent, WideTable!Whole
<1>4. AfterSwap(w) => AfterSwap(w)'
  BY DEF AfterSwap, WideTable!Whole
<1>5. BeforeRefill(w) => BeforeRefill(w)'
  BY DEF BeforeRefill, WideTable!Absent
<1>6. Refilling(w) => Refilling(w)'
  BY ZenonT(60) DEF Refilling, Filling
<1> QED
  BY <1>1, <1>2, <1>3, <1>4, <1>5, <1>6

\* No other step touches a run that executes.
LEMMA OthersKeep ==
    ASSUME NEW w, LastMonth \in Nat, WideTypes(w), RunInPlace(w),
           \/ \E spec \in WideTable!WideTableMetadata : WideTable!Begin(w, spec)
           \/ WideTable!SaveRunning(w) \/ WideTable!StatementFails(w) \/ WideTable!SaveEnd(w)
           \/ WideTable!Killed(w) \/ WideTable!SourceGrows
    PROVE  RunInPlace(w)'
<1>1. CASE WideTable!SourceGrows
  <2>1. writer' = writer /\ catalog' = catalog
    BY <1>1 DEF WideTable!SourceGrows
  <2> QED
    BY <2>1, SameKeeps DEF RunInPlace
<1>2. CASE WideTable!StatementFails(w)
  <2>1. writer[w].pc \in {"saved", "execute"} /\ catalog' = catalog
    BY <1>2 DEF WideTable!StatementFails
  <2>2. /\ writer'[w].pc = "failed" /\ writer'[w].todo = writer[w].todo
        /\ writer'[w].spec = writer[w].spec /\ writer'[w].swaps = writer[w].swaps
        /\ writer'[w].listed = writer[w].listed /\ writer'[w].before = writer[w].before
    BY <1>2, FailedForm
  <2> QED
    BY <2>1, <2>2, SameKeeps DEF RunInPlace
<1>3. CASE WideTable!SaveEnd(w) \/ WideTable!Killed(w)
  <2>1. writer'[w].pc = "idle"
    <3>1. writer' = [writer EXCEPT ![w] = WideTable!Idle]
      BY <1>3 DEF WideTable!SaveEnd, WideTable!Killed
    <3>2. writer'[w] = WideTable!Idle
      BY <3>1 DEF WideTypes
    <3> QED
      BY <3>2 DEF WideTable!Idle
  <2> QED
    BY <2>1 DEF RunInPlace
<1>4. CASE WideTable!SaveRunning(w)
           \/ \E spec \in WideTable!WideTableMetadata : WideTable!Begin(w, spec)
  <2>1. WideTable!SaveRunning(w) => ~writer[w].swaps
    BY DEF RunInPlace, WideTable!SaveRunning
  <2>2. writer'[w].pc # "execute" /\ ~writer'[w].swaps
    BY <1>4, <2>1, SavedForm, BeginForm
  <2> QED
    BY <2>2 DEF RunInPlace
<1> QED
  BY <1>1, <1>2, <1>3, <1>4

--------------------------------------------------------------------------------
(* Types. *)

\* Statements leave tables.
LEMMA CatalogTyped ==
    ASSUME NEW w, LastMonth \in Nat, WideTypes(w),
           \/ WideTable!DropTable(w) \/ WideTable!CreateTable(w) \/ WideTable!TruncateTable(w)
           \/ WideTable!InsertMonth(w) \/ WideTable!InsertSelect(w)
           \/ WideTable!SetAside(w) \/ WideTable!PutInPlace(w)
    PROVE  catalog' \in [WideTable!Names -> Tables]
<1>1. writer[w].pc = "execute" /\ writer[w].todo # <<>>
  BY DEF WideTable!DropTable, WideTable!CreateTable, WideTable!TruncateTable, WideTable!InsertMonth,
     WideTable!InsertSelect, WideTable!SetAside, WideTable!PutInPlace, WideTable!Executing
<1>2. /\ Head(writer[w].todo) \in Statements /\ writer[w].spec.version \in Versions
      /\ WideTable!On(w) \in WideTable!Names
  BY <1>1, RunForm, Behind DEF Statements, WideTable!On
<1>3. catalog \in [WideTable!Names -> Tables] /\ WideTable!Absent \in Tables
  BY DEF WideTypes, Tables
<1> DEFINE v == writer[w].spec.version
           name == WideTable!On(w)
           st == Head(writer[w].todo)
<1>4. CASE WideTable!DropTable(w)
  BY <1>2, <1>3, <1>4 DEF WideTable!DropTable
<1>5. CASE WideTable!CreateTable(w)
  <2>1. [layout |-> v, rows |-> {}] \in Tables
    BY <1>2 DEF Tables
  <2> QED
    BY <1>2, <1>3, <1>5, <2>1 DEF WideTable!CreateTable
<1>6. CASE WideTable!TruncateTable(w)
  <2>1. catalog' = [catalog EXCEPT ![name].rows = {}] /\ catalog[name] # WideTable!Absent
    BY <1>6 DEF WideTable!TruncateTable, WideTable!Exists
  <2>2. catalog[name] \in [layout : Versions, rows : SUBSET (Versions \X (1..LastMonth))]
    BY <1>2, <1>3, <2>1 DEF Tables
  <2>3. [catalog[name] EXCEPT !.rows = {}] \in Tables
    BY <2>2 DEF Tables
  <2> HIDE DEF name
  <2>4. catalog' = [catalog EXCEPT ![name] = [catalog[name] EXCEPT !.rows = {}]]
    BY <2>1
  <2> QED
    BY <1>2, <1>3, <2>3, <2>4 DEF name
<1>7. ASSUME NEW months, months \subseteq 1..LastMonth, catalog[name] # WideTable!Absent,
             catalog' = [catalog EXCEPT ![name].rows = @ \union ({v} \X months)]
      PROVE  catalog' \in [WideTable!Names -> Tables]
  <2>1. catalog[name] \in [layout : Versions, rows : SUBSET (Versions \X (1..LastMonth))]
    BY <1>2, <1>3, <1>7 DEF Tables
  <2> DEFINE rows == catalog[name].rows \union ({v} \X months)
  <2>2. rows \subseteq Versions \X (1..LastMonth)
    BY <1>2, <1>7, <2>1
  <2> HIDE DEF rows
  <2>3. [catalog[name] EXCEPT !.rows = rows] \in Tables
    BY <2>1, <2>2 DEF Tables
  <2>4. catalog' = [catalog EXCEPT ![name] = [catalog[name] EXCEPT !.rows = rows]]
    BY <1>7 DEF rows
  <2> HIDE DEF name
  <2> QED
    BY <1>2, <1>3, <2>3, <2>4 DEF name
<1>8. CASE WideTable!InsertMonth(w)
  <2>1. /\ catalog' = [catalog EXCEPT ![name].rows = @ \union ({v} \X {st.month})]
        /\ catalog[name] # WideTable!Absent /\ st.op = "insert"
    BY <1>8 DEF WideTable!InsertMonth, WideTable!Exists, WideTable!Executing, WideTable!Rows
  <2>2. {st.month} \subseteq 1..LastMonth
    BY <1>2, <2>1 DEF Statements
  <2> QED
    BY <1>7, <2>1, <2>2
<1>9. CASE WideTable!InsertSelect(w)
  <2>1. /\ catalog' = [catalog EXCEPT ![name].rows = @ \union ({v} \X (1..source))]
        /\ catalog[name] # WideTable!Absent
    BY <1>9 DEF WideTable!InsertSelect, WideTable!Exists, WideTable!Rows
  <2>2. 1..source \subseteq 1..LastMonth
    BY DEF WideTypes
  <2> QED
    BY <1>7, <2>1, <2>2
<1>10. CASE WideTable!SetAside(w)
  <2>1. catalog' = [catalog EXCEPT !["old"] = catalog["target"], !["target"] = WideTable!Absent]
    BY <1>10 DEF WideTable!SetAside
  <2>2. catalog["target"] \in Tables
    BY <1>3 DEF WideTable!Names
  <2> QED
    BY <1>3, <2>1, <2>2
<1>11. CASE WideTable!PutInPlace(w)
  <2>1. catalog' = [catalog EXCEPT !["target"] = catalog["tmp"], !["tmp"] = WideTable!Absent]
    BY <1>11 DEF WideTable!PutInPlace
  <2>2. catalog["tmp"] \in Tables
    BY <1>3 DEF WideTable!Names
  <2> QED
    BY <1>3, <2>1, <2>2
<1> QED
  BY <1>4, <1>5, <1>6, <1>8, <1>9, <1>10, <1>11

\* The statements that a run executes.
Statement(w) ==
    \/ WideTable!DropTable(w) \/ WideTable!CreateTable(w) \/ WideTable!TruncateTable(w)
    \/ WideTable!ListMonths(w) \/ WideTable!InsertMonth(w) \/ WideTable!InsertSelect(w)
    \/ WideTable!SetAside(w) \/ WideTable!PutInPlace(w)

\* What they change.
LEMMA StatementFrame ==
    ASSUME NEW w, Statement(w)
    PROVE  /\ writer[w].pc = "execute" /\ writer[w].todo # <<>>
           /\ state' = state /\ source' = source /\ undone' = undone
BY DEF Statement, WideTable!DropTable, WideTable!CreateTable, WideTable!TruncateTable,
   WideTable!ListMonths, WideTable!InsertMonth, WideTable!InsertSelect, WideTable!SetAside,
   WideTable!PutInPlace, WideTable!Executing

\* A run after a statement of any kind.
LEMMA StatementForm ==
    ASSUME NEW w, LastMonth \in Nat, WideTypes(w), RunInPlace(w), Statement(w)
    PROVE  /\ writer' \in [{w} -> {WideTable!Idle} \union Runs]
           /\ writer'[w].pc = "execute"
           /\ writer'[w].spec = writer[w].spec /\ writer'[w].swaps = writer[w].swaps
<1>1. CASE WideTable!Done(w)
  BY <1>1, StatementFrame, DoneForm
<1>2. CASE WideTable!ListMonths(w) /\ writer[w].spec.monthly /\ source > 0
  BY <1>2, ListForm
<1>3. CASE WideTable!InsertSelect(w)
  BY <1>3, SelectForm
<1> QED
  BY <1>1, <1>2, <1>3 DEF Statement, WideTable!DropTable, WideTable!CreateTable,
     WideTable!TruncateTable, WideTable!ListMonths, WideTable!InsertMonth, WideTable!SetAside,
     WideTable!PutInPlace

\* The steps of the writer.
Step(w) ==
    \/ \E spec \in WideTable!WideTableMetadata : WideTable!Begin(w, spec)
    \/ WideTable!SaveRunning(w) \/ WideTable!ExecutePlan(w) \/ Statement(w)
    \/ WideTable!StatementFails(w) \/ WideTable!SaveEnd(w) \/ WideTable!Killed(w)

\* Every step keeps the types.
LEMMA StepTyped ==
    ASSUME NEW w, LastMonth \in Nat, WideTypes(w), RunInPlace(w), Step(w) \/ WideTable!SourceGrows
    PROVE  WideTypes(w)'
<1>1. catalog' \in [WideTable!Names -> Tables]
  <2>1. CASE Statement(w)
    <3>1. catalog' = catalog \/ catalog' \in [WideTable!Names -> Tables]
      BY <2>1, CatalogTyped DEF Statement, WideTable!ListMonths
    <3> QED
      BY <3>1 DEF WideTypes
  <2>2. CASE ~Statement(w)
    <3>1. catalog' = catalog
      BY <2>2 DEF Step, WideTable!Begin, WideTable!SaveRunning, WideTable!ExecutePlan,
         WideTable!StatementFails, WideTable!SaveEnd, WideTable!Killed, WideTable!SourceGrows
    <3> QED
      BY <3>1 DEF WideTypes
  <2> QED
    BY <2>1, <2>2
<1>2. source' \in 0..LastMonth
  <2>1. source \in 0..LastMonth
    BY DEF WideTypes
  <2>2. WideTable!SourceGrows => source' \in 0..LastMonth
    BY <2>1 DEF WideTable!SourceGrows
  <2>3. Step(w) => source' = source
    BY StatementFrame DEF Step, WideTable!Begin, WideTable!SaveRunning, WideTable!ExecutePlan,
       WideTable!StatementFails, WideTable!SaveEnd, WideTable!Killed
  <2> QED
    BY <2>1, <2>2, <2>3
<1>3. writer' \in [{w} -> {WideTable!Idle} \union Runs]
  <2>1. CASE \E spec \in WideTable!WideTableMetadata : WideTable!Begin(w, spec)
    BY <2>1, BeginForm
  <2>2. CASE WideTable!SaveRunning(w) \/ WideTable!ExecutePlan(w) \/ WideTable!StatementFails(w)
    BY <2>2, SavedForm, ExecuteForm, FailedForm
  <2>3. CASE Statement(w)
    BY <2>3, StatementForm
  <2>4. CASE WideTable!SaveEnd(w) \/ WideTable!Killed(w)
    <3>1. writer' = [writer EXCEPT ![w] = WideTable!Idle]
      BY <2>4 DEF WideTable!SaveEnd, WideTable!Killed
    <3> QED
      BY <3>1, RunSet
  <2>5. CASE WideTable!SourceGrows
    BY <2>5 DEF WideTable!SourceGrows, WideTypes
  <2> QED
    BY <2>1, <2>2, <2>3, <2>4, <2>5 DEF Step
<1> QED
  BY <1>1, <1>2, <1>3 DEF WideTypes

--------------------------------------------------------------------------------
(* The state row. *)

\* A run at its end has published the table.
LEMMA EndPublishes ==
    ASSUME NEW w, LastMonth \in Nat, WideTypes(w), RunInPlace(w),
           writer[w].pc = "execute", writer[w].todo = <<>>
    PROVE  catalog["target"] = WideTable!Whole(writer[w].spec.version, writer[w].listed)
<1> DEFINE t == writer[w].todo
           v == writer[w].spec.version
           m == writer[w].listed
<1>1. Len(t) = 0
  OBVIOUS
<1>2. ~BeforeFilling(w) /\ ~BeforeRefill(w) /\ ~BetweenRenames(w)
  BY <1>1 DEF BeforeFilling, BeforeRefill, BetweenRenames
<1>3. ~BeforeSwap(w)
  <2>1. BeforeSwap(w) => Len(t) >= 3
    BY DEF BeforeSwap, Filling
  <2> QED
    BY <1>1, <2>1
<1>4. AfterSwap(w) => catalog["target"] = WideTable!Whole(v, m)
  BY DEF AfterSwap
<1>5. Refilling(w) => catalog["target"] = WideTable!Whole(v, m)
  <2>1. Refilling(w) => Filling(t, 0, "target", v, m)
    BY DEF Refilling
  <2>2. 0 = Len(t) /\ "target" \in WideTable!Names
    BY <1>1 DEF WideTable!Names
  <2> QED
    BY <2>1, <2>2, FilledWhole
<1> QED
  BY <1>2, <1>3, <1>4, <1>5 DEF RunInPlace

\* Every step leaves the state row true.
LEMMA StepState ==
    ASSUME NEW w, LastMonth \in Nat, WideTypes(w), RunInPlace(w), StateTrue(w),
           Step(w) \/ WideTable!SourceGrows
    PROVE  StateTrue(w)'
<1>1. CASE Statement(w)
  <2>1. writer[w].pc = "execute" /\ state' = state
    BY <1>1, StatementFrame
  <2>2. state'.status = "running"
    BY <2>1 DEF StateTrue
  <2> QED
    BY <2>2 DEF StateTrue, WideTable!SuccessIsPublished
<1>2. CASE WideTable!SaveRunning(w)
  <2>1. state'.status = "running"
    BY <1>2 DEF WideTable!SaveRunning
  <2> QED
    BY <2>1 DEF StateTrue, WideTable!SuccessIsPublished
<1>3. CASE WideTable!ExecutePlan(w)
  <2>1. writer[w].pc = "saved" /\ state' = state
    BY <1>3 DEF WideTable!ExecutePlan
  <2>2. state'.status = "running"
    BY <2>1 DEF StateTrue
  <2> QED
    BY <2>2 DEF StateTrue, WideTable!SuccessIsPublished
<1>4. CASE WideTable!StatementFails(w) \/ \E spec \in WideTable!WideTableMetadata : WideTable!Begin(w, spec)
  <2>1. writer'[w].pc \in {"failed", "planned"}
    BY <1>4, FailedForm, BeginForm
  <2>2. state' = state /\ catalog' = catalog
    BY <1>4 DEF WideTable!StatementFails, WideTable!Begin
  <2> QED
    BY <2>1, <2>2 DEF StateTrue, WideTable!SuccessIsPublished, WideTable!Whole
<1>5. CASE WideTable!Killed(w) \/ WideTable!SourceGrows
  <2>1. state' = state /\ catalog' = catalog
    BY <1>5 DEF WideTable!Killed, WideTable!SourceGrows
  <2>2. writer'[w].pc \in {"saved", "execute"} => writer[w].pc \in {"saved", "execute"}
    <3>1. CASE WideTable!Killed(w)
      <4>1. writer'[w] = WideTable!Idle
        BY <3>1 DEF WideTable!Killed, WideTypes
      <4> QED
        BY <4>1 DEF WideTable!Idle
    <3>2. CASE WideTable!SourceGrows
      BY <3>2 DEF WideTable!SourceGrows
    <3> QED
      BY <1>5, <3>1, <3>2
  <2> QED
    BY <2>1, <2>2 DEF StateTrue, WideTable!SuccessIsPublished, WideTable!Whole
<1>6. CASE WideTable!SaveEnd(w)
  <2>1. writer'[w].pc = "idle"
    <3>1. writer'[w] = WideTable!Idle
      BY <1>6 DEF WideTable!SaveEnd, WideTypes
    <3> QED
      BY <3>1 DEF WideTable!Idle
  <2>2. WideTable!SuccessIsPublished'
    <3>1. CASE writer[w].pc = "failed"
      <4>1. state'.status = "failed"
        BY <1>6, <3>1 DEF WideTable!SaveEnd
      <4> QED
        BY <4>1 DEF WideTable!SuccessIsPublished
    <3>2. CASE writer[w].pc # "failed"
      <4>1. writer[w].pc = "execute" /\ writer[w].todo = <<>>
        BY <1>6, <3>2 DEF WideTable!SaveEnd
      <4>2. /\ catalog' = catalog /\ state'.version = writer[w].spec.version
            /\ state'.listed = writer[w].listed
        BY <1>6 DEF WideTable!SaveEnd
      <4>3. catalog["target"] = WideTable!Whole(writer[w].spec.version, writer[w].listed)
        BY <4>1, EndPublishes
      <4>4. WideTable!Whole(state'.version, state'.listed) = WideTable!Whole(writer[w].spec.version, writer[w].listed)
        BY <4>2
      <4> QED
        BY <4>2, <4>3, <4>4 DEF WideTable!SuccessIsPublished, WideTable!Whole
    <3> QED
      BY <3>1, <3>2
  <2> QED
    BY <2>1, <2>2 DEF StateTrue
<1> QED
  BY <1>1, <1>2, <1>3, <1>4, <1>5, <1>6 DEF Step

--------------------------------------------------------------------------------
(* The results. *)

\* Everything is in place initially.
LEMMA InPlaceAtFirst ==
    ASSUME NEW w, w = Writer, LastMonth \in Nat, WideTable!Init
    PROVE  WideInPlace(w)
<1>1. writer = [x \in {w} |-> WideTable!Idle] /\ writer[w].pc = "idle"
  BY DEF WideTable!Init, WideTable!Idle
<1>2. WideTypes(w)
  BY <1>1 DEF WideTable!Init, WideTypes, Tables
<1> QED
  BY <1>1, <1>2 DEF WideInPlace, RunInPlace, StateTrue, WideTable!SuccessIsPublished, WideTable!Init

\* Every step leaves it so.
LEMMA InPlaceKept ==
    ASSUME NEW w, w = Writer, LastMonth \in Nat, WideInPlace(w), WideTable!Next
    PROVE  WideInPlace(w)'
<1> USE DEF WideInPlace
<1>1. Step(w) \/ WideTable!SourceGrows
  BY DEF WideTable!Next, Step, Statement
<1>2. RunInPlace(w)'
  <2>1. CASE Statement(w)
    BY <2>1, DropKeeps, CreateKeeps, TruncateKeeps, ListKeeps, InsertKeeps, SelectKeeps,
       SetAsideKeeps, PutInPlaceKeeps DEF Statement
  <2>2. CASE WideTable!ExecutePlan(w)
    BY <2>2, ExecuteKeeps
  <2> QED
    BY <1>1, <2>1, <2>2, OthersKeep DEF Step
<1> QED
  BY <1>1, <1>2, StepTyped, StepState

\* So does a step of nothing.
LEMMA InPlaceUntouched ==
    ASSUME NEW w, WideInPlace(w), UNCHANGED wideVars
    PROVE  WideInPlace(w)'
<1> USE DEF WideInPlace
<1>1. writer' = writer /\ catalog' = catalog /\ state' = state /\ source' = source
  BY DEF wideVars
<1>2. RunInPlace(w)'
  BY <1>1, SameKeeps DEF RunInPlace
<1>3. StateTrue(w)'
  BY <1>1 DEF StateTrue, WideTable!SuccessIsPublished, WideTable!Whole
<1>4. WideTypes(w)'
  BY <1>1 DEF WideTypes
<1> QED
  BY <1>2, <1>3, <1>4

\* What readers find.
LEMMA ReadersFollow ==
    ASSUME NEW w, w = Writer, WideInPlace(w)
    PROVE  WideTable!RebuildKeepsTable
<1> DEFINE before == writer[w].before
           after == WideTable!Whole(writer[w].spec.version, writer[w].listed)
<1>1. SUFFICES ASSUME writer[w].pc \in {"execute", "failed"}, writer[w].swaps
               PROVE  \/ catalog["target"] \in {before, after}
                      \/ /\ catalog["target"] = WideTable!Absent
                         /\ catalog["old"] = before /\ catalog["tmp"] = after
  BY DEF WideTable!RebuildKeepsTable
<1>2. BeforeFilling(w) \/ BeforeSwap(w) \/ BetweenRenames(w) \/ AfterSwap(w)
  BY <1>1 DEF WideInPlace, RunInPlace
<1>3. CASE BeforeFilling(w) \/ BeforeSwap(w)
  <2>1. catalog["target"] = writer[w].before
    BY <1>3 DEF BeforeFilling, BeforeSwap
  <2> QED
    BY <2>1
<1>4. CASE BetweenRenames(w)
  BY <1>4 DEF BetweenRenames
<1>5. CASE AfterSwap(w)
  BY <1>5 DEF AfterSwap
<1> QED
  BY <1>2, <1>3, <1>4, <1>5

\* What the swap finds.
LEMMA SwapFollows ==
    ASSUME NEW w, w = Writer, LastMonth \in Nat, "absent" \notin Versions, WideInPlace(w)
    PROVE  WideTable!SwapIsNeverBlocked
<1>1. WideTypes(w) /\ RunInPlace(w)
  BY DEF WideInPlace
<1>2. ASSUME WideTable!Executing(w, "backup")
      PROVE  WideTable!CanSetAside /\ WideTable!Exists("tmp")
  <2>1. writer[w].pc = "execute" /\ writer[w].todo # <<>> /\ Head(writer[w].todo).op = "backup"
    BY <1>2 DEF WideTable!Executing
  <2>2. BeforeSwap(w) /\ writer[w].before # WideTable!Absent
    BY <1>1, <2>1, Phases DEF RunInPlace
  <2>3. catalog["target"] = writer[w].before /\ catalog["old"] = WideTable!Absent
        /\ catalog["tmp"].layout = writer[w].spec.version
    BY <2>2 DEF BeforeSwap, Filling
  <2>4. catalog["tmp"] # WideTable!Absent
    <3>1. writer[w].spec.version \in Versions
      BY <1>1, <2>1, RunForm
    <3> QED
      BY <2>3, <3>1 DEF WideTable!Absent
  <2> QED
    BY <2>2, <2>3, <2>4 DEF WideTable!CanSetAside, WideTable!Exists
<1>3. ASSUME WideTable!Executing(w, "publish")
      PROVE  WideTable!CanPutInPlace
  <2>1. writer[w].pc = "execute" /\ writer[w].todo # <<>> /\ Head(writer[w].todo).op = "publish"
    BY <1>3 DEF WideTable!Executing
  <2>2. BetweenRenames(w)
    BY <1>1, <2>1, Phases DEF RunInPlace
  <2>3. catalog["target"] = WideTable!Absent /\ catalog["tmp"].layout = writer[w].spec.version
    BY <2>2 DEF BetweenRenames, WideTable!Whole
  <2>4. catalog["tmp"] # WideTable!Absent
    <3>1. writer[w].spec.version \in Versions
      BY <1>1, <2>1, RunForm
    <3> QED
      BY <2>3, <3>1 DEF WideTable!Absent
  <2> QED
    BY <2>3, <2>4 DEF WideTable!CanPutInPlace, WideTable!Exists
<1> QED
  BY <1>2, <1>3 DEF WideTable!SwapIsNeverBlocked

--------------------------------------------------------------------------------
(* As long as every run succeeds. *)

\* A run that will drop the table finds in it its own version.
Undisturbed(w) ==
    ~undone =>
        /\ writer[w].pc = "idle" => state.status = "success" \/ ~WideTable!Exists("target")
        /\ writer[w].pc \in {"planned", "saved"} /\ writer[w].action # "rebuild" =>
              ~WideTable!Exists("target") \/ catalog["target"].layout = writer[w].spec.version
        /\ writer[w].pc = "execute" /\ ~writer[w].swaps =>
              ~WideTable!Exists("target") \/ catalog["target"].layout = writer[w].spec.version

\* Statements that only put rows in or out of a table leave its layout.
LEMMA LayoutKept ==
    ASSUME NEW w, WideTypes(w), NEW name \in WideTable!Names, NEW rows,
           catalog' = [catalog EXCEPT ![name].rows = rows], WideTable!Exists(name)
    PROVE  /\ catalog'["target"].layout = catalog["target"].layout
           /\ ~WideTable!Exists("target") => ~WideTable!Exists("target")'
<1>1. /\ catalog \in [WideTable!Names -> Tables] /\ "target" \in WideTable!Names
  BY DEF WideTypes, WideTable!Names
<1>2. CASE name = "target"
  <2>1. catalog'["target"] = [catalog["target"] EXCEPT !.rows = rows]
    BY <1>1, <1>2
  <2>2. catalog["target"] \in [layout : Versions, rows : SUBSET (Versions \X (1..LastMonth))]
    BY <1>1, <1>2 DEF WideTable!Exists, Tables
  <2>3. catalog'["target"].layout = catalog["target"].layout
    BY <2>1, <2>2
  <2> QED
    BY <1>2, <2>3
<1>3. CASE name # "target"
  BY <1>1, <1>3 DEF WideTable!Exists
<1> QED
  BY <1>2, <1>3

\* A run that swaps never drops the table.
LEMMA DropsOf ==
    ASSUME NEW w, WideTypes(w), RunInPlace(w), WideTable!DropTable(w), writer[w].swaps
    PROVE  WideTable!On(w) # "target"
<1> DEFINE t == writer[w].todo
           n == Len(t)
<1>1. writer[w].pc = "execute" /\ t # <<>> /\ Head(t).op = "drop"
  BY DEF WideTable!DropTable, WideTable!Executing
<1>2. /\ BeforeFilling(w) => Head(t) = WideTable!Rebuild[10 - n]
      /\ ~BeforeSwap(w) /\ ~BetweenRenames(w)
      /\ AfterSwap(w) => Head(t) = WideTable!Rebuild[9]
  BY <1>1, Turns, Phases
<1>3. BeforeFilling(w) \/ AfterSwap(w)
  BY <1>1, <1>2 DEF RunInPlace
<1>4. BeforeFilling(w) => n \in {4, 5, 6, 7, 8, 9}
  <2>1. n \in 4..9 => n \in {4, 5, 6, 7, 8, 9}
    OBVIOUS
  <2> QED
    BY <2>1 DEF BeforeFilling
<1> HIDE DEF n
<1>5. Head(t).on # "target"
  BY <1>1, <1>2, <1>3, <1>4, RebuildOrder
<1> QED
  BY <1>5 DEF WideTable!On

\* A run that does not swap has no such statement.
LEMMA SwapsOf ==
    ASSUME NEW w, WideTypes(w), RunInPlace(w), WideTable!SetAside(w) \/ WideTable!PutInPlace(w)
    PROVE  writer[w].swaps
<1>1. /\ writer[w].pc = "execute" /\ writer[w].todo # <<>>
      /\ Head(writer[w].todo).op \in {"backup", "publish"}
  BY DEF WideTable!SetAside, WideTable!PutInPlace, WideTable!Executing
<1>2. ~BeforeRefill(w) /\ ~Refilling(w)
  BY <1>1, Phases
<1> QED
  BY <1>1, <1>2 DEF RunInPlace

\* A statement of a run.
LEMMA StatementUndisturbed ==
    ASSUME NEW w, LastMonth \in Nat, WideInPlace(w), Undisturbed(w), Statement(w)
    PROVE  Undisturbed(w)'
<1> DEFINE v == writer[w].spec.version
<1>1. WideTypes(w) /\ RunInPlace(w)
  BY DEF WideInPlace
<1>2. writer[w].pc = "execute" /\ undone' = undone /\ writer[w].todo # <<>>
  BY StatementFrame
<1>3. Head(writer[w].todo) \in Statements
  BY <1>1, <1>2, RunForm, Behind
<1>4. WideTable!On(w) \in WideTable!Names
  BY <1>3 DEF WideTable!On, Statements
<1>5. writer'[w].pc = "execute" /\ writer'[w].spec = writer[w].spec /\ writer'[w].swaps = writer[w].swaps
  BY <1>1, StatementForm
<1>6. SUFFICES ASSUME ~undone, ~writer[w].swaps
               PROVE  ~WideTable!Exists("target")' \/ catalog'["target"].layout = v
  BY <1>2, <1>5 DEF Undisturbed
<1>7. ~WideTable!Exists("target") \/ catalog["target"].layout = v
  BY <1>2, <1>6 DEF Undisturbed
<1>8. catalog \in [WideTable!Names -> Tables] /\ "target" \in WideTable!Names
  BY <1>1 DEF WideTypes, WideTable!Names
<1>9. CASE WideTable!DropTable(w)
  <2>1. catalog' = [catalog EXCEPT ![WideTable!On(w)] = WideTable!Absent]
    BY <1>9 DEF WideTable!DropTable
  <2> QED
    BY <1>4, <1>7, <1>8, <2>1 DEF WideTable!Exists
<1>10. CASE WideTable!CreateTable(w)
  <2>1. catalog' = IF WideTable!Exists(WideTable!On(w)) THEN catalog
                   ELSE [catalog EXCEPT ![WideTable!On(w)] = [layout |-> v, rows |-> {}]]
    BY <1>10 DEF WideTable!CreateTable
  <2> QED
    BY <1>4, <1>7, <1>8, <2>1 DEF WideTable!Exists
<1>11. CASE WideTable!TruncateTable(w)
  <2>1. WideTable!Exists(WideTable!On(w)) /\ catalog' = [catalog EXCEPT ![WideTable!On(w)].rows = {}]
    BY <1>11 DEF WideTable!TruncateTable
  <2> QED
    BY <1>1, <1>4, <1>7, <2>1, LayoutKept
<1>12. CASE WideTable!InsertMonth(w) \/ WideTable!InsertSelect(w)
  <2> DEFINE rows(months) == catalog[WideTable!On(w)].rows \union WideTable!Rows(w, months)
  <2>1. /\ WideTable!Exists(WideTable!On(w))
        /\ \/ catalog' = [catalog EXCEPT ![WideTable!On(w)].rows = rows({Head(writer[w].todo).month})]
           \/ catalog' = [catalog EXCEPT ![WideTable!On(w)].rows = rows(1..source)]
    BY <1>12 DEF WideTable!InsertMonth, WideTable!InsertSelect
  <2> HIDE DEF rows
  <2> QED
    BY <1>1, <1>4, <1>7, <2>1, LayoutKept
<1>13. CASE WideTable!ListMonths(w)
  BY <1>7, <1>13 DEF WideTable!ListMonths, WideTable!Exists
<1>14. CASE WideTable!SetAside(w) \/ WideTable!PutInPlace(w)
  BY <1>1, <1>6, <1>14, SwapsOf
<1> QED
  BY <1>9, <1>10, <1>11, <1>12, <1>13, <1>14 DEF Statement

\* The steps between the statements.
LEMMA OthersUndisturbed ==
    ASSUME NEW w, w = Writer, LastMonth \in Nat, WideInPlace(w), Undisturbed(w),
           \/ \E spec \in WideTable!WideTableMetadata : WideTable!Begin(w, spec)
           \/ WideTable!SaveRunning(w) \/ WideTable!ExecutePlan(w) \/ WideTable!StatementFails(w)
           \/ WideTable!SaveEnd(w) \/ WideTable!Killed(w) \/ WideTable!SourceGrows
    PROVE  Undisturbed(w)'
<1> SUFFICES ASSUME ~undone'
             PROVE  Undisturbed(w)'
  BY DEF Undisturbed
<1>1. WideTypes(w) /\ RunInPlace(w) /\ StateTrue(w) /\ WideTable!SuccessIsPublished
  BY DEF WideInPlace, StateTrue
<1>2. ASSUME NEW spec \in WideTable!WideTableMetadata, WideTable!Begin(w, spec)
      PROVE  Undisturbed(w)'
  <2> DEFINE x == [pc |-> IF spec.valid THEN "planned" ELSE "failed", spec |-> spec,
                   action |-> WideTable!PlanAction(spec), todo |-> <<>>, swaps |-> FALSE, listed |-> 0,
                   before |-> catalog["target"]]
  <2>1. writer' = [writer EXCEPT ![w] = x] /\ catalog' = catalog /\ undone' = undone
        /\ writer[w].pc = "idle"
    BY <1>2 DEF WideTable!Begin
  <2>2. writer'[w] = x
    BY <1>1, <2>1 DEF WideTypes
  <2>3. /\ x.pc = (IF spec.valid THEN "planned" ELSE "failed") /\ x.spec = spec
        /\ x.action = WideTable!PlanAction(spec)
    OBVIOUS
  <2> HIDE DEF x
  <2>4. state.status = "success" \/ ~WideTable!Exists("target")
    BY <2>1 DEF Undisturbed
  <2>5. state.status = "success" => catalog["target"].layout = state.version
    BY <1>1 DEF WideTable!SuccessIsPublished, WideTable!Whole
  <2>6. spec.valid /\ WideTable!PlanAction(spec) # "rebuild" /\ WideTable!Exists("target")
        => state.version = spec.version
    BY DEF WideTable!PlanAction
  <2> QED
    BY <2>1, <2>2, <2>3, <2>4, <2>5, <2>6 DEF Undisturbed, WideTable!Exists
<1>3. CASE WideTable!SaveRunning(w)
  <2>1. /\ writer[w].pc = "planned" /\ catalog' = catalog /\ undone' = undone
        /\ writer' = [writer EXCEPT ![w].pc = "saved"]
    BY <1>3 DEF WideTable!SaveRunning
  <2>2. writer[w] \in Runs
    BY <1>1, <2>1, RunForm
  <2> DEFINE x == [writer[w] EXCEPT !.pc = "saved"]
  <2>3. x.pc = "saved" /\ x.action = writer[w].action /\ x.spec = writer[w].spec
    BY <2>2 DEF Runs
  <2>4. writer'[w] = x
    BY <1>1, <2>1 DEF WideTypes
  <2> HIDE DEF x
  <2> QED
    BY <2>1, <2>3, <2>4 DEF Undisturbed, WideTable!Exists
<1>4. CASE WideTable!ExecutePlan(w)
  <2>1. writer[w].pc = "saved" /\ catalog' = catalog /\ undone' = undone
    BY <1>4 DEF WideTable!ExecutePlan
  <2>2. /\ writer'[w].pc = "execute" /\ writer'[w].spec = writer[w].spec
        /\ writer'[w].swaps = (writer[w].action = "rebuild" /\ WideTable!Exists("target"))
    BY <1>1, <1>4, ExecuteForm
  <2> QED
    BY <2>1, <2>2 DEF Undisturbed, WideTable!Exists
<1>5. CASE WideTable!StatementFails(w)
  <2>1. writer'[w].pc = "failed"
    BY <1>1, <1>5, FailedForm
  <2> QED
    BY <2>1 DEF Undisturbed
<1>6. CASE WideTable!SaveEnd(w)
  <2>1. undone' = (undone \/ writer[w].pc = "failed")
    BY <1>6 DEF WideTable!SaveEnd
  <2>2. writer[w].pc # "failed"
    BY <2>1
  <2>3. state'.status = "success"
    BY <1>6, <2>2 DEF WideTable!SaveEnd
  <2>4. writer'[w].pc = "idle"
    <3>1. writer'[w] = WideTable!Idle
      BY <1>1, <1>6 DEF WideTable!SaveEnd, WideTypes
    <3> QED
      BY <3>1 DEF WideTable!Idle
  <2> QED
    BY <2>3, <2>4 DEF Undisturbed
<1>7. CASE WideTable!Killed(w)
  BY <1>7 DEF WideTable!Killed
<1>8. CASE WideTable!SourceGrows
  BY <1>8 DEF WideTable!SourceGrows, Undisturbed, WideTable!Exists
<1> QED
  BY <1>2, <1>3, <1>4, <1>5, <1>6, <1>7, <1>8

WideInvariant == WideInPlace(Writer) /\ Undisturbed(Writer)

\* The invariant holds initially.
LEMMA WideInit == WideTable!Init => WideInvariant
<1> SUFFICES ASSUME WideTable!Init PROVE WideInvariant
  OBVIOUS
<1>1. WideInPlace(Writer)
  BY SourcesAssumption, InPlaceAtFirst
<1>2. ~WideTable!Exists("target") /\ writer[Writer].pc = "idle"
  BY DEF WideTable!Init, WideTable!Exists, WideTable!Names, WideTable!Idle
<1> QED
  BY <1>1, <1>2 DEF WideInvariant, Undisturbed

\* Every step keeps the invariant.
LEMMA WideStep == WideInvariant /\ WideTable!Next => WideInvariant'
<1> SUFFICES ASSUME WideInvariant, WideTable!Next PROVE WideInvariant'
  OBVIOUS
<1>1. LastMonth \in Nat /\ WideInPlace(Writer) /\ Undisturbed(Writer)
  BY SourcesAssumption DEF WideInvariant
<1>2. WideInPlace(Writer)'
  BY <1>1, InPlaceKept
<1>3. Undisturbed(Writer)'
  BY <1>1, StatementUndisturbed, OthersUndisturbed DEF WideTable!Next, Statement
<1> QED
  BY <1>2, <1>3 DEF WideInvariant

\* So does a step of nothing.
LEMMA WideStutter == WideInvariant /\ UNCHANGED wideVars => WideInvariant'
<1> SUFFICES ASSUME WideInvariant, UNCHANGED wideVars PROVE WideInvariant'
  OBVIOUS
<1>1. WideInPlace(Writer)'
  BY InPlaceUntouched DEF WideInvariant
<1>2. Undisturbed(Writer)'
  BY DEF WideInvariant, Undisturbed, wideVars, WideTable!Exists
<1> QED
  BY <1>1, <1>2 DEF WideInvariant

\* What the invariant says.
LEMMA WideHolds ==
    WideInvariant =>
        /\ WideTable!SuccessIsPublished
        /\ WideTable!RebuildKeepsTable
        /\ WideTable!SwapIsNeverBlocked
        /\ WideTable!DropOfOwnVersion
<1> SUFFICES ASSUME WideInvariant
             PROVE  /\ WideTable!SuccessIsPublished
                    /\ WideTable!RebuildKeepsTable
                    /\ WideTable!SwapIsNeverBlocked
                    /\ WideTable!DropOfOwnVersion
  OBVIOUS
<1>1. /\ LastMonth \in Nat /\ "absent" \notin Versions /\ WideInPlace(Writer)
      /\ Undisturbed(Writer)
  BY SourcesAssumption DEF WideInvariant
<1>2. WideTable!SuccessIsPublished
  BY <1>1 DEF WideInPlace, StateTrue
<1>3. WideTable!RebuildKeepsTable
  BY <1>1, ReadersFollow
<1>4. WideTable!SwapIsNeverBlocked
  BY <1>1, SwapFollows
<1>5. WideTable!DropOfOwnVersion
  <2> SUFFICES ASSUME WideTable!DropTable(Writer), WideTable!On(Writer) = "target",
                      WideTable!Exists("target"), ~undone
               PROVE  catalog["target"].layout = writer[Writer].spec.version
    BY DEF WideTable!DropOfOwnVersion
  <2>1. ~writer[Writer].swaps
    BY <1>1, DropsOf DEF WideInPlace
  <2>2. writer[Writer].pc = "execute"
    BY DEF WideTable!DropTable, WideTable!Executing
  <2> QED
    BY <1>1, <2>1, <2>2 DEF Undisturbed
<1> QED
  BY <1>2, <1>3, <1>4, <1>5

--------------------------------------------------------------------------------
(* The status of a table. *)

Dates == 0..MaxDate

Waiting == [pc : {"load", "query", "query only"}, signature : Nat, data : BOOLEAN]
Answered == [pc : {"save", "shown"}, signature : Nat, date : Dates]
Outcomes == {"running", "skipped", "success", "failed"}
Records == [pc : {"read", "write", "replace", "task"}, attempt : Nat, status : Outcomes, success : Nat]

StatusTypes ==
    /\ past \in Seq(Dates)
    /\ Status!Signature > 0
    /\ watermark \in [signature : Nat, date : Nat]
    /\ request \in [Viewers -> {Status!Idle} \union Waiting \union Answered]
    /\ file \in [status : Outcomes \union {"none"}, success : Nat]
    /\ temp \in [status : Outcomes \union {"none"}, success : Nat]
    /\ recorder \in {Status!Idle} \union Records
    /\ attempts \in Nat
    /\ succeeded \in Nat

\* A request carries a signature the table has had, what it knows of the data was so under that
\* signature, and what it has read was so since.
RequestOK(req) ==
    /\ req # Status!Idle => req.signature \in 1..Status!Signature
    /\ req \in Waiting => (req.data <=> past[req.signature] > 0)
    /\ req \in Answered => req.date \in Status!Since(req.signature)

\* The cache holds what some request had read.
WatermarkOK ==
    watermark # Status!NoMark =>
        watermark.signature \in 1..Status!Signature /\ watermark.date \in Status!Since(watermark.signature)

\* Nobody else writes the file between a read and the replacement that rests on it.
RecordOK ==
    /\ file.success = succeeded
    /\ recorder.pc \in {"write", "replace"} => recorder.success = file.success
    /\ recorder.pc = "replace" =>
          temp.success = IF Status!Succeeds THEN recorder.attempt ELSE recorder.success

DatesOK == WatermarkOK /\ \A r \in Viewers : RequestOK(request[r])

StatusInvariant == StatusTypes /\ DatesOK /\ RecordOK

--------------------------------------------------------------------------------
(* Dates of a table over time. *)

\* The newest date of the table as it is now.
LEMMA SinceNow ==
    ASSUME StatusTypes
    PROVE  /\ Status!LatestDate \in Dates
           /\ \A signature \in 1..Status!Signature : Status!LatestDate \in Status!Since(signature)
           /\ Status!Since(Status!Signature) = {Status!LatestDate}
<1>1. Status!Signature \in Nat /\ Status!Signature > 0 /\ past \in [1..Status!Signature -> Dates]
  BY DEF StatusTypes, Status!Signature
<1>2. Status!LatestDate = past[Status!Signature] /\ Status!LatestDate \in Dates
  BY <1>1 DEF Status!LatestDate
<1>3. \A s \in 1..Status!Signature : Status!Signature \in s..Status!Signature
  BY <1>1
<1>4. Status!Signature..Status!Signature = {Status!Signature}
  BY <1>1
<1>5. \A s \in 1..Status!Signature : Status!LatestDate \in Status!Since(s)
  BY <1>2, <1>3 DEF Status!Since
<1>6. Status!Since(Status!Signature) = {Status!LatestDate}
  BY <1>2, <1>4 DEF Status!Since
<1> QED
  BY <1>2, <1>5, <1>6

\* A request in the middle of its way is in exactly one of its forms.
LEMMA Forms ==
    /\ \A req \in Waiting : req.pc \in {"load", "query", "query only"} /\ req # Status!Idle /\ req \notin Answered
    /\ \A req \in Answered : req.pc \in {"save", "shown"} /\ req # Status!Idle /\ req \notin Waiting
    /\ Status!Idle.pc = "idle" /\ Status!Idle \notin Waiting /\ Status!Idle \notin Answered
<1>1. \A req \in Waiting : req.pc \in {"load", "query", "query only"}
  BY DEF Waiting
<1>2. \A req \in Answered : req.pc \in {"save", "shown"}
  BY DEF Answered
<1>3. Status!Idle.pc = "idle"
  BY DEF Status!Idle
<1> QED
  BY <1>1, <1>2, <1>3

\* What was true since a signature remains so when the table changes.
LEMMA SinceGrows ==
    ASSUME StatusTypes, NEW date \in Dates, Status!Change(date)
    PROVE  /\ past' \in Seq(Dates)
           /\ Status!Signature' = Status!Signature + 1
           /\ \A s \in 1..Status!Signature : past'[s] = past[s] /\ Status!Since(s) \subseteq Status!Since(s)'
<1>1. past' = Append(past, date) /\ past \in Seq(Dates) /\ Status!Signature \in Nat
  BY DEF Status!Change, StatusTypes, Status!Signature
<1>2. past' \in Seq(Dates) /\ Status!Signature' = Status!Signature + 1
  BY <1>1 DEF Status!Signature
<1>3. \A s \in 1..Status!Signature : past'[s] = past[s]
  BY <1>1 DEF Status!Signature
<1>4. ASSUME NEW s \in 1..Status!Signature
      PROVE  Status!Since(s) \subseteq Status!Since(s)'
  <2>1. \A i \in s..Status!Signature : i \in s..(Status!Signature + 1) /\ i \in 1..Status!Signature
    BY <1>1
  <2>2. \A i \in s..Status!Signature : past[i] \in {past'[j] : j \in s..(Status!Signature + 1)}
    BY <1>3, <2>1
  <2> QED
    BY <1>2, <2>2 DEF Status!Since
<1> QED
  BY <1>2, <1>3, <1>4

--------------------------------------------------------------------------------
(* The steps. *)

\* A change of the table leaves what requests and the cache know true.
LEMMA ChangeKeeps ==
    ASSUME StatusInvariant, NEW date \in Dates, Status!Change(date)
    PROVE  StatusInvariant'
<1> USE DEF StatusInvariant
<1>1. StatusTypes'
  BY SinceGrows DEF StatusTypes, Status!Change, Status!Signature
<1>2. DatesOK'
  <2>1. WatermarkOK'
    BY SinceGrows DEF DatesOK, WatermarkOK, Status!Change, StatusTypes, Status!NoMark,
       Status!Signature
  <2>2. ASSUME NEW r \in Viewers
        PROVE  RequestOK(request[r])'
    <3>1. RequestOK(request[r]) /\ request' = request /\ Status!Signature \in Nat
      BY DEF DatesOK, Status!Change, StatusTypes, Status!Signature
    <3>2. request[r] \in {Status!Idle} \union Waiting \union Answered
      BY DEF StatusTypes
    <3>3. CASE request[r] = Status!Idle
      BY <3>1, <3>3, Forms DEF RequestOK
    <3>4. CASE request[r] \in Waiting
      <4>1. request[r].signature \in 1..Status!Signature /\ (request[r].data <=> past[request[r].signature] > 0)
        BY <3>1, <3>4, Forms DEF RequestOK
      <4>2. /\ request[r].signature \in 1..(Status!Signature')
            /\ past'[request[r].signature] = past[request[r].signature]
        BY <3>1, <4>1, SinceGrows
      <4> QED
        BY <3>1, <3>4, <4>1, <4>2, Forms DEF RequestOK
    <3>5. CASE request[r] \in Answered
      <4>1. request[r].signature \in 1..Status!Signature
            /\ request[r].date \in Status!Since(request[r].signature)
        BY <3>1, <3>5, Forms DEF RequestOK
      <4>2. request[r].signature \in 1..(Status!Signature')
            /\ request[r].date \in Status!Since(request[r].signature)'
        BY <3>1, <4>1, SinceGrows
      <4> QED
        BY <3>1, <3>5, <4>2, Forms DEF RequestOK
    <3> QED
      BY <3>2, <3>3, <3>4, <3>5
  <2> QED
    BY <2>1, <2>2 DEF DatesOK
<1>3. RecordOK'
  BY DEF RecordOK, Status!Change, Status!Succeeds
<1> QED
  BY <1>1, <1>2, <1>3

\* A step of one request that changes nothing but its own place and, perhaps, the cache.
LEMMA RequestKeeps ==
    ASSUME StatusInvariant, NEW r \in Viewers, NEW STATE next, Status!StepTo(r, next),
           next \in {Status!Idle} \union Waiting \union Answered, RequestOK(next),
           watermark' \in [signature : Nat, date : Nat],
           \/ watermark' = watermark
           \/ watermark'.signature \in 1..Status!Signature /\ watermark'.date \in Status!Since(watermark'.signature)
    PROVE  StatusInvariant'
<1> USE DEF StatusInvariant
<1>1. /\ request' = [request EXCEPT ![r] = next]
      /\ request \in [Viewers -> {Status!Idle} \union Waiting \union Answered]
      /\ past' = past /\ Status!Signature' = Status!Signature
      /\ \A s : Status!Since(s)' = Status!Since(s)
  BY DEF Status!StepTo, StatusTypes, Status!Since, Status!Signature
<1>2. StatusTypes'
  BY <1>1 DEF StatusTypes, Status!StepTo
<1>3. WatermarkOK'
  BY <1>1 DEF DatesOK, WatermarkOK
<1>4. ASSUME NEW q \in Viewers
      PROVE  RequestOK(request[q])'
  <2>1. CASE q = r
    <3>1. request'[q] = next
      BY <1>1, <2>1
    <3> QED
      BY <1>1, <3>1 DEF RequestOK
  <2>2. CASE q # r
    <3>1. request'[q] = request[q] /\ RequestOK(request[q])
      BY <1>1, <2>2 DEF DatesOK
    <3> QED
      BY <1>1, <3>1 DEF RequestOK
  <2> QED
    BY <2>1, <2>2
<1>5. RecordOK'
  BY DEF RecordOK, Status!StepTo, Status!Succeeds
<1> QED
  BY <1>2, <1>3, <1>4, <1>5 DEF DatesOK

\* Every step of a request is of that kind.
LEMMA RequestActionsKeep ==
    ASSUME StatusInvariant, NEW r \in Viewers,
           \/ Status!ReadParts(r) \/ Status!UseWatermark(r) \/ Status!QueryLatestDate(r)
           \/ Status!SaveWatermark(r)
           \/ Status!SaveFails(r) \/ Status!EndRequest(r)
           \/ \E reachable \in BOOLEAN : Status!WatermarkStale(r, reachable)
    PROVE  StatusInvariant'
<1> DEFINE req == request[r]
<1>1. StatusTypes /\ WatermarkOK /\ RequestOK(req) /\ Status!Signature \in Nat /\ Status!Signature > 0
  BY DEF StatusInvariant, DatesOK, StatusTypes, Status!Signature
<1>2. /\ req \in {Status!Idle} \union Waiting \union Answered
      /\ watermark \in [signature : Nat, date : Nat]
  BY DEF StatusInvariant, StatusTypes
<1>3. /\ req.pc \in {"load", "query", "query only"} => req \in Waiting
      /\ req.pc \in {"save", "shown"} => req \in Answered
  BY <1>2, Forms
<1>4. Status!LatestDate \in Dates /\ \A s \in 1..Status!Signature : Status!LatestDate \in Status!Since(s)
  BY <1>1, SinceNow
<1>5. \A d \in Dates : d \in Nat
  BY DEF Dates
<1>6. \A sig \in 1..Status!Signature, d \in Dates, pc \in {"save", "shown"} :
         d \in Status!Since(sig) =>
            LET a == [pc |-> pc, signature |-> sig, date |-> d] IN a \in Answered /\ RequestOK(a)
  <2> SUFFICES ASSUME NEW sig \in 1..Status!Signature, NEW d \in Dates, NEW pc \in {"save", "shown"},
                      d \in Status!Since(sig)
               PROVE  LET a == [pc |-> pc, signature |-> sig, date |-> d]
                      IN  a \in Answered /\ RequestOK(a)
    OBVIOUS
  <2> DEFINE a == [pc |-> pc, signature |-> sig, date |-> d]
  <2>1. a \in Answered
    BY <1>1 DEF Answered
  <2>2. a.signature = sig /\ a.date = d
    OBVIOUS
  <2> QED
    BY <2>1, <2>2, Forms DEF RequestOK
<1>7. CASE Status!ReadParts(r)
  <2> DEFINE next == [pc |-> "load", signature |-> Status!Signature, data |-> Status!LatestDate > 0]
  <2>1. next \in Waiting
    BY <1>1 DEF Waiting
  <2>2. next.signature = Status!Signature /\ (next.data <=> past[next.signature] > 0)
    BY DEF Status!LatestDate
  <2>3. RequestOK(next)
    <3> HIDE DEF next
    <3>1. next.signature \in 1..Status!Signature
      BY <1>1, <2>2
    <3> QED
      BY <2>1, <2>2, <3>1, Forms DEF RequestOK
  <2>4. Status!StepTo(r, next) /\ watermark' = watermark
    BY <1>7 DEF Status!ReadParts
  <2> QED
    BY ONLY StatusInvariant, r \in Viewers, <1>2, <2>1, <2>3, <2>4, RequestKeeps
<1>8. CASE Status!UseWatermark(r)
  <2>1. req \in Waiting /\ req.signature \in 1..Status!Signature
    BY <1>1, <1>3, <1>8, Forms DEF Status!UseWatermark, RequestOK
  <2>2. watermark # Status!NoMark /\ watermark.signature = req.signature
    BY <1>8, <2>1 DEF Status!UseWatermark, Status!Current, Status!NoMark
  <2>3. watermark.date \in Status!Since(req.signature)
    BY <1>1, <2>2 DEF WatermarkOK
  <2>4. watermark.date \in Dates
    BY <1>1, <2>1, <2>3 DEF Status!Since, StatusTypes, Status!Signature
  <2>5. Status!Shown(r, watermark.date) \in Answered /\ RequestOK(Status!Shown(r, watermark.date))
    BY <1>6, <2>1, <2>3, <2>4 DEF Status!Shown
  <2>6. Status!StepTo(r, Status!Shown(r, watermark.date)) /\ watermark' = watermark
    BY <1>8 DEF Status!UseWatermark
  <2> QED
    BY ONLY StatusInvariant, r \in Viewers, <1>2, <2>5, <2>6, RequestKeeps
<1>9. CASE \E reachable \in BOOLEAN : Status!WatermarkStale(r, reachable)
  <2> PICK reachable \in BOOLEAN : Status!WatermarkStale(r, reachable)
    BY <1>9
  <2> DEFINE next == [req EXCEPT !.pc = IF reachable THEN "query" ELSE "query only"]
  <2>1. req \in Waiting
    BY <1>3 DEF Status!WatermarkStale
  <2>2. next \in Waiting /\ next.signature = req.signature /\ next.data = req.data
    BY <2>1 DEF Waiting
  <2>3. RequestOK(next)
    <3>1. req.signature \in 1..Status!Signature /\ (req.data <=> past[req.signature] > 0)
      BY <1>1, <2>1, Forms DEF RequestOK
    <3>2. next.signature \in 1..Status!Signature /\ (next.data <=> past[next.signature] > 0)
      BY <2>2, <3>1
    <3> HIDE DEF next
    <3> QED
      BY <2>2, <3>2, Forms DEF RequestOK
  <2>4. Status!StepTo(r, next) /\ watermark' = watermark
    BY DEF Status!WatermarkStale
  <2> QED
    BY ONLY StatusInvariant, r \in Viewers, <1>2, <2>2, <2>3, <2>4, RequestKeeps
<1>10. CASE Status!QueryLatestDate(r)
  <2> DEFINE date == IF req.data THEN Status!LatestDate ELSE 0
             next == IF req.pc = "query only" THEN Status!Shown(r, date)
                     ELSE [pc |-> "save", signature |-> req.signature, date |-> date]
  <2>1. req \in Waiting /\ req.signature \in 1..Status!Signature /\ (req.data <=> past[req.signature] > 0)
    BY <1>1, <1>3, <1>10, Forms DEF Status!QueryLatestDate, RequestOK
  <2>2. past[req.signature] \in Dates /\ past[req.signature] \in Status!Since(req.signature)
    BY <1>1, <2>1 DEF StatusTypes, Status!Signature, Status!Since
  <2>3. ~req.data => past[req.signature] = 0
    BY <2>1, <2>2 DEF Dates
  <2>4. date \in Dates /\ date \in Status!Since(req.signature)
    BY <1>4, <2>1, <2>2, <2>3
  <2>5. next \in Answered /\ RequestOK(next)
    BY <1>6, <2>1, <2>4 DEF Status!Shown
  <2>6. Status!StepTo(r, next) /\ watermark' = watermark
    BY <1>10 DEF Status!QueryLatestDate
  <2> QED
    BY ONLY StatusInvariant, r \in Viewers, <1>2, <2>5, <2>6, RequestKeeps
<1>11. CASE Status!SaveWatermark(r) \/ Status!SaveFails(r)
  <2>1. req \in Answered /\ req.signature \in 1..Status!Signature
        /\ req.date \in Status!Since(req.signature)
    BY <1>1, <1>3, <1>11, Forms DEF Status!SaveWatermark, Status!SaveFails, RequestOK
  <2>2. req.date \in Dates
    BY <2>1 DEF Answered
  <2>3. Status!Shown(r, req.date) \in Answered /\ RequestOK(Status!Shown(r, req.date))
    BY <1>6, <2>1, <2>2 DEF Status!Shown
  <2>4. Status!StepTo(r, Status!Shown(r, req.date))
        /\ (watermark' = Status!Mark(r) \/ watermark' = watermark)
    BY <1>11 DEF Status!SaveWatermark, Status!SaveFails
  <2>5. /\ Status!Mark(r) \in [signature : Nat, date : Nat]
        /\ Status!Mark(r).signature \in 1..Status!Signature
        /\ Status!Mark(r).date \in Status!Since(Status!Mark(r).signature)
    BY <1>1, <1>5, <2>1, <2>2 DEF Status!Mark
  <2> QED
    BY ONLY StatusInvariant, r \in Viewers, <1>2, <2>3, <2>4, <2>5, RequestKeeps
<1>12. CASE Status!EndRequest(r)
  <2>1. RequestOK(Status!Idle)
    BY Forms DEF RequestOK
  <2>2. Status!StepTo(r, Status!Idle) /\ watermark' = watermark
    BY <1>12 DEF Status!EndRequest
  <2> QED
    BY ONLY StatusInvariant, r \in Viewers, <1>2, <2>1, <2>2, RequestKeeps
<1> QED
  BY <1>7, <1>8, <1>9, <1>10, <1>11, <1>12

\* Of the steps of the recorder only the replacement changes the file, by what rests on it.
LEMMA RecorderKeeps ==
    ASSUME StatusInvariant,
           \/ \E status \in {"running", "skipped"} : Status!StartTask(status)
           \/ Status!ReadState \/ Status!WriteTemp \/ Status!ReplaceFile \/ Status!RecordFails
           \/ Status!Killed
           \/ \E status \in {"success", "failed"} : Status!EndTask(status)
    PROVE  StatusInvariant'
<1>1. StatusTypes /\ DatesOK /\ RecordOK
  BY DEF StatusInvariant
<1>2. past' = past /\ watermark' = watermark /\ request' = request
  BY DEF Status!StartTask, Status!ReadState, Status!WriteTemp, Status!ReplaceFile,
     Status!RecordFails, Status!Killed, Status!EndTask, Status!RecorderTo
<1>3. DatesOK'
  <2>1. Status!Signature' = Status!Signature /\ \A s : Status!Since(s)' = Status!Since(s)
    BY <1>2 DEF Status!Signature, Status!Since
  <2> QED
    BY <1>1, <1>2, <2>1 DEF DatesOK, WatermarkOK, RequestOK
<1>4. Status!Idle.pc = "idle" /\ \A rec \in Records : rec.pc # "idle"
  BY DEF Status!Idle, Records
<1>5. /\ recorder' \in {Status!Idle} \union Records /\ RecordOK'
      /\ temp' \in [status : Outcomes \union {"none"}, success : Nat]
      /\ file' \in [status : Outcomes \union {"none"}, success : Nat]
      /\ attempts' \in Nat /\ succeeded' \in Nat
  <2>1. CASE \E status \in {"running", "skipped"} : Status!StartTask(status)
    BY <1>1, <1>4, <2>1 DEF Status!StartTask, Status!RecorderTo, Status!Record, Records, Outcomes,
       RecordOK, StatusTypes, Status!Succeeds
  <2>2. CASE Status!ReadState
    BY <1>1, <1>4, <2>2 DEF Status!ReadState, Status!RecorderTo, Records, RecordOK, StatusTypes,
       Status!Succeeds
  <2>3. CASE Status!WriteTemp
    BY <1>1, <1>4, <2>3 DEF Status!WriteTemp, Status!RecorderTo, Records, Outcomes, RecordOK,
       StatusTypes, Status!Succeeds
  <2>4. CASE Status!ReplaceFile
    BY <1>1, <1>4, <2>4 DEF Status!ReplaceFile, Status!RecorderTo, Status!AfterRecord, Records,
       RecordOK, StatusTypes, Status!Succeeds
  <2>5. CASE Status!RecordFails
    BY <1>1, <1>4, <2>5 DEF Status!RecordFails, Status!RecorderTo, Status!AfterRecord, Records,
       RecordOK, StatusTypes, Status!Succeeds
  <2>6. CASE Status!Killed
    BY <1>1, <1>4, <2>6 DEF Status!Killed, Status!RecorderTo, RecordOK, StatusTypes, Status!Succeeds
  <2>7. CASE \E status \in {"success", "failed"} : Status!EndTask(status)
    BY <1>1, <1>4, <2>7 DEF Status!EndTask, Status!RecorderTo, Status!Record, Records, Outcomes,
       RecordOK, StatusTypes, Status!Succeeds
  <2> QED
    BY <2>1, <2>2, <2>3, <2>4, <2>5, <2>6, <2>7
<1>6. StatusTypes'
  BY <1>1, <1>2, <1>5 DEF StatusTypes, Status!Signature
<1> QED
  BY <1>3, <1>5, <1>6 DEF StatusInvariant

--------------------------------------------------------------------------------
(* What follows. *)

\* The invariant holds initially.
LEMMA StatusInit == Status!Init => StatusInvariant
<1> SUFFICES ASSUME Status!Init PROVE StatusInvariant
  OBVIOUS
<1>1. PICK date \in Dates : past = <<date>>
  BY DEF Status!Init, Dates
<1>2. past \in Seq(Dates) /\ Status!Signature = 1
  BY <1>1 DEF Status!Signature
<1>3. StatusTypes
  BY <1>2 DEF Status!Init, StatusTypes, Status!NoMark, Outcomes
<1>4. DatesOK
  BY Forms DEF Status!Init, DatesOK, WatermarkOK, RequestOK
<1>5. RecordOK
  BY DEF Status!Init, RecordOK, Status!Idle
<1> QED
  BY <1>3, <1>4, <1>5 DEF StatusInvariant

\* Every step keeps the invariant.
LEMMA StatusStep == StatusInvariant /\ Status!Next => StatusInvariant'
<1> SUFFICES ASSUME StatusInvariant, Status!Next PROVE StatusInvariant'
  OBVIOUS
<1>1. CASE \E date \in Dates : Status!Change(date)
  BY <1>1, ChangeKeeps
<1>2. CASE \E r \in Viewers :
              \/ Status!ReadParts(r) \/ Status!UseWatermark(r) \/ Status!QueryLatestDate(r)
              \/ Status!SaveWatermark(r)
              \/ Status!SaveFails(r) \/ Status!EndRequest(r)
              \/ \E reachable \in BOOLEAN : Status!WatermarkStale(r, reachable)
  BY <1>2, RequestActionsKeep
<1>3. CASE \/ \E status \in {"running", "skipped"} : Status!StartTask(status)
           \/ Status!ReadState \/ Status!WriteTemp \/ Status!ReplaceFile \/ Status!RecordFails
           \/ Status!Killed
           \/ \E status \in {"success", "failed"} : Status!EndTask(status)
  BY <1>3, RecorderKeeps
<1> QED
  BY <1>1, <1>2, <1>3 DEF Status!Next, Dates

\* So does a step of nothing.
LEMMA StatusStutter == StatusInvariant /\ UNCHANGED <<file, statusVars>> => StatusInvariant'
BY DEF statusVars, StatusInvariant, StatusTypes, DatesOK, WatermarkOK, RequestOK, RecordOK,
       Status!Signature, Status!Since, Status!Succeeds

\* What the invariant says.
LEMMA EnoughForChecked == StatusInvariant => Status!CheckedIsCurrent
<1> SUFFICES ASSUME StatusInvariant PROVE Status!CheckedIsCurrent
  OBVIOUS
<1>1. watermark.signature = Status!Signature => watermark.date = Status!LatestDate
  <2>1. Status!Since(Status!Signature) = {Status!LatestDate} /\ Status!Signature > 0
    BY SinceNow DEF StatusInvariant, StatusTypes
  <2>2. watermark.signature = Status!Signature => watermark # Status!NoMark
    BY <2>1 DEF Status!NoMark
  <2> QED
    BY <2>1, <2>2 DEF StatusInvariant, DatesOK, WatermarkOK
<1>2. ASSUME NEW r \in Viewers, request[r].pc = "shown"
      PROVE  request[r].date \in Status!Since(request[r].signature)
  BY <1>2, Forms DEF StatusInvariant, StatusTypes, DatesOK, RequestOK
<1>3. Status!SuccessIsKept
  BY DEF StatusInvariant, RecordOK, Status!SuccessIsKept
<1> QED
  BY <1>1, <1>2, <1>3 DEF Status!CheckedIsCurrent, Status!DatesAreTrue
================================================================================
