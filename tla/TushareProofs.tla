----------------------------- MODULE TushareProofs -----------------------------
(* Proofs about the lists that the runners make, and the inductive invariant of the Tushare
   runner. The theorems that rest on it are in ProvidersProofs. *)
EXTENDS Providers, Lists, FiniteSetTheorems, WellFoundedInduction, TLAPS

--------------------------------------------------------------------------------
(* Induction, and the operators of Lists. *)

\* Induction over the natural numbers, of a set.
LEMMA Induction == ASSUME NEW T \in SUBSET Nat, 0 \in T, \A n \in T : n+1 \in T PROVE T = Nat
<1> DEFINE U == Nat \ T
<1>1. SUFFICES ASSUME U # {} PROVE FALSE
  OBVIOUS
<1>2. IsWellFoundedOn(OpToRel(<,Nat), Nat)
  BY NatLessThanWellFounded
<1>3. PICK x \in U : \A y \in U : ~(<<y,x>> \in OpToRel(<,Nat))
  BY <1>1, <1>2, WFMin
<1>4. \A y \in U : ~(y < x)
  BY <1>3 DEF OpToRel
<1> QED BY <1>4

\* SetToSeq lists every member of a finite set.
LEMMA SetToSeqLists ==
  ASSUME NEW S, IsFiniteSet(S)
  PROVE  /\ Cardinality(S) \in Nat
         /\ SetToSeq(S) \in [1..Cardinality(S) -> S]
         /\ \A x \in S : \E i \in 1..Cardinality(S) : SetToSeq(S)[i] = x
<1> DEFINE N == Cardinality(S)
<1>1. N \in Nat
  BY FS_CardinalityType
<1>2. ExistsBijection(1..N, S)
  BY FS_CardinalityType
<1>3. PICK f \in Bijection(1..N, S) : TRUE
  BY <1>2 DEF ExistsBijection
<1>4. f \in [1..N -> S] /\ \A i, j \in DOMAIN f : f[i] = f[j] => i = j
  BY <1>3 DEF Bijection, Injection, Surjection, IsInjective
<1>5. SetToSeq(S) \in [1..N -> S] /\ \A i, j \in DOMAIN SetToSeq(S) : SetToSeq(S)[i] = SetToSeq(S)[j] => i = j
  BY <1>4 DEF SetToSeq
<1>6. IsFiniteSet(1..N) /\ Cardinality(1..N) = N
  BY <1>1, FS_Interval
<1>7. SetToSeq(S) \in Injection(1..N, S)
  BY <1>5 DEF Injection, IsInjective
<1>8. SetToSeq(S) \in Surjection(1..N, S)
  BY <1>6, <1>7, FS_Injection
<1>9. \A x \in S : \E i \in 1..N : SetToSeq(S)[i] = x
  BY <1>8 DEF Surjection
<1> HIDE DEF N
<1> QED BY <1>1, <1>5, <1>9 DEF N

\* Where the members of two lists are in the one made of both.
LEMMA ConcatenatedAt ==
  ASSUME NEW S, NEW p \in Seq(S), NEW q \in Seq(S), NEW r, r = p \o q
  PROVE  /\ \A m \in DOMAIN p : m \in DOMAIN r /\ r[m] = p[m]
         /\ \A j \in DOMAIN q : Len(p) + j \in DOMAIN r /\ r[Len(p) + j] = q[j]
OBVIOUS

\* The head and the tail of a list.
LEMMA ListEnds ==
  ASSUME NEW S, NEW list \in Seq(S), list # <<>>
  PROVE  Head(list) \in S /\ Tail(list) \in Seq(S)
OBVIOUS

\* A member of a list is its head, or in its tail.
LEMMA ListMembers ==
  ASSUME NEW S, NEW list \in Seq(S), list # <<>>, NEW j \in DOMAIN list
  PROVE  list[j] = Head(list) \/ \E k \in DOMAIN Tail(list) : Tail(list)[k] = list[j]
<1>1. CASE j = 1
  BY <1>1
<1>2. CASE j # 1
  <2>1. j - 1 \in DOMAIN Tail(list) /\ Tail(list)[j - 1] = list[j]
    BY <1>2
  <2> QED BY <2>1
<1> QED BY <1>1, <1>2

\* The largest of some numbers, 0 if there are none.
LatestIn(S) == IF S = {} THEN 0 ELSE CHOOSE d \in S : \A e \in S : e <= d

\* The largest day of a set: 0 for none.
LEMMA LatestValue ==
  ASSUME NEW n \in Nat, NEW S \in SUBSET (1..n)
  PROVE  /\ LatestIn(S) \in 0..n
         /\ S # {} => LatestIn(S) \in S
         /\ \A e \in S : e <= LatestIn(S)
<1> DEFINE T == {k \in Nat : \A U \in SUBSET (1..k) : U # {} => \E d \in U : \A e \in U : e <= d}
<1>1. 0 \in T
  <2>1. \A U \in SUBSET (1..0) : U = {}
    OBVIOUS
  <2> QED BY <2>1
<1>2. ASSUME NEW k \in T PROVE k + 1 \in T
  <2> SUFFICES ASSUME NEW U \in SUBSET (1..k+1), U # {} PROVE \E d \in U : \A e \in U : e <= d
    OBVIOUS
  <2>1. CASE k + 1 \in U
    BY <2>1
  <2>2. CASE k + 1 \notin U
    <3>1. U \in SUBSET (1..k)
      BY <2>2
    <3> QED BY <3>1
  <2> QED BY <2>1, <2>2
<1>3. T = Nat
  <2> HIDE DEF T
  <2>1. T \in SUBSET Nat
    BY DEF T
  <2> QED BY <1>1, <1>2, <2>1, Induction
<1>4. S # {} => \E d \in S : \A e \in S : e <= d
  BY <1>3
<1>5. S # {} => LatestIn(S) \in S /\ \A e \in S : e <= LatestIn(S)
  <2> HIDE DEF T
  <2> QED BY <1>4 DEF LatestIn
<1>6. S = {} => LatestIn(S) = 0
  BY DEF LatestIn
<1> HIDE DEF T
<1>7. S # {} => LatestIn(S) \in 1..n
  BY <1>5
<1>8. LatestIn(S) \in 0..n
  BY <1>6, <1>7
<1> QED BY <1>5, <1>6, <1>8


\* FlattenSeq builds its result one list at a time.
LEMMA FlattenFold ==
  ASSUME NEW S, NEW lists \in Seq(Seq(S))
  PROVE  \E f : /\ f[0] = <<>>
                /\ \A k \in 1..Len(lists) : f[k] = f[k - 1] \o lists[k]
                /\ FlattenSeq(lists) = f[Len(lists)]
<1> DEFINE Is(f, n) == f = [k \in 0..n |-> IF k = 0 THEN <<>> ELSE f[k - 1] \o lists[k]]
           T == {n \in Nat : \E f : Is(f, n)}
           f == CHOOSE g : Is(g, Len(lists))
<1>1. 0 \in T
  <2>1. \A k \in 0..0 : k = 0
    OBVIOUS
  <2>2. Is([k \in 0..0 |-> <<>>], 0)
    BY <2>1
  <2> QED BY <2>2
<1>2. ASSUME NEW n \in T PROVE n + 1 \in T
  <2>1. PICK g : Is(g, n)
    OBVIOUS
  <2> DEFINE h == [k \in 0..n + 1 |-> IF k = 0 THEN <<>> ELSE g[k - 1] \o lists[k]]
  <2>2. ASSUME NEW k \in 0..n PROVE h[k] = g[k]
    <3>1. g[k] = IF k = 0 THEN <<>> ELSE g[k - 1] \o lists[k]
      BY <2>1
    <3>2. k \in 0..n + 1
      OBVIOUS
    <3> QED BY <3>1, <3>2
  <2>3. Is(h, n + 1)
    <3>1. \A k \in 0..n + 1 : k # 0 => k - 1 \in 0..n
      OBVIOUS
    <3>2. \A k \in 0..n + 1 : h[k] = IF k = 0 THEN <<>> ELSE h[k - 1] \o lists[k]
      BY <2>2, <3>1
    <3> QED BY <3>2
  <2> HIDE DEF h, Is
  <2> QED BY <2>3
<1>3. T = Nat
  <2> HIDE DEF T
  <2>1. T \in SUBSET Nat
    BY DEF T
  <2> QED BY <1>1, <1>2, <2>1, Induction
<1>4. Len(lists) \in Nat /\ DOMAIN lists = 1..Len(lists)
  OBVIOUS
<1>5. Is(f, Len(lists))
  <2>1. \E g : Is(g, Len(lists))
    BY <1>3, <1>4
  <2> HIDE DEF Is
  <2> QED BY <2>1
<1>6. FlattenSeq(lists) = f[Len(lists)]
  BY DEF FlattenSeq
<1>7. /\ f[0] = <<>>
      /\ \A k \in 1..Len(lists) : f[k] = f[k - 1] \o lists[k]
  <2> HIDE DEF f
  <2>1. PICK n \in Nat : n = Len(lists)
    BY <1>4
  <2>2. \A k \in 0..n : f[k] = IF k = 0 THEN <<>> ELSE f[k - 1] \o lists[k]
    BY <1>5, <2>1
  <2>3. f[0] = <<>>
    BY <2>2
  <2>4. ASSUME NEW k \in 1..n PROVE f[k] = f[k - 1] \o lists[k]
    <3>1. k \in 0..n /\ k # 0
      OBVIOUS
    <3> QED BY <2>2, <3>1
  <2> QED BY <2>1, <2>3, <2>4
<1> HIDE DEF f
<1> QED BY <1>6, <1>7

\* A member of two lists in one is of the first or of the second.
LEMMA ConcatenatedSplit ==
  ASSUME NEW S, NEW p \in Seq(S), NEW q \in Seq(S), NEW m \in DOMAIN (p \o q)
  PROVE  m \in Nat /\ (m \in DOMAIN p \/ \E j \in DOMAIN q : m = Len(p) + j)
<1>1. /\ Len(p) \in Nat /\ DOMAIN p = 1..Len(p) /\ Len(q) \in Nat /\ DOMAIN q = 1..Len(q)
      /\ DOMAIN (p \o q) = 1..(Len(p) + Len(q))
  OBVIOUS
<1>2. m \in Nat /\ m >= 1 /\ m <= Len(p) + Len(q)
  BY <1>1
<1>3. CASE m <= Len(p)
  BY <1>1, <1>2, <1>3
<1>4. CASE ~(m <= Len(p))
  <2>1. m - Len(p) \in 1..Len(q) /\ m = Len(p) + (m - Len(p))
    BY <1>1, <1>2, <1>4
  <2> QED BY <1>1, <1>2, <2>1
<1> QED BY <1>3, <1>4

\* Two lists in one: its type, where its members come from and where they go.
LEMMA ConcatenatedFrom ==
  ASSUME NEW S, NEW p \in Seq(S), NEW q \in Seq(S), NEW r, r = p \o q
  PROVE  /\ r \in Seq(S) /\ Len(p) \in Nat /\ DOMAIN p = 1..Len(p)
         /\ \A m \in DOMAIN p : m \in DOMAIN r /\ r[m] = p[m]
         /\ \A j \in DOMAIN q : Len(p) + j \in DOMAIN r /\ r[Len(p) + j] = q[j]
         /\ \A m \in DOMAIN r : m \in Nat /\ (m \in DOMAIN p \/ \E j \in DOMAIN q : m = Len(p) + j)
         /\ \A j \in DOMAIN q : j \in Nat
<1>1. /\ r \in Seq(S) /\ Len(p) \in Nat /\ DOMAIN p = 1..Len(p) /\ Len(q) \in Nat /\ DOMAIN q = 1..Len(q)
      /\ Len(r) = Len(p) + Len(q) /\ DOMAIN r = 1..Len(r)
  OBVIOUS
<1>2. ASSUME NEW m \in DOMAIN r PROVE m \in Nat /\ (m \in DOMAIN p \/ \E j \in DOMAIN q : m = Len(p) + j)
  <2>1. m \in DOMAIN (p \o q)
    OBVIOUS
  <2> QED BY <2>1, ConcatenatedSplit, ZenonT(40)
<1> QED BY <1>1, <1>2, ConcatenatedAt

\* Where a member of a flattened list comes from: what is before it there is before it here.
FlatBefore(list, lists, k, m, i, j) ==
    /\ i \in 1..k /\ j \in DOMAIN lists[i] /\ list[m] = lists[i][j]
    /\ \A h \in 1..i - 1 : \A l \in DOMAIN lists[h] : \E n \in DOMAIN list : n < m /\ list[n] = lists[h][l]
    /\ \A l \in DOMAIN lists[i] : l < j => \E n \in DOMAIN list : n < m /\ list[n] = lists[i][l]

\* FlattenSeq keeps every member of its lists, and their order: what is before a member in its
\* list, or in a list before, is before it in the result.
LEMMA FlattenOrdered ==
  ASSUME NEW S, NEW lists \in Seq(Seq(S))
  PROVE  /\ FlattenSeq(lists) \in Seq(S)
         /\ \A i \in DOMAIN lists : \A j \in DOMAIN lists[i] :
               \E m \in DOMAIN FlattenSeq(lists) : FlattenSeq(lists)[m] = lists[i][j]
         /\ \A m \in DOMAIN FlattenSeq(lists) : \E i, j : FlatBefore(FlattenSeq(lists), lists, Len(lists), m, i, j)
<1> DEFINE N == Len(lists)
<1>1. PICK f : f[0] = <<>> /\ (\A k \in 1..N : f[k] = f[k - 1] \o lists[k]) /\ FlattenSeq(lists) = f[N]
  BY FlattenFold
<1>2. N \in Nat /\ DOMAIN lists = 1..N
  OBVIOUS
<1> HIDE DEF N
<1> DEFINE Has(k) == /\ f[k] \in Seq(S)
                     /\ \A i \in 1..k : \A j \in DOMAIN lists[i] : \E m \in DOMAIN f[k] : f[k][m] = lists[i][j]
                     /\ \A m \in DOMAIN f[k] : \E i, j : FlatBefore(f[k], lists, k, m, i, j)
           U == {k \in Nat : k \in 0..N => Has(k)}
<1>8. 0 \in U
  <2>1. f[0] \in Seq(S) /\ DOMAIN f[0] = {}
    BY <1>1
  <2>2. \A i \in 1..0 : FALSE
    OBVIOUS
  <2> QED BY <2>1, <2>2
<1>9. ASSUME NEW n \in U PROVE n + 1 \in U
  <2> SUFFICES ASSUME n + 1 \in 0..N PROVE Has(n + 1)
    OBVIOUS
  <2>1. n \in Nat /\ n \in 0..N /\ n + 1 \in 1..N
    BY <1>2
  <2>2. Has(n)
    BY <2>1
  <2> DEFINE p == f[n]
             q == lists[n + 1]
             r == f[n + 1]
  <2>3. p \in Seq(S) /\ q \in Seq(S)
    BY <1>2, <2>1, <2>2
  <2>4. r = p \o q
    <3>1. PICK k \in 1..N : k = n + 1
      BY <2>1
    <3>2. k - 1 = n
      BY <2>1, <3>1
    <3> QED BY <1>1, <3>1, <3>2
  <2>5. /\ \A i \in 1..n : \A j \in DOMAIN lists[i] : \E m \in DOMAIN p : p[m] = lists[i][j]
        /\ \A m \in DOMAIN p : \E i, j : FlatBefore(p, lists, n, m, i, j)
    BY <2>2
  <2> HIDE DEF p, q, r
  <2>6. /\ r \in Seq(S) /\ Len(p) \in Nat /\ DOMAIN p = 1..Len(p)
        /\ \A m \in DOMAIN p : m \in DOMAIN r /\ r[m] = p[m]
        /\ \A j \in DOMAIN q : Len(p) + j \in DOMAIN r /\ r[Len(p) + j] = q[j]
        /\ \A m \in DOMAIN r : m \in Nat /\ (m \in DOMAIN p \/ \E j \in DOMAIN q : m = Len(p) + j)
        /\ \A j \in DOMAIN q : j \in Nat
    <3>1. r \in Seq(S) /\ Len(p) \in Nat /\ DOMAIN p = 1..Len(p)
      BY <2>3, <2>4, ConcatenatedFrom
    <3>2. /\ \A m \in DOMAIN p : m \in DOMAIN r /\ r[m] = p[m]
          /\ \A j \in DOMAIN q : Len(p) + j \in DOMAIN r /\ r[Len(p) + j] = q[j]
      BY <2>3, <2>4, ConcatenatedAt
    <3>3. ASSUME NEW m \in DOMAIN r PROVE m \in Nat /\ (m \in DOMAIN p \/ \E j \in DOMAIN q : m = Len(p) + j)
      <4>1. m \in DOMAIN (p \o q)
        BY <2>4
      <4> QED BY <2>3, <4>1, ConcatenatedSplit
    <3>4. \A j \in DOMAIN q : j \in Nat
      BY <2>3
    <3> QED BY <3>1, <3>2, <3>3, <3>4
  <2>7. ASSUME NEW i \in 1..n + 1, NEW j \in DOMAIN lists[i] PROVE \E m \in DOMAIN r : r[m] = lists[i][j]
    <3>1. CASE i \in 1..n
      <4>1. PICK m \in DOMAIN p : p[m] = lists[i][j]
        BY <2>5, <3>1
      <4> QED BY <2>6, <4>1
    <3>2. CASE i = n + 1
      <4>1. q = lists[i]
        BY <3>2 DEF q
      <4> QED BY <2>6, <4>1
    <3> QED BY <2>1, <3>1, <3>2
  <2>8. ASSUME NEW m \in DOMAIN p PROVE \E i, j : FlatBefore(r, lists, n + 1, m, i, j)
    <3>1. PICK i, j : FlatBefore(p, lists, n, m, i, j)
      BY <2>5
    <3>2. i \in 1..n + 1
      BY <2>1, <3>1 DEF FlatBefore
    <3>3. FlatBefore(r, lists, n + 1, m, i, j)
      BY <2>6, <3>1, <3>2 DEF FlatBefore
    <3> QED BY <3>3
  <2>9. ASSUME NEW j \in DOMAIN q PROVE FlatBefore(r, lists, n + 1, Len(p) + j, n + 1, j)
    <3>1. n + 1 \in 1..n + 1 /\ q = lists[n + 1]
      BY <2>1 DEF q
    <3>2. ASSUME NEW h \in 1..(n + 1) - 1, NEW l \in DOMAIN lists[h]
          PROVE  \E x \in DOMAIN r : x < Len(p) + j /\ r[x] = lists[h][l]
      <4>1. h \in 1..n
        BY <2>1
      <4>2. PICK x \in DOMAIN p : p[x] = lists[h][l]
        BY <2>5, <4>1
      <4>3. x < Len(p) + j
        <5>1. x \in 1..Len(p) /\ j \in DOMAIN q /\ j \in Nat
          BY <2>6, <4>2
        <5>2. j > 0
          BY <2>3, <5>1
        <5> QED BY <2>6, <5>1, <5>2
      <4> QED BY <2>6, <4>2, <4>3
    <3>3. ASSUME NEW l \in DOMAIN q, l < j PROVE \E x \in DOMAIN r : x < Len(p) + j /\ r[x] = q[l]
      <4>1. Len(p) + l < Len(p) + j
        BY <2>6, <3>3
      <4> QED BY <2>6, <4>1
    <3>4. r[Len(p) + j] = q[j]
      BY <2>6
    <3> QED BY <3>1, <3>2, <3>3, <3>4 DEF FlatBefore
  <2>10. \A m \in DOMAIN r : \E i, j : FlatBefore(r, lists, n + 1, m, i, j)
    BY <2>6, <2>8, <2>9
  <2> QED BY <2>6, <2>7, <2>10 DEF r
<1>10. U = Nat
  <2> HIDE DEF U, Has
  <2>1. U \in SUBSET Nat
    BY DEF U
  <2>2. \A n \in U : n + 1 \in U
    BY <1>9
  <2> QED BY <1>8, <2>1, <2>2, Induction
<1>11. Has(N)
  <2> HIDE DEF Has
  <2>1. N \in U
    <3> HIDE DEF U
    <3> QED BY <1>2, <1>10
  <2> QED BY <1>2, <2>1
<1> QED BY <1>1, <1>2, <1>11 DEF N

\* Among builds its result one member at a time.
LEMMA AmongFold ==
  ASSUME NEW T, NEW list \in Seq(T), NEW S
  PROVE  \E f : /\ f[0] = <<>>
                /\ \A k \in 1..Len(list) : f[k] = IF list[k] \in S THEN Append(f[k - 1], list[k]) ELSE f[k - 1]
                /\ Among(list, S) = f[Len(list)]
<1> DEFINE Is(f, n) == f = [k \in 0..n |-> IF k = 0 THEN <<>>
                                           ELSE IF list[k] \in S THEN Append(f[k - 1], list[k]) ELSE f[k - 1]]
           N == {n \in Nat : \E f : Is(f, n)}
           f == CHOOSE g : Is(g, Len(list))
<1>1. 0 \in N
  <2>1. \A k \in 0..0 : k = 0
    OBVIOUS
  <2>2. Is([k \in 0..0 |-> <<>>], 0)
    BY <2>1
  <2> QED BY <2>2
<1>2. ASSUME NEW n \in N PROVE n + 1 \in N
  <2>1. PICK g : Is(g, n)
    OBVIOUS
  <2> DEFINE h == [k \in 0..n + 1 |-> IF k = 0 THEN <<>>
                                      ELSE IF list[k] \in S THEN Append(g[k - 1], list[k]) ELSE g[k - 1]]
  <2>2. ASSUME NEW k \in 0..n PROVE h[k] = g[k]
    <3>1. g[k] = IF k = 0 THEN <<>> ELSE IF list[k] \in S THEN Append(g[k - 1], list[k]) ELSE g[k - 1]
      BY <2>1
    <3>2. k \in 0..n + 1
      OBVIOUS
    <3> QED BY <3>1, <3>2
  <2>3. Is(h, n + 1)
    <3>1. \A k \in 0..n + 1 : k # 0 => k - 1 \in 0..n
      OBVIOUS
    <3>2. \A k \in 0..n + 1 : h[k] = IF k = 0 THEN <<>>
                                     ELSE IF list[k] \in S THEN Append(h[k - 1], list[k]) ELSE h[k - 1]
      BY <2>2, <3>1
    <3> QED BY <3>2
  <2> HIDE DEF h, Is
  <2> QED BY <2>3
<1>3. N = Nat
  <2> HIDE DEF N
  <2>1. N \in SUBSET Nat
    BY DEF N
  <2> QED BY <1>1, <1>2, <2>1, Induction
<1>4. Len(list) \in Nat /\ DOMAIN list = 1..Len(list)
  OBVIOUS
<1>5. Is(f, Len(list))
  <2>1. \E g : Is(g, Len(list))
    BY <1>3, <1>4
  <2> HIDE DEF Is
  <2> QED BY <2>1
<1>6. Among(list, S) = f[Len(list)]
  BY DEF Among
<1>7. /\ f[0] = <<>>
      /\ \A k \in 1..Len(list) : f[k] = IF list[k] \in S THEN Append(f[k - 1], list[k]) ELSE f[k - 1]
  <2> HIDE DEF f
  <2>1. PICK n \in Nat : n = Len(list)
    BY <1>4
  <2>2. \A k \in 0..n : f[k] = IF k = 0 THEN <<>>
                               ELSE IF list[k] \in S THEN Append(f[k - 1], list[k]) ELSE f[k - 1]
    BY <1>5, <2>1
  <2>3. f[0] = <<>>
    BY <2>2
  <2>4. ASSUME NEW k \in 1..n PROVE f[k] = IF list[k] \in S THEN Append(f[k - 1], list[k]) ELSE f[k - 1]
    <3>1. k \in 0..n /\ k # 0
      OBVIOUS
    <3> QED BY <2>2, <3>1
  <2> QED BY <2>1, <2>3, <2>4
<1> HIDE DEF f
<1> QED BY <1>6, <1>7

\* A list with one member more.
LEMMA Appended ==
  ASSUME NEW T, NEW p \in Seq(T), NEW x \in T, NEW r, r = Append(p, x)
  PROVE  /\ r \in Seq(T) /\ Len(p) \in Nat /\ DOMAIN p = 1..Len(p)
         /\ \A m \in DOMAIN p : m \in DOMAIN r /\ r[m] = p[m] /\ m < Len(p) + 1
         /\ Len(p) + 1 \in DOMAIN r /\ r[Len(p) + 1] = x
         /\ \A m \in DOMAIN r : m \in DOMAIN p \/ m = Len(p) + 1
OBVIOUS

\* Where a member of a selection comes from.
AmongBefore(picked, list, S, m, j) ==
    /\ picked[m] = list[j] /\ list[j] \in S
    /\ \A l \in DOMAIN list : l < j /\ list[l] \in S => \E n \in DOMAIN picked : n < m /\ picked[n] = list[l]

\* Among keeps members of its list only, and their order.
LEMMA AmongOrdered ==
  ASSUME NEW T, NEW list \in Seq(T), NEW S
  PROVE  /\ Among(list, S) \in Seq(T)
         /\ \A m \in DOMAIN Among(list, S) : \E j \in DOMAIN list : AmongBefore(Among(list, S), list, S, m, j)
<1> DEFINE N == Len(list)
<1>1. PICK f : /\ f[0] = <<>>
               /\ \A k \in 1..N : f[k] = IF list[k] \in S THEN Append(f[k - 1], list[k]) ELSE f[k - 1]
               /\ Among(list, S) = f[N]
  BY AmongFold
<1>2. N \in Nat /\ DOMAIN list = 1..N
  OBVIOUS
<1> HIDE DEF N
<1> DEFINE Has(k) == /\ f[k] \in Seq(T)
                     /\ \A j \in 1..k : list[j] \in S => \E m \in DOMAIN f[k] : f[k][m] = list[j]
                     /\ \A m \in DOMAIN f[k] : \E j \in 1..k : AmongBefore(f[k], list, S, m, j)
           U == {k \in Nat : k \in 0..N => Has(k)}
<1>3. 0 \in U
  <2>1. f[0] \in Seq(T) /\ DOMAIN f[0] = {}
    BY <1>1
  <2>2. \A i \in 1..0 : FALSE
    OBVIOUS
  <2> QED BY <2>1, <2>2
<1>4. ASSUME NEW n \in U PROVE n + 1 \in U
  <2> SUFFICES ASSUME n + 1 \in 0..N PROVE Has(n + 1)
    OBVIOUS
  <2>1. n \in Nat /\ n \in 0..N /\ n + 1 \in 1..N
    BY <1>2
  <2>2. Has(n)
    BY <2>1
  <2> DEFINE p == f[n]
             x == list[n + 1]
             r == f[n + 1]
  <2>3. p \in Seq(T) /\ x \in T
    BY <1>2, <2>1, <2>2
  <2>4. r = IF x \in S THEN Append(p, x) ELSE p
    <3>1. PICK k \in 1..N : k = n + 1
      BY <2>1
    <3>2. k - 1 = n
      BY <2>1, <3>1
    <3> QED BY <1>1, <3>1, <3>2
  <2>5. /\ \A j \in 1..n : list[j] \in S => \E m \in DOMAIN p : p[m] = list[j]
        /\ \A m \in DOMAIN p : \E j \in 1..n : AmongBefore(p, list, S, m, j)
    BY <2>2
  <2>6. \A j \in 1..n + 1 : j \in 1..n \/ j = n + 1
    BY <2>1
  <2>7. \A j \in 1..n : j \in 1..n + 1 /\ j < n + 1
    BY <2>1
  <2> HIDE DEF p, r
  <2>8. CASE x \notin S
    <3>1. r = p
      BY <2>4, <2>8
    <3>2. \A j \in 1..n + 1 : list[j] \in S => \E m \in DOMAIN r : r[m] = list[j]
      BY <2>5, <2>6, <2>8, <3>1
    <3>3. \A m \in DOMAIN r : \E j \in 1..n + 1 : AmongBefore(r, list, S, m, j)
      BY <2>5, <2>7, <3>1
    <3> QED BY <2>3, <3>1, <3>2, <3>3 DEF r
  <2>9. CASE x \in S
    <3>1. r = Append(p, x)
      BY <2>4, <2>9
    <3> HIDE DEF x
    <3>2. /\ r \in Seq(T) /\ Len(p) \in Nat /\ DOMAIN p = 1..Len(p)
          /\ \A m \in DOMAIN p : m \in DOMAIN r /\ r[m] = p[m] /\ m < Len(p) + 1
          /\ Len(p) + 1 \in DOMAIN r /\ r[Len(p) + 1] = x
          /\ \A m \in DOMAIN r : m \in DOMAIN p \/ m = Len(p) + 1
      BY <2>3, <3>1, Appended
    <3>3. ASSUME NEW j \in 1..n + 1, list[j] \in S PROVE \E m \in DOMAIN r : r[m] = list[j]
      <4>1. CASE j \in 1..n
        BY <2>5, <3>2, <3>3, <4>1
      <4>2. CASE j = n + 1
        BY <3>2, <4>2 DEF x
      <4> QED BY <2>6, <4>1, <4>2
    <3>4. ASSUME NEW m \in DOMAIN p PROVE \E j \in 1..n + 1 : AmongBefore(r, list, S, m, j)
      <4>1. PICK j \in 1..n : AmongBefore(p, list, S, m, j)
        BY <2>5
      <4>2. AmongBefore(r, list, S, m, j)
        BY <3>2, <4>1 DEF AmongBefore
      <4> QED BY <2>7, <4>2
    <3>5. AmongBefore(r, list, S, Len(p) + 1, n + 1)
      <4>1. ASSUME NEW l \in DOMAIN list, l < n + 1, list[l] \in S
            PROVE  \E k \in DOMAIN r : k < Len(p) + 1 /\ r[k] = list[l]
        <5>1. l \in 1..n
          BY <1>2, <2>1, <4>1
        <5>2. PICK k \in DOMAIN p : p[k] = list[l]
          BY <2>5, <4>1, <5>1
        <5> QED BY <3>2, <5>2
      <4>2. r[Len(p) + 1] = list[n + 1] /\ list[n + 1] \in S
        BY <2>9, <3>2 DEF x
      <4> QED BY <4>1, <4>2 DEF AmongBefore
    <3>6. n + 1 \in 1..n + 1
      BY <2>1
    <3>7. \A m \in DOMAIN r : \E j \in 1..n + 1 : AmongBefore(r, list, S, m, j)
      BY <3>2, <3>4, <3>5, <3>6
    <3> QED BY <3>2, <3>3, <3>7 DEF r
  <2> QED BY <2>8, <2>9
<1>5. U = Nat
  <2> HIDE DEF U
  <2>1. U \in SUBSET Nat
    BY DEF U
  <2> QED BY <1>3, <1>4, <2>1, Induction
<1>6. Has(N)
  <2> HIDE DEF Has
  <2>1. N \in U
    <3> HIDE DEF U
    <3> QED BY <1>2, <1>5
  <2> QED BY <1>2, <2>1
<1> QED BY <1>1, <1>2, <1>6

--------------------------------------------------------------------------------
(* The invariant of the Tushare runner. *)

\* What a request of the task may ask for, and what a process may have at hand.
TUCall(V) == [of : {"task"}, variant : V, codes : SUBSET Codes, days : SUBSET (1..LastDay)]
TURun(V) ==
    [pc : {"task", "fetch", "save", "more", "resolve"}, tasks : Seq({"task", "source"}),
     opts : [resume : BOOLEAN, force : BOOLEAN, goOn : BOOLEAN],
     end : 1..LastDay, day : 1..LastDay, asked : 1..LastDay, codes : SUBSET Codes,
     calls : Seq(TUCall(V)) \union {<<[of |-> "source"]>>},
     rows : SUBSET (V \X Codes \X (1..LastDay)),
     resolving : BOOLEAN, failed : BOOLEAN, used : Int, tries : Int, partial : BOOLEAN]

\* Types. What is cached has been saved.
TUTyped ==
    /\ today \in 1..LastDay
    /\ IsFiniteSet(spec.variants)
    /\ table \in [spec.variants \X Codes \X (1..LastDay) -> {"none", "early", "final"}]
    /\ local \in SUBSET Codes
    /\ cache \in SUBSET local
    /\ run \in TURun(spec.variants) \union {Tushare!Idle}

\* The task itself is at work, not the source it needs.
TUWorking(r) == r.pc \in {"fetch", "save", "more"} /\ Head(r.tasks) = "task" /\ ~r.resolving

\* A response is being saved.
TUSaving(r) == r.pc \in {"save", "more"}

\* What each phase of a run has: a task, the window it asked for, and the requests it has left.
\* The process learns of the universe only for a task that needs codes.
TUPhase ==
    run.pc # "idle" =>
        /\ run.tasks # <<>>
        /\ run.end <= run.day /\ run.day <= today
        /\ TUSaving(run) => TUWorking(run) /\ run.calls # <<>> /\ run.day <= run.asked /\ run.asked <= today
        /\ TUWorking(run) => run.calls \in Seq(TUCall(spec.variants))
        /\ run.pc = "fetch" /\ ~TUWorking(run) => run.calls = <<>> \/ run.calls = Tushare!SourceCalls
        /\ run.resolving => /\ spec.mode \in {"code_range", "snapshot"}
                            /\ Head(run.tasks) = "task" /\ run.pc \in {"fetch", "resolve"}
                            /\ run.pc = "fetch" => run.calls = Tushare!SourceCalls
        /\ run.pc = "resolve" => run.resolving
        /\ run.failed => stops # {}

\* The codes among which the newest day is looked for.
TUScope(mode, known, c) == IF mode \in {"code_range", "snapshot"} /\ known # {} THEN {c} ELSE Codes
TUCursor(T, V, S) == LatestIn({d \in 1..LastDay : \E x \in V, c \in S : T[<<x, c, d>>] # "none"})
TUBehind(T, V, mode, known, c) == TUCursor(T, V, TUScope(mode, known, c))

\* The codes a task is about: none means all.
TUTarget(r) == IF r.codes = {} THEN Codes ELSE r.codes

\* Every row of a window is asked for; a snapshot asks for one day of each code.
TUPlain == spec.mode # "snapshot"

\* One cursor of one kind of row, and no response cut in the middle.
TUOne == /\ "mid response" \notin stops
         /\ spec.mode = "date_slice" \/ Cardinality(spec.variants) = 1

\* The calls of a plan are for the codes of a task; those of a plain table are for days of the
\* window, and for all codes whose cursor moves with theirs.
TUFits(list, target) ==
    \A i \in DOMAIN list :
       /\ list[i].codes \subseteq target
       /\ TUPlain => /\ list[i].days \subseteq 1..run.end
                     /\ \A c \in list[i].codes : list[i].codes = TUScope(spec.mode, local, c)

\* The requests left to a task fit it.
TUShaped == TUWorking(run) => TUFits(run.calls, TUTarget(run))

\* No row is of a day to come, and what counts as final was saved after its day.
TUDated ==
    \A x \in spec.variants, c \in Codes, d \in 1..LastDay :
        /\ table[<<x, c, d>>] # "none" => d <= today /\ (TUSaving(run) => d <= run.asked)
        /\ table[<<x, c, d>>] = "final" => d < today /\ (TUSaving(run) => d < run.asked)

\* A response has every row of the past days it was asked for, or they were saved before: what a
\* response cut in the middle leaves out was in the part already saved.
TUAnswer ==
    TUSaving(run) =>
        /\ \A y \in run.rows : /\ y[1] = Head(run.calls).variant /\ y[2] \in Head(run.calls).codes
                               /\ y[3] \in Head(run.calls).days /\ y[3] <= run.asked
        /\ \A c \in Head(run.calls).codes, d \in Head(run.calls).days :
              d < run.asked => \/ <<Head(run.calls).variant, c, d>> \in run.rows
                               \/ table[<<Head(run.calls).variant, c, d>>] = "final"

\* A request covers a row.
TUCovers(q, x, c, d) == q.variant = x /\ c \in q.codes /\ d \in q.days
TUAsked(list, x, c, d) == \E i \in DOMAIN list : TUCovers(list[i], x, c, d)
TUPending(r, x, c, d) == TUWorking(r) /\ TUAsked(r.calls, x, c, d)

\* What a request asks for follows what is saved, or was asked for before.
TUChained(list, T, V) ==
    \A j \in DOMAIN list, x \in V, d \in 1..LastDay :
        \A c \in list[j].codes, e \in list[j].days :
            d < e => \/ T[<<x, c, d>>] = "final"
                     \/ \E i \in DOMAIN list : i <= j /\ TUCovers(list[i], x, c, d)

\* With one cursor, the requests left never leave a gap behind what they bring.
TUChain == TUOne /\ TUPlain /\ TUWorking(run) => TUChained(run.calls, table, spec.variants)

\* With one cursor, nothing is missing behind it, but for the rest of the response being saved.
TUNoGap ==
    TUOne /\ TUPlain =>
        \A x \in spec.variants, c \in Codes, d \in 1..LastDay :
            d < TUBehind(table, spec.variants, spec.mode, local, c) =>
                \/ table[<<x, c, d>>] = "final"
                \/ run.pc = "more" /\ <<x, c, d>> \in run.rows

\* As long as nothing has stopped a task, what is missing behind a cursor is still to be asked for,
\* whichever cursors share it.
TUPromise ==
    stops = {} /\ TUPlain =>
        \A x \in spec.variants, c \in Codes, d \in 1..LastDay :
            d < TUBehind(table, spec.variants, spec.mode, local, c) =>
                table[<<x, c, d>>] = "final" \/ TUPending(run, x, c, d)

\* What is missing of the window of a task that has not failed is still to be asked for.
TUTask ==
    (TUOne \/ stops = {}) /\ TUWorking(run) /\ ~run.failed =>
        \A x \in spec.variants, c \in TUTarget(run), d \in 1..LastDay :
            d <= run.end /\ d < run.day /\ (run.opts.resume => d < run.end) =>
                table[<<x, c, d>>] = "final" \/ TUPending(run, x, c, d)

\* What the Tushare runner keeps to.
TUInvariant ==
    /\ TUTyped
    /\ TUPhase
    /\ TUShaped
    /\ TUDated
    /\ TUAnswer
    /\ TUChain
    /\ TUNoGap
    /\ TUPromise
    /\ TUTask

--------------------------------------------------------------------------------
(* Plans. *)

\* The lists of the Tushare runner are those of Lists.
LEMMA TULists ==
  /\ \A S : Tushare!SetToSeq(S) = SetToSeq(S)
  /\ \A l : Tushare!FlattenSeq(l) = FlattenSeq(l)
  /\ \A l, S : Tushare!Among(l, S) = Among(l, S)
<1>1. \A S : Tushare!SetToSeq(S) = SetToSeq(S)
  BY DEF Tushare!SetToSeq, SetToSeq, Tushare!Cardinality, Cardinality
<1>2. \A l : Tushare!FlattenSeq(l) = FlattenSeq(l)
  BY DEF Tushare!FlattenSeq, FlattenSeq
<1>3. \A l, S : Tushare!Among(l, S) = Among(l, S)
  BY DEF Tushare!Among, Among
<1> QED BY <1>1, <1>2, <1>3

\* A finite set in some order.
LEMMA TUOrder ==
  ASSUME NEW S, IsFiniteSet(S)
  PROVE  /\ Tushare!SetToSeq(S) \in Seq(S) /\ Cardinality(S) \in Nat
         /\ DOMAIN Tushare!SetToSeq(S) = 1..Cardinality(S) /\ Len(Tushare!SetToSeq(S)) = Cardinality(S)
         /\ \A x \in S : \E i \in DOMAIN Tushare!SetToSeq(S) : Tushare!SetToSeq(S)[i] = x
<1>1. /\ Cardinality(S) \in Nat /\ Tushare!SetToSeq(S) \in [1..Cardinality(S) -> S]
      /\ \A x \in S : \E i \in 1..Cardinality(S) : Tushare!SetToSeq(S)[i] = x
  BY SetToSeqLists, TULists
<1> HIDE DEF Tushare!SetToSeq
<1>2. Tushare!SetToSeq(S) \in Seq(S)
  BY <1>1
<1> QED BY <1>1, <1>2

\* The block of a number.
LEMMA BlockOf == ASSUME NEW n \in Nat, NEW w \in Nat \ {0}
  PROVE n \div w \in Nat /\ w * (n \div w) <= n /\ n < w * (n \div w) + w
OBVIOUS

\* Blocks are in the order of their numbers.
LEMMA BlockOrder ==
  ASSUME NEW k \in Nat, NEW x \in Nat, NEW w \in Nat \ {0}, NEW j \in Nat, w * j <= x, x < w * k + w
  PROVE j <= k
<1> SUFFICES ASSUME k + 1 <= j PROVE FALSE
  OBVIOUS
<1>1. PICK m \in Nat : j = k + 1 + m
  <2>1. j - (k + 1) \in Nat
    OBVIOUS
  <2> QED BY <2>1
<1>2. w * j = w * k + w + w * m
  BY <1>1
<1>3. w * m >= 0 /\ w * m \in Int /\ w * k \in Int
  OBVIOUS
<1> QED BY <1>2, <1>3

\* Windows cover every day from the first to the last, and a later window has no earlier day
\* (iter_date_windows).
LEMMA TUWindows ==
  ASSUME NEW first \in 1..LastDay, NEW last \in 1..LastDay, first <= last
  PROVE  /\ Tushare!DateWindows(first, last) \in Seq(SUBSET (1..last))
         /\ \A d \in first..last :
               \E k \in DOMAIN Tushare!DateWindows(first, last) :
                  /\ d \in Tushare!DateWindows(first, last)[k]
                  /\ \A j \in DOMAIN Tushare!DateWindows(first, last) :
                        \A e \in Tushare!DateWindows(first, last)[j] : d <= e => k <= j
<1> DEFINE W == Tushare!DateWindows(first, last)
<1>1. LastDay \in Nat /\ WindowDays \in Nat /\ first \in Nat /\ last \in Nat /\ first >= 1
  BY ProviderAssumption
<1>2. CASE WindowDays = 0
  <2>1. W = <<first..last>>
    BY <1>2 DEF Tushare!DateWindows
  <2> HIDE DEF W
  <2>2. W \in Seq(SUBSET (1..last)) /\ DOMAIN W = {1} /\ W[1] = first..last
    BY <1>1, <2>1
  <2> QED BY <2>2 DEF W
<1>3. CASE WindowDays # 0
  <2> DEFINE w == WindowDays
             n == (last - first) \div w
             Block(k) == (first + (k - 1) * w)..Tushare!Least(last, first + k * w - 1)
  <2>1. w \in Nat \ {0}
    BY <1>1, <1>3
  <2>2. W = [k \in 1..n + 1 |-> Block(k)]
    BY <1>3 DEF Tushare!DateWindows
  <2> HIDE DEF W
  <2>3. last - first \in Nat
    BY <1>1
  <2> HIDE DEF w
  <2>4. n \in Nat /\ w * n <= last - first /\ last - first < w * n + w
    BY <2>1, <2>3, BlockOf
  <2> HIDE DEF n
  <2>5. \A k \in 1..n + 1 : k \in Nat /\ k - 1 \in Nat /\ (k - 1) * w \in Nat /\ k * w \in Nat /\ k * w = w * (k - 1) + w
    BY <2>1, <2>4
  <2>6. \A k \in 1..n + 1 : Block(k) \subseteq 1..last
    <3> SUFFICES ASSUME NEW k \in 1..n + 1, NEW e \in Block(k) PROVE e \in 1..last
      OBVIOUS
    <3>1. PICK x \in Nat : x = (k - 1) * w
      BY <2>5
    <3>2. PICK y \in Nat : y = k * w
      BY <2>5
    <3>3. e \in (first + x)..Tushare!Least(last, first + y - 1)
      BY <3>1, <3>2
    <3> QED BY <1>1, <3>3 DEF Tushare!Least
  <2>7. W \in Seq(SUBSET (1..last)) /\ DOMAIN W = 1..n + 1 /\ \A k \in 1..n + 1 : W[k] = Block(k)
    <3> HIDE DEF Block
    <3>1. W \in [1..n + 1 -> SUBSET (1..last)] /\ n + 1 \in Nat
      BY <2>2, <2>4, <2>6
    <3>2. W \in Seq(SUBSET (1..last))
      BY <3>1
    <3> QED BY <2>2, <3>1, <3>2
  <2>8. ASSUME NEW d \in first..last
        PROVE  \E k \in 1..n + 1 : d \in Block(k) /\ \A j \in 1..n + 1 : \A e \in Block(j) : d <= e => k <= j
    <3> DEFINE h == (d - first) \div w
    <3>1. d - first \in Nat /\ d - first <= last - first /\ d \in Nat
      BY <1>1
    <3>2. h \in Nat /\ w * h <= d - first /\ d - first < w * h + w
      BY <2>1, <3>1, BlockOf
    <3> HIDE DEF h
    <3>3. h <= n
      <4>1. d - first < w * n + w
        <5>1. PICK y \in Nat : y = w * n + w
          BY <2>1, <2>4
        <5> QED BY <2>3, <2>4, <3>1, <5>1
      <4> QED BY <2>1, <2>4, <3>1, <3>2, <4>1, BlockOrder
    <3>4. h + 1 \in 1..n + 1
      BY <2>4, <3>2, <3>3
    <3>5. d \in Block(h + 1)
      <4>1. PICK x \in Nat : x = w * h
        BY <2>1, <3>2
      <4>2. ((h + 1) - 1) * w = x /\ (h + 1) * w = x + w
        BY <2>1, <3>2, <4>1
      <4>3. d \in (first + x)..Tushare!Least(last, first + (x + w) - 1)
        <5>1. x <= d - first /\ d - first < x + w
          BY <3>2, <4>1
        <5> QED BY <1>1, <2>1, <3>1, <4>1, <5>1 DEF Tushare!Least
      <4> QED BY <4>2, <4>3
    <3>6. ASSUME NEW j \in 1..n + 1, NEW e \in Block(j), d <= e PROVE h + 1 <= j
      <4>1. PICK x \in Nat : x = (j - 1) * w
        BY <2>5
      <4>2. PICK y \in Nat : y = j * w
        BY <2>5
      <4>3. e \in (first + x)..Tushare!Least(last, first + y - 1)
        BY <3>6, <4>1, <4>2
      <4>4. d - first < y
        BY <1>1, <3>1, <3>6, <4>2, <4>3 DEF Tushare!Least
      <4>5. d - first < w * (j - 1) + w /\ j - 1 \in Nat
        BY <2>5, <4>2, <4>4
      <4>6. h <= j - 1
        BY <2>1, <3>1, <3>2, <4>5, BlockOrder
      <4> QED BY <3>2, <4>5, <4>6
    <3> QED BY <3>4, <3>5, <3>6
  <2>9. \A d \in first..last : \E k \in DOMAIN W : d \in W[k] /\ \A j \in DOMAIN W : \A e \in W[j] : d <= e => k <= j
    <3> HIDE DEF Block
    <3> QED BY <2>7, <2>8
  <2> QED BY <2>7, <2>9 DEF W
<1> QED BY <1>2, <1>3

\* What LatestCursor computes depends on the rows only.
LEMMA TUCursorIs == \A S : Tushare!LatestCursor(S) = TUCursor(table, spec.variants, S)
BY DEF Tushare!LatestCursor, Tushare!Latest, Tushare!Days, TUCursor, LatestIn

\* The cursor is the newest day of which there is a row, and no row is newer.
LEMMA TUCursorDay ==
  ASSUME NEW T, NEW V, NEW S
  PROVE  /\ TUCursor(T, V, S) \in 0..LastDay
         /\ TUCursor(T, V, S) # 0 => \E x \in V, c \in S : T[<<x, c, TUCursor(T, V, S)>>] # "none"
         /\ \A x \in V, c \in S, d \in 1..LastDay : T[<<x, c, d>>] # "none" => d <= TUCursor(T, V, S)
<1> DEFINE days == {d \in 1..LastDay : \E x \in V, c \in S : T[<<x, c, d>>] # "none"}
<1>1. days \in SUBSET (1..LastDay) /\ LastDay \in Nat /\ TUCursor(T, V, S) = LatestIn(days)
  BY ProviderAssumption DEF TUCursor
<1>2. \A d \in 1..LastDay : d \in days <=> \E x \in V, c \in S : T[<<x, c, d>>] # "none"
  OBVIOUS
<1> HIDE DEF days
<1>3. /\ LatestIn(days) \in 0..LastDay /\ (days # {} => LatestIn(days) \in days)
      /\ \A e \in days : e <= LatestIn(days)
  BY <1>1, LatestValue
<1>4. days = {} => LatestIn(days) = 0
  BY DEF LatestIn
<1> QED BY <1>1, <1>2, <1>3, <1>4

\* The types of what a process at work has at hand.
LEMMA TURunning ==
  ASSUME TUTyped, run.pc # "idle"
  PROVE  /\ run \in TURun(spec.variants)
         /\ LastDay \in Nat /\ today \in 1..LastDay
         /\ run.end \in 1..LastDay /\ run.day \in 1..LastDay /\ run.asked \in 1..LastDay
         /\ run.codes \in SUBSET Codes /\ run.rows \in SUBSET (spec.variants \X Codes \X (1..LastDay))
<1>1. run # Tushare!Idle
  BY DEF Tushare!Idle
<1>2. run \in TURun(spec.variants)
  BY <1>1 DEF TUTyped
<1> QED BY <1>2, ProviderAssumption DEF TURun, TUTyped

\* Nothing is missing behind the cursor of some codes.
TUSaved(S) ==
    \A x \in spec.variants, c \in S, d \in 1..LastDay :
        d < TUCursor(table, spec.variants, S) => table[<<x, c, d>>] = "final"

\* A plan asks for all of a window that is not saved.
TUPlanned(list, S) ==
    \A x \in spec.variants, c \in S, d \in 1..LastDay :
        d <= run.end /\ (run.opts.resume => d < run.end) =>
            table[<<x, c, d>>] = "final" \/ TUAsked(list, x, c, d)

\* A plan that starts with a day asks for all that is not saved.
TUResumes(reached, S) ==
    /\ ~Tushare!AtEnd(reached) => /\ Tushare!Begin(reached) \in 1..LastDay /\ Tushare!Begin(reached) <= run.end
                                  /\ TUSaved(S) => \A x \in spec.variants, c \in S, d \in 1..LastDay :
                                        d < Tushare!Begin(reached) => table[<<x, c, d>>] = "final"
    /\ Tushare!AtEnd(reached) /\ TUSaved(S) =>
          \A x \in spec.variants, c \in S, d \in 1..LastDay :
             d <= run.end /\ (run.opts.resume => d < run.end) => table[<<x, c, d>>] = "final"

\* A plan that starts at the cursor leaves out saved rows only, if nothing is missing behind
\* the cursor; so does a plan that is empty because the cursor is at the end.
LEMMA TUBegin ==
  ASSUME TUTyped, run.pc # "idle", NEW S
  PROVE  TUResumes(TUCursor(table, spec.variants, S), S)
<1>1. PICK reached : reached = TUCursor(table, spec.variants, S)
  OBVIOUS
<1>2. reached \in 0..LastDay /\ LastDay \in Nat /\ run.end \in 1..LastDay
  BY <1>1, TUCursorDay, TURunning
<1>3. ASSUME ~Tushare!AtEnd(reached)
      PROVE  /\ Tushare!Begin(reached) \in 1..LastDay /\ Tushare!Begin(reached) <= run.end
             /\ Tushare!Begin(reached) = 1 \/ Tushare!Begin(reached) = reached
  <2>1. run.opts.force \/ reached <= run.end
    BY <1>2, <1>3 DEF Tushare!AtEnd
  <2> QED BY <1>2, <2>1 DEF Tushare!Begin
<1>4. ASSUME ~Tushare!AtEnd(reached), TUSaved(S), NEW x \in spec.variants, NEW c \in S, NEW d \in 1..LastDay,
             d < Tushare!Begin(reached)
      PROVE  table[<<x, c, d>>] = "final"
  <2>1. d < reached
    BY <1>2, <1>3, <1>4
  <2> QED BY <1>1, <1>4, <2>1 DEF TUSaved
<1>5. ASSUME Tushare!AtEnd(reached), TUSaved(S), NEW x \in spec.variants, NEW c \in S, NEW d \in 1..LastDay,
             d <= run.end, run.opts.resume => d < run.end
      PROVE  table[<<x, c, d>>] = "final"
  <2>1. d < reached
    BY <1>2, <1>5 DEF Tushare!AtEnd
  <2> QED BY <1>1, <1>5, <2>1 DEF TUSaved
<1> QED BY <1>1, <1>3, <1>4, <1>5 DEF TUResumes

\* A plan of date windows asks for every row of the window that is not saved; with one variant
\* it does so in an order in which nothing newer comes first.
LEMMA TURange ==
  ASSUME TUTyped, run.pc # "idle", NEW S \in SUBSET Codes, NEW list, list = Tushare!RangeCalls(S)
  PROVE  /\ list \in Seq(TUCall(spec.variants))
         /\ \A i \in DOMAIN list : list[i].codes = S /\ list[i].days \subseteq 1..run.end
         /\ TUSaved(S) => TUPlanned(list, S)
         /\ TUSaved(S) /\ Cardinality(spec.variants) = 1 => TUChained(list, table, spec.variants)
<1> DEFINE V == spec.variants
<1>1. LastDay \in Nat /\ run.end \in 1..LastDay
  BY TURunning
<1>2. PICK reached : reached = TUCursor(table, V, S) /\ reached = Tushare!LatestCursor(S)
  BY TUCursorIs
<1>3. /\ ~Tushare!AtEnd(reached) => /\ Tushare!Begin(reached) \in 1..LastDay /\ Tushare!Begin(reached) <= run.end
                                    /\ TUSaved(S) => \A x \in V, c \in S, d \in 1..LastDay :
                                          d < Tushare!Begin(reached) => table[<<x, c, d>>] = "final"
      /\ Tushare!AtEnd(reached) /\ TUSaved(S) =>
            \A x \in V, c \in S, d \in 1..LastDay :
               d <= run.end /\ (run.opts.resume => d < run.end) => table[<<x, c, d>>] = "final"
  BY <1>2, TUBegin DEF TUResumes
<1> DEFINE P == Tushare!ParamVariants
           W == Tushare!DateWindows(Tushare!Begin(reached), run.end)
           lists == [i \in DOMAIN P |-> [j \in DOMAIN W |-> Tushare!Call(P[i], S, W[j])]]
<1>4. CASE Tushare!AtEnd(reached)
  <2>1. list = <<>>
    BY <1>2, <1>4 DEF Tushare!RangeCalls
  <2>2. list \in Seq(TUCall(V)) /\ DOMAIN list = {}
    BY <2>1
  <2>3. TUSaved(S) => TUPlanned(list, S)
    BY <1>3, <1>4 DEF TUPlanned
  <2> QED BY <2>2, <2>3 DEF TUChained
<1>5. CASE ~Tushare!AtEnd(reached)
  <2>1. list = FlattenSeq(lists)
    BY <1>2, <1>5, TULists DEF Tushare!RangeCalls, Tushare!Product
  <2>2. PICK first \in 1..LastDay : first = Tushare!Begin(reached)
    BY <1>3, <1>5
  <2>3. /\ first <= run.end
        /\ TUSaved(S) => \A x \in V, c \in S, d \in 1..LastDay : d < first => table[<<x, c, d>>] = "final"
    BY <1>3, <1>5, <2>2
  <2>4. W = Tushare!DateWindows(first, run.end)
    BY <2>2
  <2> HIDE DEF W
  <2>5. /\ W \in Seq(SUBSET (1..run.end))
        /\ \A d \in first..run.end : \E k \in DOMAIN W : d \in W[k] /\ \A j \in DOMAIN W : \A e \in W[j] : d <= e => k <= j
    <3>1. PICK last \in 1..LastDay : last = run.end
      BY <1>1
    <3>2. first <= last /\ W = Tushare!DateWindows(first, last)
      BY <2>3, <2>4, <3>1
    <3>3. Tushare!DateWindows(first, last) \in Seq(SUBSET (1..last))
      BY <3>2, TUWindows
    <3>4. \A d \in first..last :
             \E k \in DOMAIN Tushare!DateWindows(first, last) :
                /\ d \in Tushare!DateWindows(first, last)[k]
                /\ \A j \in DOMAIN Tushare!DateWindows(first, last) :
                      \A e \in Tushare!DateWindows(first, last)[j] : d <= e => k <= j
      BY <3>2, TUWindows
    <3> QED BY <3>1, <3>2, <3>3, <3>4
  <2>6. /\ P \in Seq(V) /\ Cardinality(V) \in Nat /\ DOMAIN P = 1..Cardinality(V) /\ Len(P) = Cardinality(V)
        /\ \A x \in V : \E i \in DOMAIN P : P[i] = x
    <3>1. IsFiniteSet(V)
      BY DEF TUTyped
    <3> HIDE DEF V
    <3> QED BY <3>1, TUOrder DEF Tushare!ParamVariants, V
  <2> HIDE DEF P
  <2>7. \A i \in DOMAIN P : \A j \in DOMAIN W :
           Tushare!Call(P[i], S, W[j]) \in TUCall(V) /\ Tushare!Call(P[i], S, W[j]).variant = P[i]
           /\ Tushare!Call(P[i], S, W[j]).codes = S /\ Tushare!Call(P[i], S, W[j]).days = W[j]
           /\ W[j] \subseteq 1..run.end
    <3> SUFFICES ASSUME NEW i \in DOMAIN P, NEW j \in DOMAIN W
                 PROVE  Tushare!Call(P[i], S, W[j]) \in TUCall(V) /\ Tushare!Call(P[i], S, W[j]).variant = P[i]
                        /\ Tushare!Call(P[i], S, W[j]).codes = S /\ Tushare!Call(P[i], S, W[j]).days = W[j]
                        /\ W[j] \subseteq 1..run.end
      OBVIOUS
    <3>1. P[i] \in V
      BY <2>6
    <3>2. W[j] \in SUBSET (1..run.end)
      BY <2>5
    <3>3. W[j] \in SUBSET (1..LastDay)
      BY <1>1, <3>2
    <3> QED BY <3>1, <3>2, <3>3 DEF Tushare!Call, TUCall
  <2>8. /\ Len(lists) = Cardinality(V) /\ DOMAIN lists = DOMAIN P /\ lists \in Seq(Seq(TUCall(V)))
        /\ \A i \in DOMAIN P : DOMAIN lists[i] = DOMAIN W
        /\ \A i \in DOMAIN P, j \in DOMAIN W : lists[i][j] = Tushare!Call(P[i], S, W[j])
    <3>1. \A i \in DOMAIN P : [j \in DOMAIN W |-> Tushare!Call(P[i], S, W[j])] \in Seq(TUCall(V))
      <4> SUFFICES ASSUME NEW i \in DOMAIN P PROVE [j \in DOMAIN W |-> Tushare!Call(P[i], S, W[j])] \in Seq(TUCall(V))
        OBVIOUS
      <4>1. Len(W) \in Nat /\ DOMAIN W = 1..Len(W)
        BY <2>5
      <4>2. [j \in 1..Len(W) |-> Tushare!Call(P[i], S, W[j])] \in [1..Len(W) -> TUCall(V)]
        BY <2>7, <4>1
      <4> QED BY <4>1, <4>2
    <3>2. lists \in [1..Cardinality(V) -> Seq(TUCall(V))]
      BY <2>6, <3>1
    <3>3. lists \in Seq(Seq(TUCall(V))) /\ DOMAIN lists = 1..Cardinality(V) /\ Len(lists) = Cardinality(V)
      <4> HIDE DEF lists
      <4>1. PICK N \in Nat : N = Cardinality(V)
        BY <2>6
      <4>2. lists \in [1..N -> Seq(TUCall(V))]
        BY <3>2, <4>1
      <4>3. lists \in Seq(Seq(TUCall(V))) /\ DOMAIN lists = 1..N
        BY <4>2
      <4>4. Len(lists) = N
        BY <4>3
      <4> QED BY <4>1, <4>3, <4>4
    <3> QED BY <2>6, <3>3
  <2> HIDE DEF lists
  <2>9. /\ list \in Seq(TUCall(V))
        /\ \A i \in DOMAIN lists : \A j \in DOMAIN lists[i] : \E m \in DOMAIN list : list[m] = lists[i][j]
        /\ \A m \in DOMAIN list : \E i, j : FlatBefore(list, lists, Len(lists), m, i, j)
    BY <2>1, <2>8, FlattenOrdered
  <2>10. \A m \in DOMAIN list : \E i \in DOMAIN P, j \in DOMAIN W :
            FlatBefore(list, lists, Len(lists), m, i, j) /\ list[m] = Tushare!Call(P[i], S, W[j])
    <3> SUFFICES ASSUME NEW m \in DOMAIN list
                 PROVE  \E i \in DOMAIN P, j \in DOMAIN W :
                           FlatBefore(list, lists, Len(lists), m, i, j) /\ list[m] = Tushare!Call(P[i], S, W[j])
      OBVIOUS
    <3>1. PICK i, j : FlatBefore(list, lists, Len(lists), m, i, j)
      BY <2>9
    <3>2. i \in DOMAIN P /\ j \in DOMAIN W /\ list[m] = lists[i][j]
      BY <2>6, <2>8, <3>1 DEF FlatBefore
    <3> QED BY <2>8, <3>1, <3>2
  <2>11. \A m \in DOMAIN list : list[m].codes = S /\ list[m].days \subseteq 1..run.end
    BY <2>7, <2>10
  <2>12. TUSaved(S) => TUPlanned(list, S)
    <3> SUFFICES ASSUME TUSaved(S), NEW x \in V, NEW c \in S, NEW d \in 1..LastDay, d <= run.end, ~(d < first)
                 PROVE  TUAsked(list, x, c, d)
      BY <2>3 DEF TUPlanned
    <3>1. d \in first..run.end
      BY <1>1
    <3>2. PICK j \in DOMAIN W : d \in W[j]
      BY <2>5, <3>1
    <3>3. PICK i \in DOMAIN P : P[i] = x
      BY <2>6
    <3>4. PICK m \in DOMAIN list : list[m] = Tushare!Call(P[i], S, W[j])
      BY <2>8, <2>9
    <3> QED BY <2>7, <3>2, <3>3, <3>4 DEF TUAsked, TUCovers
  <2>13. TUSaved(S) /\ Cardinality(V) = 1 => TUChained(list, table, V)
    <3> SUFFICES ASSUME TUSaved(S), Cardinality(V) = 1, NEW m \in DOMAIN list, NEW x \in V, NEW d \in 1..LastDay,
                        NEW c \in list[m].codes, NEW e \in list[m].days, d < e, ~(d < first)
                 PROVE  \E n \in DOMAIN list : n <= m /\ TUCovers(list[n], x, c, d)
      BY <2>3, <2>11 DEF TUChained
    <3>1. PICK i \in DOMAIN P, j \in DOMAIN W :
             FlatBefore(list, lists, Len(lists), m, i, j) /\ list[m] = Tushare!Call(P[i], S, W[j])
      BY <2>10
    <3>2. c \in S /\ e \in W[j] /\ e \in Nat /\ e <= run.end
      BY <1>1, <2>7, <3>1
    <3>3. d \in first..run.end /\ d <= e
      BY <1>1, <3>2
    <3>4. PICK k \in DOMAIN W : d \in W[k] /\ k <= j
      BY <2>5, <3>2, <3>3
    <3>5. P[i] = x
      BY <2>6
    <3>6. m \in Nat /\ j \in Nat /\ k \in Nat
      BY <2>5, <2>9
    <3>7. CASE k = j
      BY <2>7, <3>1, <3>2, <3>4, <3>5, <3>6, <3>7 DEF TUCovers
    <3>8. CASE k # j
      <4>1. k < j /\ k \in DOMAIN lists[i]
        BY <2>8, <3>4, <3>6, <3>8
      <4>2. PICK n \in DOMAIN list : n < m /\ list[n] = lists[i][k]
        BY <3>1, <4>1 DEF FlatBefore
      <4>3. list[n] = Tushare!Call(P[i], S, W[k])
        BY <2>8, <4>2
      <4>4. TUCovers(list[n], x, c, d)
        BY <2>7, <3>2, <3>4, <3>5, <4>3 DEF TUCovers
      <4>5. n \in Nat
        BY <2>9
      <4> QED BY <3>6, <4>2, <4>4, <4>5
    <3> QED BY <3>7, <3>8
  <2> QED BY <2>9, <2>11, <2>12, <2>13
<1> QED BY <1>4, <1>5

\* So does a plan of single days, whatever the variants.
LEMMA TUSlice ==
  ASSUME TUTyped, run.pc # "idle", NEW list, list = Tushare!SliceCalls
  PROVE  /\ list \in Seq(TUCall(spec.variants))
         /\ \A i \in DOMAIN list : list[i].codes = Codes /\ list[i].days \subseteq 1..run.end
         /\ TUSaved(Codes) => TUPlanned(list, Codes)
         /\ TUSaved(Codes) => TUChained(list, table, spec.variants)
<1> DEFINE V == spec.variants
<1>1. LastDay \in Nat /\ run.end \in 1..LastDay
  BY TURunning
<1>2. PICK reached : reached = TUCursor(table, V, Codes) /\ reached = Tushare!LatestCursor(Codes)
  BY TUCursorIs
<1>3. /\ ~Tushare!AtEnd(reached) => /\ Tushare!Begin(reached) \in 1..LastDay /\ Tushare!Begin(reached) <= run.end
                                    /\ TUSaved(Codes) => \A x \in V, c \in Codes, d \in 1..LastDay :
                                          d < Tushare!Begin(reached) => table[<<x, c, d>>] = "final"
      /\ Tushare!AtEnd(reached) /\ TUSaved(Codes) =>
            \A x \in V, c \in Codes, d \in 1..LastDay :
               d <= run.end /\ (run.opts.resume => d < run.end) => table[<<x, c, d>>] = "final"
  BY <1>2, TUBegin DEF TUResumes
<1> DEFINE P == Tushare!ParamVariants
           W == Tushare!CursorValues(Tushare!Begin(reached), run.end)
           lists == [i \in DOMAIN W |-> [j \in DOMAIN P |-> Tushare!Call(P[j], Codes, W[i])]]
<1>4. CASE Tushare!AtEnd(reached)
  <2>1. list = <<>>
    BY <1>2, <1>4 DEF Tushare!SliceCalls
  <2>2. list \in Seq(TUCall(V)) /\ DOMAIN list = {}
    BY <2>1
  <2>3. TUSaved(Codes) => TUPlanned(list, Codes)
    BY <1>3, <1>4 DEF TUPlanned
  <2> QED BY <2>2, <2>3 DEF TUChained
<1>5. CASE ~Tushare!AtEnd(reached)
  <2>1. list = FlattenSeq(lists)
    BY <1>2, <1>5, TULists DEF Tushare!SliceCalls, Tushare!Product
  <2>2. PICK first \in 1..LastDay : first = Tushare!Begin(reached)
    BY <1>3, <1>5
  <2>3. /\ first <= run.end
        /\ TUSaved(Codes) => \A x \in V, c \in Codes, d \in 1..LastDay : d < first => table[<<x, c, d>>] = "final"
    BY <1>3, <1>5, <2>2
  <2>4. PICK N \in Nat : N = run.end - first + 1
    <3>1. run.end - first + 1 \in Nat
      BY <1>1, <2>3
    <3> QED BY <3>1
  <2>5. W = [k \in 1..N |-> {first + k - 1}]
    BY <2>2, <2>4 DEF Tushare!CursorValues
  <2> HIDE DEF W
  <2>6. \A k \in 1..N : k \in Nat /\ W[k] = {first + k - 1} /\ W[k] \in SUBSET (1..run.end)
    <3> SUFFICES ASSUME NEW k \in 1..N PROVE {first + k - 1} \in SUBSET (1..run.end)
      BY <2>5
    <3>1. first + k - 1 \in 1..run.end
      BY <1>1, <2>4
    <3> QED BY <3>1
  <2>7. DOMAIN W = 1..N
    BY <2>5
  <2>8. /\ P \in Seq(V) /\ Cardinality(V) \in Nat /\ DOMAIN P = 1..Cardinality(V) /\ Len(P) = Cardinality(V)
        /\ \A x \in V : \E i \in DOMAIN P : P[i] = x
    <3>1. IsFiniteSet(V)
      BY DEF TUTyped
    <3> HIDE DEF V
    <3> QED BY <3>1, TUOrder DEF Tushare!ParamVariants, V
  <2> HIDE DEF P
  <2>9. \A j \in DOMAIN P : \A i \in DOMAIN W :
           Tushare!Call(P[j], Codes, W[i]) \in TUCall(V) /\ Tushare!Call(P[j], Codes, W[i]).variant = P[j]
           /\ Tushare!Call(P[j], Codes, W[i]).codes = Codes /\ Tushare!Call(P[j], Codes, W[i]).days = W[i]
           /\ W[i] \subseteq 1..run.end
    <3> SUFFICES ASSUME NEW j \in DOMAIN P, NEW i \in DOMAIN W
                 PROVE  Tushare!Call(P[j], Codes, W[i]) \in TUCall(V) /\ Tushare!Call(P[j], Codes, W[i]).variant = P[j]
                        /\ Tushare!Call(P[j], Codes, W[i]).codes = Codes /\ Tushare!Call(P[j], Codes, W[i]).days = W[i]
                        /\ W[i] \subseteq 1..run.end
      OBVIOUS
    <3>1. P[j] \in V
      BY <2>8
    <3>2. W[i] \in SUBSET (1..run.end)
      BY <2>6, <2>7
    <3>3. W[i] \in SUBSET (1..LastDay)
      BY <1>1, <3>2
    <3> QED BY <3>1, <3>2, <3>3 DEF Tushare!Call, TUCall
  <2>10. /\ DOMAIN lists = DOMAIN W /\ lists \in Seq(Seq(TUCall(V))) /\ Len(lists) = N
         /\ \A i \in DOMAIN W : DOMAIN lists[i] = DOMAIN P
         /\ \A i \in DOMAIN W, j \in DOMAIN P : lists[i][j] = Tushare!Call(P[j], Codes, W[i])
    <3>1. \A i \in DOMAIN W : [j \in DOMAIN P |-> Tushare!Call(P[j], Codes, W[i])] \in Seq(TUCall(V))
      <4> SUFFICES ASSUME NEW i \in DOMAIN W PROVE [j \in DOMAIN P |-> Tushare!Call(P[j], Codes, W[i])] \in Seq(TUCall(V))
        OBVIOUS
      <4>1. PICK M \in Nat : M = Cardinality(V) /\ DOMAIN P = 1..M
        BY <2>8
      <4>2. [j \in 1..M |-> Tushare!Call(P[j], Codes, W[i])] \in [1..M -> TUCall(V)]
        BY <2>9, <4>1
      <4> QED BY <4>1, <4>2
    <3>2. lists \in [1..N -> Seq(TUCall(V))]
      BY <2>7, <3>1
    <3>3. lists \in Seq(Seq(TUCall(V))) /\ DOMAIN lists = 1..N
      <4> HIDE DEF lists
      <4> QED BY <3>2
    <3>4. Len(lists) = N
      <4> HIDE DEF lists
      <4> QED BY <3>3
    <3> QED BY <2>7, <3>3, <3>4
  <2> HIDE DEF lists
  <2>11. /\ list \in Seq(TUCall(V))
         /\ \A i \in DOMAIN lists : \A j \in DOMAIN lists[i] : \E m \in DOMAIN list : list[m] = lists[i][j]
         /\ \A m \in DOMAIN list : \E i, j : FlatBefore(list, lists, Len(lists), m, i, j)
    <3>1. lists \in Seq(Seq(TUCall(V)))
      BY <2>10
    <3>2. FlattenSeq(lists) \in Seq(TUCall(V))
      BY <3>1, FlattenOrdered
    <3>3. \A i \in DOMAIN lists : \A j \in DOMAIN lists[i] :
             \E m \in DOMAIN FlattenSeq(lists) : FlattenSeq(lists)[m] = lists[i][j]
      BY <3>1, FlattenOrdered
    <3>4. \A m \in DOMAIN FlattenSeq(lists) : \E i, j : FlatBefore(FlattenSeq(lists), lists, Len(lists), m, i, j)
      BY <3>1, FlattenOrdered
    <3> QED BY <2>1, <3>2, <3>3, <3>4
  <2>12. \A m \in DOMAIN list : \E i \in DOMAIN W, j \in DOMAIN P :
            FlatBefore(list, lists, Len(lists), m, i, j) /\ list[m] = Tushare!Call(P[j], Codes, W[i])
    <3> SUFFICES ASSUME NEW m \in DOMAIN list
                 PROVE  \E i \in DOMAIN W, j \in DOMAIN P :
                           FlatBefore(list, lists, Len(lists), m, i, j) /\ list[m] = Tushare!Call(P[j], Codes, W[i])
      OBVIOUS
    <3>1. PICK i, j : FlatBefore(list, lists, Len(lists), m, i, j)
      BY <2>11
    <3>2. i \in DOMAIN W /\ j \in DOMAIN P /\ list[m] = lists[i][j]
      BY <2>7, <2>10, <3>1 DEF FlatBefore
    <3> QED BY <2>10, <3>1, <3>2
  <2>13. \A m \in DOMAIN list : list[m].codes = Codes /\ list[m].days \subseteq 1..run.end
    BY <2>9, <2>12
  <2>14. \A d \in 1..run.end : ~(d < first) => \E k \in DOMAIN W : W[k] = {d} /\ k = d - first + 1
    <3> SUFFICES ASSUME NEW d \in 1..run.end, ~(d < first) PROVE \E k \in DOMAIN W : W[k] = {d} /\ k = d - first + 1
      OBVIOUS
    <3>1. d - first + 1 \in 1..N
      BY <1>1, <2>4
    <3>2. first + (d - first + 1) - 1 = d
      BY <1>1
    <3> QED BY <2>6, <2>7, <3>1, <3>2
  <2>15. TUSaved(Codes) => TUPlanned(list, Codes)
    <3> SUFFICES ASSUME TUSaved(Codes), NEW x \in V, NEW c \in Codes, NEW d \in 1..LastDay, d <= run.end, ~(d < first)
                 PROVE  TUAsked(list, x, c, d)
      BY <2>3 DEF TUPlanned
    <3>1. d \in 1..run.end
      BY <1>1
    <3>2. PICK k \in DOMAIN W : d \in W[k]
      BY <2>14, <3>1
    <3>3. PICK j \in DOMAIN P : P[j] = x
      BY <2>8
    <3>4. PICK m \in DOMAIN list : list[m] = Tushare!Call(P[j], Codes, W[k])
      BY <2>10, <2>11
    <3> QED BY <2>9, <3>2, <3>3, <3>4 DEF TUAsked, TUCovers
  <2>16. TUSaved(Codes) => TUChained(list, table, V)
    <3> SUFFICES ASSUME TUSaved(Codes), NEW m \in DOMAIN list, NEW x \in V, NEW d \in 1..LastDay,
                        NEW c \in list[m].codes, NEW e \in list[m].days, d < e, ~(d < first)
                 PROVE  \E n \in DOMAIN list : n <= m /\ TUCovers(list[n], x, c, d)
      BY <2>3, <2>13 DEF TUChained
    <3>1. PICK i \in DOMAIN W, j \in DOMAIN P :
             FlatBefore(list, lists, Len(lists), m, i, j) /\ list[m] = Tushare!Call(P[j], Codes, W[i])
      BY <2>12
    <3>2. c \in Codes /\ e \in W[i] /\ e \in Nat /\ e <= run.end /\ i \in 1..N
      BY <1>1, <2>7, <2>9, <3>1
    <3>3. e = first + i - 1
      BY <2>6, <3>2
    <3>4. d \in 1..run.end
      BY <1>1, <3>2
    <3>5. PICK k \in DOMAIN W : W[k] = {d} /\ k = d - first + 1
      BY <2>14, <3>4
    <3>6. k \in 1..i - 1
      <4>1. k \in Nat /\ k >= 1
        BY <2>6, <2>7
      <4> QED BY <3>2, <3>3, <3>5, <4>1
    <3>7. PICK l \in DOMAIN P : P[l] = x
      BY <2>8
    <3>8. l \in DOMAIN lists[k]
      BY <2>10
    <3>9. PICK n \in DOMAIN list : n < m /\ list[n] = lists[k][l]
      BY <3>1, <3>6, <3>8 DEF FlatBefore
    <3>10. list[n] = Tushare!Call(P[l], Codes, W[k])
      BY <2>10, <3>9
    <3>11. TUCovers(list[n], x, c, d)
      BY <2>9, <3>2, <3>5, <3>7, <3>10 DEF TUCovers
    <3>12. n \in Nat /\ m \in Nat
      BY <2>11
    <3> QED BY <3>9, <3>11, <3>12
  <2> QED BY <2>11, <2>13, <2>15, <2>16
<1> QED BY <1>4, <1>5

\* So does a plan of one code after the other, each behind its own cursor.
LEMMA TUCodeCalls ==
  ASSUME TUTyped, run.pc # "idle", NEW codes \in SUBSET Codes, NEW list, list = Tushare!CodeCalls(codes)
  PROVE  /\ list \in Seq(TUCall(spec.variants))
         /\ \A i \in DOMAIN list : /\ \E c \in codes : list[i].codes = {c}
                                   /\ list[i].days \subseteq 1..run.end
         /\ (\A c \in codes : TUSaved({c})) => TUPlanned(list, codes)
         /\ (\A c \in codes : TUSaved({c})) /\ Cardinality(spec.variants) = 1 =>
               TUChained(list, table, spec.variants)
<1> DEFINE V == spec.variants
           order == Tushare!SetToSeq(codes)
           lists == [i \in DOMAIN order |-> Tushare!RangeCalls({order[i]})]
<1>1. list = FlattenSeq(lists)
  BY TULists DEF Tushare!CodeCalls
<1>2. PICK N \in Nat : N = Cardinality(codes) /\ order \in Seq(codes) /\ DOMAIN order = 1..N
                       /\ \A c \in codes : \E i \in DOMAIN order : order[i] = c
  <2>1. IsFiniteSet(codes)
    BY ProviderAssumption, FS_Subset
  <2> QED BY <2>1, TUOrder
<1> HIDE DEF order
<1>3. \A i \in 1..N : /\ order[i] \in codes
                      /\ Tushare!RangeCalls({order[i]}) \in Seq(TUCall(V))
                      /\ \A j \in DOMAIN Tushare!RangeCalls({order[i]}) :
                            /\ Tushare!RangeCalls({order[i]})[j].codes = {order[i]}
                            /\ Tushare!RangeCalls({order[i]})[j].days \subseteq 1..run.end
                      /\ TUSaved({order[i]}) => TUPlanned(Tushare!RangeCalls({order[i]}), {order[i]})
                      /\ TUSaved({order[i]}) /\ Cardinality(V) = 1 =>
                            TUChained(Tushare!RangeCalls({order[i]}), table, V)
  <2> SUFFICES ASSUME NEW i \in 1..N
               PROVE  /\ order[i] \in codes
                      /\ Tushare!RangeCalls({order[i]}) \in Seq(TUCall(V))
                      /\ \A j \in DOMAIN Tushare!RangeCalls({order[i]}) :
                            /\ Tushare!RangeCalls({order[i]})[j].codes = {order[i]}
                            /\ Tushare!RangeCalls({order[i]})[j].days \subseteq 1..run.end
                      /\ TUSaved({order[i]}) => TUPlanned(Tushare!RangeCalls({order[i]}), {order[i]})
                      /\ TUSaved({order[i]}) /\ Cardinality(V) = 1 =>
                            TUChained(Tushare!RangeCalls({order[i]}), table, V)
    OBVIOUS
  <2>1. order[i] \in codes
    BY <1>2
  <2>2. {order[i]} \in SUBSET Codes
    BY <2>1
  <2>3. PICK l : l = Tushare!RangeCalls({order[i]})
    OBVIOUS
  <2>4. /\ l \in Seq(TUCall(V))
        /\ \A j \in DOMAIN l : l[j].codes = {order[i]} /\ l[j].days \subseteq 1..run.end
        /\ TUSaved({order[i]}) => TUPlanned(l, {order[i]})
        /\ TUSaved({order[i]}) /\ Cardinality(V) = 1 => TUChained(l, table, V)
    BY <2>2, <2>3, TURange
  <2> QED BY <2>1, <2>3, <2>4
<1>4. \A i \in 1..N : lists[i] = Tushare!RangeCalls({order[i]})
  BY <1>2
<1>5. lists \in Seq(Seq(TUCall(V))) /\ DOMAIN lists = 1..N
  <2>1. lists \in [1..N -> Seq(TUCall(V))]
    BY <1>2, <1>3
  <2> HIDE DEF lists
  <2> QED BY <2>1
<1> HIDE DEF lists
<1>6. Len(lists) = N
  BY <1>5
<1>7. /\ list \in Seq(TUCall(V))
      /\ \A i \in DOMAIN lists : \A j \in DOMAIN lists[i] : \E m \in DOMAIN list : list[m] = lists[i][j]
      /\ \A m \in DOMAIN list : \E i, j : FlatBefore(list, lists, Len(lists), m, i, j)
  <2>1. lists \in Seq(Seq(TUCall(V)))
    BY <1>5
  <2>2. FlattenSeq(lists) \in Seq(TUCall(V))
    BY <2>1, FlattenOrdered
  <2>3. \A i \in DOMAIN lists : \A j \in DOMAIN lists[i] :
           \E m \in DOMAIN FlattenSeq(lists) : FlattenSeq(lists)[m] = lists[i][j]
    BY <2>1, FlattenOrdered
  <2>4. \A m \in DOMAIN FlattenSeq(lists) : \E i, j : FlatBefore(FlattenSeq(lists), lists, Len(lists), m, i, j)
    BY <2>1, FlattenOrdered
  <2> QED BY <1>1, <2>2, <2>3, <2>4
<1>8. \A m \in DOMAIN list : \E i \in 1..N : \E j \in DOMAIN lists[i] :
         FlatBefore(list, lists, N, m, i, j) /\ list[m] = lists[i][j]
  <2> SUFFICES ASSUME NEW m \in DOMAIN list
               PROVE  \E i \in 1..N : \E j \in DOMAIN lists[i] :
                         FlatBefore(list, lists, N, m, i, j) /\ list[m] = lists[i][j]
    OBVIOUS
  <2>1. PICK i, j : FlatBefore(list, lists, N, m, i, j)
    BY <1>6, <1>7
  <2>2. i \in 1..N /\ j \in DOMAIN lists[i] /\ list[m] = lists[i][j]
    BY <2>1 DEF FlatBefore
  <2> QED BY <2>1, <2>2
<1>9. \A i \in DOMAIN list : (\E c \in codes : list[i].codes = {c}) /\ list[i].days \subseteq 1..run.end
  <2> SUFFICES ASSUME NEW m \in DOMAIN list PROVE (\E c \in codes : list[m].codes = {c}) /\ list[m].days \subseteq 1..run.end
    OBVIOUS
  <2>1. PICK i \in 1..N : \E j \in DOMAIN lists[i] : list[m] = lists[i][j]
    BY <1>8
  <2>2. PICK j \in DOMAIN lists[i] : list[m] = lists[i][j]
    BY <2>1
  <2>3. list[m].codes = {order[i]} /\ list[m].days \subseteq 1..run.end /\ order[i] \in codes
    <3>1. PICK l : l = Tushare!RangeCalls({order[i]})
      OBVIOUS
    <3>2. l = lists[i]
      BY <1>4, <3>1
    <3>3. j \in DOMAIN l /\ list[m] = l[j]
      BY <2>2, <3>2
    <3>4. order[i] \in codes /\ \A k \in DOMAIN l : l[k].codes = {order[i]} /\ l[k].days \subseteq 1..run.end
      BY <1>3, <3>1
    <3> QED BY <3>3, <3>4
  <2> QED BY <2>3
<1>10. ASSUME \A c \in codes : TUSaved({c}) PROVE TUPlanned(list, codes)
  <2> SUFFICES ASSUME NEW x \in V, NEW c \in codes, NEW d \in 1..LastDay,
                      d <= run.end, run.opts.resume => d < run.end, table[<<x, c, d>>] # "final"
               PROVE  TUAsked(list, x, c, d)
    BY DEF TUPlanned
  <2>1. PICK i \in 1..N : order[i] = c
    BY <1>2
  <2>2. TUPlanned(lists[i], {c})
    BY <1>3, <1>4, <1>10, <2>1
  <2>3. TUAsked(lists[i], x, c, d)
    BY <2>2 DEF TUPlanned
  <2>4. PICK j \in DOMAIN lists[i] : TUCovers(lists[i][j], x, c, d)
    BY <2>3 DEF TUAsked
  <2>5. PICK m \in DOMAIN list : list[m] = lists[i][j]
    BY <1>5, <1>7
  <2> QED BY <2>4, <2>5 DEF TUAsked
<1>11. ASSUME \A c \in codes : TUSaved({c}), Cardinality(V) = 1 PROVE TUChained(list, table, V)
  <2> SUFFICES ASSUME NEW m \in DOMAIN list, NEW x \in V, NEW d \in 1..LastDay, NEW c \in list[m].codes, NEW e \in list[m].days,
                      d < e, table[<<x, c, d>>] # "final"
               PROVE  \E n \in DOMAIN list : n <= m /\ TUCovers(list[n], x, c, d)
    BY DEF TUChained
  <2>1. PICK i \in 1..N : \E j \in DOMAIN lists[i] : FlatBefore(list, lists, N, m, i, j) /\ list[m] = lists[i][j]
    BY <1>8
  <2>2. PICK j \in DOMAIN lists[i] : FlatBefore(list, lists, N, m, i, j) /\ list[m] = lists[i][j]
    BY <2>1
  <2>3. TUChained(lists[i], table, V)
    BY <1>3, <1>4, <1>11
  <2>4. PICK k \in DOMAIN lists[i] : k <= j /\ TUCovers(lists[i][k], x, c, d)
    BY <2>2, <2>3 DEF TUChained
  <2>5. lists[i] \in Seq(TUCall(V))
    BY <1>5
  <2>6. k \in Nat /\ j \in Nat /\ m \in Nat
    BY <1>7, <2>5
  <2>7. CASE k = j
    BY <2>2, <2>4, <2>6, <2>7
  <2>8. CASE k # j
    <3>1. k < j
      BY <2>4, <2>6, <2>8
    <3>2. PICK n \in DOMAIN list : n < m /\ list[n] = lists[i][k]
      BY <2>2, <3>1 DEF FlatBefore
    <3>3. n \in Nat
      BY <1>7
    <3> QED BY <2>4, <2>6, <3>2, <3>3
  <2> QED BY <2>7, <2>8
<1> QED BY <1>7, <1>9, <1>10, <1>11

\* The batches of a snapshot cover all codes.
LEMMA TUBatches ==
  ASSUME NEW codes \in SUBSET Codes, codes # {}, NEW W, W = Tushare!CodeBatches(codes)
  PROVE  /\ \E N \in Nat : DOMAIN W = 1..N
         /\ \A k \in DOMAIN W : W[k] \in SUBSET codes
         /\ \A c \in codes : \E k \in DOMAIN W : c \in W[k]
<1> DEFINE order == Tushare!SetToSeq(codes)
           w == CodeBatch
<1>1. PICK n \in Nat : n = Len(order) /\ order \in Seq(codes) /\ DOMAIN order = 1..n
                       /\ \A c \in codes : \E i \in DOMAIN order : order[i] = c
  <2>1. IsFiniteSet(codes)
    BY ProviderAssumption, FS_Subset
  <2> QED BY <2>1, TUOrder
<1>2. w \in Nat \ {0}
  BY ProviderAssumption
<1> HIDE DEF w
<1>3. n >= 1 /\ n - 1 \in Nat
  BY <1>1
<1> DEFINE m == (n - 1) \div w
           Block(k) == ((k - 1) * w + 1)..Tushare!Least(n, k * w)
<1>4. m \in Nat /\ w * m <= n - 1 /\ n - 1 < w * m + w
  BY <1>2, <1>3, BlockOf
<1>5. W = [k \in 1..m + 1 |-> {order[i] : i \in Block(k)}]
  BY <1>1 DEF Tushare!CodeBatches, w
<1> HIDE DEF order, m
<1>6. \A k \in 1..m + 1 : Block(k) \subseteq 1..n
  <2> SUFFICES ASSUME NEW k \in 1..m + 1, NEW e \in Block(k) PROVE e \in 1..n
    OBVIOUS
  <2>1. (k - 1) * w \in Nat /\ k * w \in Nat
    BY <1>2, <1>4
  <2>2. PICK x \in Nat, y \in Nat : x = (k - 1) * w /\ y = k * w
    BY <2>1
  <2>3. e \in (x + 1)..Tushare!Least(n, y)
    BY <2>2
  <2> QED BY <2>3 DEF Tushare!Least
<1>7. \A i \in 1..n : \E k \in 1..m + 1 : i \in Block(k)
  <2> SUFFICES ASSUME NEW i \in 1..n PROVE \E k \in 1..m + 1 : i \in Block(k)
    OBVIOUS
  <2> DEFINE h == (i - 1) \div w
  <2>1. i - 1 \in Nat /\ i - 1 <= n - 1
    BY <1>1
  <2>2. h \in Nat /\ w * h <= i - 1 /\ i - 1 < w * h + w
    BY <1>2, <2>1, BlockOf
  <2> HIDE DEF h
  <2>3. h <= m
    <3>1. i - 1 < w * m + w
      <4>1. PICK y \in Nat : y = w * m + w
        BY <1>2, <1>4
      <4> QED BY <1>3, <1>4, <2>1, <4>1
    <3> QED BY <1>2, <1>4, <2>1, <2>2, <3>1, BlockOrder
  <2>4. h + 1 \in 1..m + 1
    BY <1>4, <2>2, <2>3
  <2>5. i \in Block(h + 1)
    <3>1. PICK x \in Nat : x = w * h
      BY <1>2, <2>2
    <3>2. ((h + 1) - 1) * w = x /\ (h + 1) * w = x + w
      BY <1>2, <2>2, <3>1
    <3>3. i \in (x + 1)..Tushare!Least(n, x + w)
      <4>1. x <= i - 1 /\ i - 1 < x + w
        BY <2>2, <3>1
      <4> QED BY <1>2, <3>1, <4>1 DEF Tushare!Least
    <3> QED BY <3>2, <3>3
  <2> QED BY <2>4, <2>5
<1> HIDE DEF Block
<1>8. \E N \in Nat : DOMAIN W = 1..N
  <2>1. m + 1 \in Nat /\ DOMAIN W = 1..m + 1
    BY <1>4, <1>5
  <2> QED BY <2>1
<1>9. ASSUME NEW k \in DOMAIN W PROVE W[k] \in SUBSET codes
  <2>1. k \in 1..m + 1 /\ W[k] = {order[i] : i \in Block(k)}
    BY <1>5
  <2>2. \A i \in Block(k) : order[i] \in codes
    BY <1>1, <1>6, <2>1
  <2> QED BY <2>1, <2>2
<1>10. ASSUME NEW c \in codes PROVE \E k \in DOMAIN W : c \in W[k]
  <2>1. PICK i \in 1..n : order[i] = c
    BY <1>1
  <2>2. PICK k \in 1..m + 1 : i \in Block(k)
    BY <1>7
  <2>3. k \in DOMAIN W /\ W[k] = {order[j] : j \in Block(k)}
    BY <1>5
  <2> QED BY <2>1, <2>2, <2>3
<1> QED BY <1>8, <1>9, <1>10

\* A snapshot asks for every row.
LEMMA TUSnapshot ==
  ASSUME TUTyped, run.pc # "idle", NEW codes \in SUBSET Codes, codes # {}, NEW list, list = Tushare!SnapshotCalls(codes)
  PROVE  /\ list \in Seq(TUCall(spec.variants))
         /\ \A i \in DOMAIN list : list[i].codes \subseteq codes
         /\ TUPlanned(list, codes)
<1> DEFINE V == spec.variants
           P == Tushare!ParamVariants
           W == Tushare!CodeBatches(codes)
           lists == [i \in DOMAIN P |-> [j \in DOMAIN W |-> Tushare!Call(P[i], W[j], 1..LastDay)]]
<1>1. list = FlattenSeq(lists)
  BY TULists DEF Tushare!SnapshotCalls, Tushare!Product, Tushare!Days
<1>2. PICK N \in Nat : DOMAIN W = 1..N
  BY TUBatches
<1>3. \A k \in DOMAIN W : W[k] \in SUBSET codes
  BY TUBatches
<1>4. \A c \in codes : \E k \in DOMAIN W : c \in W[k]
  BY TUBatches
<1> HIDE DEF W
<1>5. PICK M \in Nat : P \in Seq(V) /\ DOMAIN P = 1..M /\ \A x \in V : \E i \in DOMAIN P : P[i] = x
  <2>1. IsFiniteSet(V)
    BY DEF TUTyped
  <2> HIDE DEF V
  <2> QED BY <2>1, TUOrder DEF Tushare!ParamVariants, V
<1> HIDE DEF P
<1>6. \A i \in DOMAIN P : \A j \in DOMAIN W :
         /\ Tushare!Call(P[i], W[j], 1..LastDay) \in TUCall(V) /\ Tushare!Call(P[i], W[j], 1..LastDay).variant = P[i]
         /\ Tushare!Call(P[i], W[j], 1..LastDay).codes = W[j] /\ Tushare!Call(P[i], W[j], 1..LastDay).days = 1..LastDay
  <2> SUFFICES ASSUME NEW i \in DOMAIN P, NEW j \in DOMAIN W
               PROVE  /\ Tushare!Call(P[i], W[j], 1..LastDay) \in TUCall(V)
                      /\ Tushare!Call(P[i], W[j], 1..LastDay).variant = P[i]
                      /\ Tushare!Call(P[i], W[j], 1..LastDay).codes = W[j]
                      /\ Tushare!Call(P[i], W[j], 1..LastDay).days = 1..LastDay
    OBVIOUS
  <2>1. P[i] \in V
    BY <1>5
  <2>2. W[j] \in SUBSET Codes
    BY <1>3
  <2> QED BY <2>1, <2>2 DEF Tushare!Call, TUCall
<1>7. /\ lists \in Seq(Seq(TUCall(V))) /\ DOMAIN lists = DOMAIN P
      /\ \A i \in DOMAIN P : DOMAIN lists[i] = DOMAIN W
      /\ \A i \in DOMAIN P, j \in DOMAIN W : lists[i][j] = Tushare!Call(P[i], W[j], 1..LastDay)
  <2>1. \A i \in DOMAIN P : [j \in DOMAIN W |-> Tushare!Call(P[i], W[j], 1..LastDay)] \in Seq(TUCall(V))
    <3> SUFFICES ASSUME NEW i \in DOMAIN P
                 PROVE  [j \in DOMAIN W |-> Tushare!Call(P[i], W[j], 1..LastDay)] \in Seq(TUCall(V))
      OBVIOUS
    <3>1. [j \in 1..N |-> Tushare!Call(P[i], W[j], 1..LastDay)] \in [1..N -> TUCall(V)]
      BY <1>2, <1>6
    <3> QED BY <1>2, <3>1
  <2>2. lists \in [1..M -> Seq(TUCall(V))]
    BY <1>5, <2>1
  <2>3. lists \in Seq(Seq(TUCall(V))) /\ DOMAIN lists = 1..M
    <3> HIDE DEF lists
    <3> QED BY <2>2
  <2> QED BY <1>5, <2>3
<1> HIDE DEF lists
<1>8. list \in Seq(TUCall(V))
  BY <1>1, <1>7, FlattenOrdered
<1>9. \A i \in DOMAIN lists : \A j \in DOMAIN lists[i] : \E m \in DOMAIN list : list[m] = lists[i][j]
  BY <1>1, <1>7, FlattenOrdered
<1>10. \A m \in DOMAIN FlattenSeq(lists) : \E i, j : FlatBefore(FlattenSeq(lists), lists, Len(lists), m, i, j)
  BY <1>7, FlattenOrdered
<1>11. ASSUME NEW m \in DOMAIN list PROVE list[m].codes \subseteq codes
  <2>1. PICK i, j : FlatBefore(list, lists, Len(lists), m, i, j)
    BY <1>1, <1>10
  <2>2. i \in 1..Len(lists) /\ j \in DOMAIN lists[i] /\ list[m] = lists[i][j]
    BY <2>1 DEF FlatBefore
  <2>3. i \in DOMAIN P
    BY <1>7, <2>2
  <2>4. list[m].codes = W[j] /\ j \in DOMAIN W
    BY <1>6, <1>7, <2>2, <2>3
  <2> QED BY <1>3, <2>4
<1>12. ASSUME NEW x \in V, NEW c \in codes, NEW d \in 1..LastDay PROVE TUAsked(list, x, c, d)
  <2>1. PICK i \in DOMAIN P : P[i] = x
    BY <1>5
  <2>2. PICK j \in DOMAIN W : c \in W[j]
    BY <1>4
  <2>3. PICK m \in DOMAIN list : list[m] = Tushare!Call(P[i], W[j], 1..LastDay)
    BY <1>7, <1>9
  <2>4. TUCovers(list[m], x, c, d)
    <3>1. list[m].variant = x /\ list[m].codes = W[j] /\ list[m].days = 1..LastDay
      BY <1>6, <2>1, <2>3
    <3> QED BY <2>2, <3>1 DEF TUCovers
  <2> QED BY <2>4 DEF TUAsked
<1> QED BY <1>8, <1>11, <1>12 DEF TUPlanned

\* What a task asks for.
TUGapless == TUPlain => \A c \in Codes : TUSaved(TUScope(spec.mode, local, c))

\* Whatever its mode, the plan of a task asks for every row of its window that is not saved, in
\* a safe order.
LEMMA TUExecute ==
  ASSUME TUTyped, run.pc # "idle", NEW codes \in SUBSET Codes, NEW list, list = Tushare!ExecuteTask(codes),
         Tushare!NeedsCodes /\ codes # {} => local # {},
         Tushare!NeedsCodes /\ codes = {} => local = {} /\ spec.mode # "snapshot",
         ~Tushare!NeedsCodes => codes = Codes,
         NEW target, target = IF codes = {} THEN Codes ELSE codes
  PROVE  /\ list \in Seq(TUCall(spec.variants))
         /\ TUFits(list, target)
         /\ TUGapless => TUPlanned(list, target)
         /\ TUGapless /\ TUPlain /\ (spec.mode = "date_slice" \/ Cardinality(spec.variants) = 1) =>
               TUChained(list, table, spec.variants)
<1>1. CASE spec.mode = "code_range" /\ codes # {}
  <2>1. list = Tushare!CodeCalls(codes)
    BY <1>1 DEF Tushare!ExecuteTask
  <2>2. target = codes /\ \A c : TUScope(spec.mode, local, c) = {c}
    BY <1>1 DEF TUScope, Tushare!NeedsCodes
  <2>3. list \in Seq(TUCall(spec.variants))
    BY <2>1, TUCodeCalls
  <2>4. \A i \in DOMAIN list : (\E c \in codes : list[i].codes = {c}) /\ list[i].days \subseteq 1..run.end
    BY <2>1, TUCodeCalls
  <2>5. TUGapless => \A c \in codes : TUSaved({c})
    BY <1>1, <2>2 DEF TUGapless, TUPlain
  <2>6. TUGapless => TUPlanned(list, target)
    BY <2>1, <2>2, <2>5, TUCodeCalls
  <2>7. TUGapless /\ Cardinality(spec.variants) = 1 => TUChained(list, table, spec.variants)
    BY <2>1, <2>5, TUCodeCalls
  <2>8. TUFits(list, target)
    <3>1. ASSUME NEW i \in DOMAIN list
          PROVE  /\ list[i].codes \subseteq target /\ list[i].days \subseteq 1..run.end
                 /\ \A c \in list[i].codes : list[i].codes = TUScope(spec.mode, local, c)
      <4>1. PICK k \in codes : list[i].codes = {k}
        BY <2>4
      <4>2. TUScope(spec.mode, local, k) = {k} /\ k \in target
        BY <2>2
      <4>3. list[i].days \subseteq 1..run.end
        BY <2>4
      <4> QED BY <4>1, <4>2, <4>3
    <3> QED BY <3>1 DEF TUFits
  <2> QED BY <1>1, <2>3, <2>6, <2>7, <2>8
<1>2. CASE spec.mode = "snapshot"
  <2>1. list = Tushare!SnapshotCalls(codes)
    BY <1>2 DEF Tushare!ExecuteTask
  <2>2. codes # {} /\ target = codes
    BY <1>2 DEF Tushare!NeedsCodes
  <2>3. ~TUPlain
    BY <1>2 DEF TUPlain
  <2>4. list \in Seq(TUCall(spec.variants))
    BY <2>1, <2>2, TUSnapshot
  <2>5. \A i \in DOMAIN list : list[i].codes \subseteq codes
    BY <2>1, <2>2, TUSnapshot
  <2>6. TUFits(list, target)
    BY <2>2, <2>3, <2>5 DEF TUFits
  <2>7. TUPlanned(list, target)
    BY <2>1, <2>2, TUSnapshot
  <2> QED BY <2>3, <2>4, <2>6, <2>7
<1>3. CASE spec.mode = "date_slice"
  <2>1. list = Tushare!SliceCalls
    BY <1>3 DEF Tushare!ExecuteTask
  <2>2. target = Codes /\ \A c : TUScope(spec.mode, local, c) = Codes
    BY <1>3 DEF TUScope, Tushare!NeedsCodes
  <2>3. TUGapless => TUSaved(Codes)
    BY <1>3, <2>2 DEF TUGapless, TUPlain, TUSaved
  <2>4. list \in Seq(TUCall(spec.variants))
    BY <2>1, TUSlice
  <2>5. \A i \in DOMAIN list : list[i].codes = Codes /\ list[i].days \subseteq 1..run.end
    BY <2>1, TUSlice
  <2>6. TUGapless => TUPlanned(list, target)
    BY <2>1, <2>2, <2>3, TUSlice
  <2>7. TUGapless => TUChained(list, table, spec.variants)
    BY <2>1, <2>3, TUSlice
  <2>8. TUFits(list, target)
    BY <2>2, <2>5 DEF TUFits
  <2> QED BY <2>4, <2>6, <2>7, <2>8
<1>4. CASE ~(spec.mode = "code_range" /\ codes # {}) /\ spec.mode # "snapshot" /\ spec.mode # "date_slice"
  <2>1. list = Tushare!RangeCalls(Codes)
    BY <1>4 DEF Tushare!ExecuteTask
  <2>2. target = Codes /\ \A c : TUScope(spec.mode, local, c) = Codes
    BY <1>4 DEF TUScope, Tushare!NeedsCodes
  <2>3. TUGapless => TUSaved(Codes)
    BY <1>4, <2>2 DEF TUGapless, TUPlain, TUSaved
  <2>4. list \in Seq(TUCall(spec.variants))
    BY <2>1, TURange
  <2>5. \A i \in DOMAIN list : list[i].codes = Codes /\ list[i].days \subseteq 1..run.end
    BY <2>1, TURange
  <2>6. TUGapless => TUPlanned(list, target)
    BY <2>1, <2>2, <2>3, TURange
  <2>7. TUGapless /\ Cardinality(spec.variants) = 1 => TUChained(list, table, spec.variants)
    BY <2>1, <2>3, TURange
  <2>8. TUFits(list, target)
    BY <2>2, <2>5 DEF TUFits
  <2> QED BY <1>4, <2>4, <2>6, <2>7, <2>8
<1> QED BY <1>1, <1>2, <1>3, <1>4

--------------------------------------------------------------------------------
(* Steps outside the work on a task. *)

\* The more is known of the universe, the fewer rows a cursor speaks for, and the further back
\* it may be.
LEMMA TUNarrower ==
  ASSUME NEW T, NEW V, NEW mode, NEW known, NEW more, known \subseteq more, NEW c \in Codes
  PROVE  /\ TUBehind(T, V, mode, known, c) \in 0..LastDay /\ TUBehind(T, V, mode, more, c) \in 0..LastDay
         /\ TUBehind(T, V, mode, more, c) <= TUBehind(T, V, mode, known, c)
<1>1. TUScope(mode, more, c) \subseteq TUScope(mode, known, c)
  BY DEF TUScope
<1>2. PICK m, n : m = TUBehind(T, V, mode, more, c) /\ n = TUBehind(T, V, mode, known, c)
  OBVIOUS
<1>3. /\ m \in 0..LastDay /\ n \in 0..LastDay
      /\ m # 0 => \E x \in V, y \in TUScope(mode, more, c) : T[<<x, y, m>>] # "none"
  BY <1>2, TUCursorDay DEF TUBehind
<1>4. \A x \in V, y \in TUScope(mode, known, c), d \in 1..LastDay : T[<<x, y, d>>] # "none" => d <= n
  BY <1>2, TUCursorDay DEF TUBehind
<1>5. m <= n
  <2>1. CASE m = 0
    BY <1>3, <2>1, ProviderAssumption
  <2>2. CASE m # 0
    <3>1. m \in 1..LastDay
      BY <1>3, <2>2, ProviderAssumption
    <3> QED BY <1>1, <1>3, <1>4, <2>2, <3>1
  <2> QED BY <2>1, <2>2
<1> QED BY <1>2, <1>3, <1>5

\* What is behind the cursor of one code is behind the cursor of all codes.
LEMMA TUBehindMore ==
  ASSUME NEW T, NEW V, NEW mode, NEW known, NEW more, known \subseteq more, NEW c \in Codes, NEW d \in 1..LastDay,
         d < TUBehind(T, V, mode, more, c)
  PROVE  d < TUBehind(T, V, mode, known, c)
<1>1. PICK m : m = TUBehind(T, V, mode, more, c)
  OBVIOUS
<1>2. PICK n : n = TUBehind(T, V, mode, known, c)
  OBVIOUS
<1>3. m \in 0..LastDay /\ n \in 0..LastDay /\ m <= n
  BY <1>1, <1>2, TUNarrower
<1>4. LastDay \in Nat
  BY ProviderAssumption
<1>5. d < m
  BY <1>1
<1>6. d < n
  BY <1>3, <1>4, <1>5
<1> QED BY <1>2, <1>6

\* A step after which the task is not at work keeps the invariant, if it tells when it cuts a
\* response or leaves requests unanswered.
LEMMA TUOff ==
  ASSUME TUInvariant, UNCHANGED <<today, spec, table>>, local \subseteq local', TUTyped', TUPhase',
         run'.pc \notin {"save", "more"},
         run'.pc = "fetch" => Head(run'.tasks) # "task" \/ run'.resolving,
         "mid response" \notin stops' => "mid response" \notin stops /\ run.pc # "more",
         stops' = {} => stops = {} /\ \A x, c, d : ~TUPending(run, x, c, d)
  PROVE  TUInvariant'
<1>1. ~TUWorking(run)' /\ ~TUSaving(run)'
  BY DEF TUWorking, TUSaving
<1>2. TUShaped' /\ TUAnswer' /\ TUChain' /\ TUTask'
  BY <1>1 DEF TUShaped, TUFits, TUAnswer, TUChain, TUTask
<1>3. TUDated'
  BY <1>1 DEF TUInvariant, TUDated
<1>4. \A c \in Codes, d \in 1..LastDay :
         d < TUBehind(table, spec.variants, spec.mode, local', c) => d < TUBehind(table, spec.variants, spec.mode, local, c)
  BY TUBehindMore
<1>5. TUNoGap'
  <2> SUFFICES ASSUME (TUOne /\ TUPlain)', NEW x \in spec.variants, NEW c \in Codes, NEW d \in 1..LastDay,
                      d < TUBehind(table, spec.variants, spec.mode, local', c)
               PROVE  table[<<x, c, d>>] = "final"
    BY DEF TUNoGap
  <2>1. TUOne /\ TUPlain /\ run.pc # "more"
    BY DEF TUOne, TUPlain
  <2> QED BY <1>4, <2>1 DEF TUInvariant, TUNoGap
<1>6. TUPromise'
  <2> SUFFICES ASSUME stops' = {}, TUPlain', NEW x \in spec.variants, NEW c \in Codes, NEW d \in 1..LastDay,
                      d < TUBehind(table, spec.variants, spec.mode, local', c)
               PROVE  table[<<x, c, d>>] = "final"
    BY DEF TUPromise
  <2>1. stops = {} /\ TUPlain /\ ~TUPending(run, x, c, d)
    BY DEF TUPlain
  <2> QED BY <1>4, <2>1 DEF TUInvariant, TUPromise
<1> QED BY <1>2, <1>3, <1>5, <1>6 DEF TUInvariant

\* The next task of a batch, or none.
LEMMA TUNext ==
  ASSUME TUTyped, TUPhase, run.pc # "idle", NEW r, r = Tushare!NextTask(run)
  PROVE  \/ r = Tushare!Idle
         \/ /\ r \in TURun(spec.variants) /\ r.pc = "task" /\ r.tasks # <<>>
            /\ r.end = run.end /\ r.day = run.day /\ ~r.resolving /\ ~r.failed
<1>1. run \in TURun(spec.variants) /\ run.tasks # <<>>
  BY TURunning DEF TUPhase
<1> SUFFICES ASSUME Len(run.tasks) # 1
             PROVE  /\ r \in TURun(spec.variants) /\ r.pc = "task" /\ r.tasks # <<>>
                    /\ r.end = run.end /\ r.day = run.day /\ ~r.resolving /\ ~r.failed
  BY DEF Tushare!NextTask
<1>2. run.tasks \in Seq({"task", "source"})
  BY <1>1 DEF TURun
<1>3. PICK rest \in Seq({"task", "source"}) : rest = Tail(run.tasks) /\ rest # <<>>
  <2>1. Tail(run.tasks) \in Seq({"task", "source"})
    BY <1>1, <1>2, ListEnds
  <2>2. Len(Tail(run.tasks)) = Len(run.tasks) - 1 /\ Len(run.tasks) \in Nat /\ Len(run.tasks) # 0
    BY <1>1, <1>2
  <2>3. Tail(run.tasks) # <<>>
    <3>1. Len(Tail(run.tasks)) # 0
      BY <2>2
    <3>2. Len(<<>>) = 0
      OBVIOUS
    <3> QED BY <3>1, <3>2
  <2> QED BY <2>1, <2>3
<1>4. PICK none \in Seq(TUCall(spec.variants)) : none = <<>>
  <2>1. <<>> \in Seq(TUCall(spec.variants))
    OBVIOUS
  <2> QED BY <2>1
<1>5. PICK no \in BOOLEAN : no = FALSE
  OBVIOUS
<1>6. PICK zero \in Int : zero = 0
  OBVIOUS
<1>7. PICK nothing \in SUBSET (spec.variants \X Codes \X (1..LastDay)) : nothing = {}
  OBVIOUS
<1>8. r = [run EXCEPT !.pc = "task", !.tasks = rest, !.calls = none, !.rows = nothing,
                      !.resolving = no, !.failed = no, !.tries = zero]
  BY <1>3, <1>4, <1>5, <1>6, <1>7 DEF Tushare!NextTask
<1>9. r \in TURun(spec.variants)
  BY <1>1, <1>8, ZenonT(60) DEF TURun
<1>10. r.pc = "task" /\ r.tasks = rest /\ r.end = run.end /\ r.day = run.day /\ r.resolving = no /\ r.failed = no
  BY <1>1, <1>8 DEF TURun
<1> QED BY <1>3, <1>5, <1>9, <1>10

\* The end of a task keeps the invariant.
LEMMA TUEnded ==
  ASSUME TUInvariant, run.pc # "idle", UNCHANGED <<today, spec, table, local>>, cache' \in SUBSET local,
         run' = Tushare!Idle \/ run' = Tushare!NextTask(run),
         "mid response" \notin stops' => "mid response" \notin stops /\ run.pc # "more",
         stops' = {} => stops = {} /\ \A x, c, d : ~TUPending(run, x, c, d)
  PROVE  TUInvariant'
<1>1. \/ run' = Tushare!Idle
      \/ /\ run' \in TURun(spec.variants) /\ run'.pc = "task" /\ run'.tasks # <<>>
         /\ run'.end = run.end /\ run'.day = run.day /\ ~run'.resolving /\ ~run'.failed
  BY TUNext DEF TUInvariant
<1>2. Tushare!Idle.pc = "idle"
  BY DEF Tushare!Idle
<1>3. TUTyped'
  BY <1>1 DEF TUInvariant, TUTyped, Tushare!Idle
<1>4. TUPhase'
  <2>1. run.end <= run.day /\ run.day <= today
    BY DEF TUInvariant, TUPhase
  <2>2. CASE run' = Tushare!Idle
    BY <1>2, <2>2 DEF TUPhase
  <2>3. CASE run' # Tushare!Idle
    <3>1. ~TUWorking(run)' /\ ~TUSaving(run)'
      BY <1>1, <2>3 DEF TUWorking, TUSaving
    <3> QED BY <1>1, <2>1, <2>3, <3>1 DEF TUPhase
  <2> QED BY <2>2, <2>3
<1>5. run'.pc \in {"idle", "task"}
  BY <1>1, <1>2
<1> QED BY <1>3, <1>4, <1>5, TUOff

\* The request at the head of a list at work.
LEMMA TUHead ==
  ASSUME TUInvariant, TUWorking(run), run.calls # <<>>
  PROVE  /\ run.calls \in Seq(TUCall(spec.variants)) /\ Head(run.calls) \in TUCall(spec.variants)
         /\ Head(run.calls).of = "task" /\ Tail(run.calls) \in Seq(TUCall(spec.variants))
<1>1. run.calls \in Seq(TUCall(spec.variants))
  BY DEF TUInvariant, TUPhase, TUWorking
<1>2. Head(run.calls) \in TUCall(spec.variants) /\ Tail(run.calls) \in Seq(TUCall(spec.variants))
  BY <1>1, ListEnds
<1>3. Head(run.calls).of = "task"
  BY <1>2 DEF TUCall
<1> QED BY <1>1, <1>2, <1>3

\* Nothing is asked for by a task that is not at work or has no requests left.
LEMMA TUIdlePending == ASSUME ~TUWorking(run) \/ run.calls = <<>> PROVE \A x, c, d : ~TUPending(run, x, c, d)
<1>1. DOMAIN <<>> = {}
  OBVIOUS
<1> QED BY <1>1 DEF TUPending, TUAsked

\* While a source is asked for, the task is not at work.
LEMMA TUSourceOff == ASSUME TUInvariant, run.calls # <<>>, Head(run.calls).of # "task" PROVE ~TUWorking(run)
BY TUHead

\* What is cut short is told.
LEMMA TUCut ==
  ASSUME TUInvariant, run.pc \in {"fetch", "save", "more"}, run.calls # <<>>, NEW kd, Tushare!CutShort(kd)
  PROVE  /\ "mid response" \notin stops' => "mid response" \notin stops /\ run.pc # "more"
         /\ stops' = {} => stops = {} /\ \A x, c, d : ~TUPending(run, x, c, d)
         /\ Head(run.calls).of = "task" => stops' # {}
         /\ stops # {} => stops' # {}
<1>1. CASE Head(run.calls).of = "source"
  <2>1. stops' = stops
    BY <1>1 DEF Tushare!CutShort
  <2>2. ~TUWorking(run)
    BY <1>1, TUSourceOff
  <2>3. run.pc # "more"
    BY <2>2 DEF TUInvariant, TUPhase, TUSaving
  <2> QED BY <1>1, <2>1, <2>2, <2>3, TUIdlePending
<1>2. CASE Head(run.calls).of # "source"
  <2>1. stops' = stops \union {kd} \union (IF run.pc = "more" THEN {"mid response"} ELSE {})
    BY <1>2 DEF Tushare!CutShort
  <2>2. stops' # {}
    BY <2>1
  <2>3. "mid response" \notin stops' => "mid response" \notin stops /\ run.pc # "more"
    BY <2>1
  <2> QED BY <2>2, <2>3
<1> QED BY <1>1, <1>2

\* StartRun keeps the invariant.
LEMMA TUStartRun ==
  ASSUME TUInvariant, NEW b \in Tushare!Batches, NEW o \in Tushare!Options, NEW e \in Tushare!Days, Tushare!StartRun(b, o, e)
  PROVE  TUInvariant'
<1>1. /\ run.pc = "idle" /\ e <= today /\ cache' = {} /\ UNCHANGED <<today, spec, table, local, stops>>
      /\ run' = [pc |-> "task", tasks |-> b, opts |-> o, end |-> e, day |-> today,
                 codes |-> {}, calls |-> <<>>, rows |-> {}, resolving |-> FALSE,
                 failed |-> FALSE, used |-> 0, tries |-> 0, asked |-> today, partial |-> FALSE]
  BY DEF Tushare!StartRun
<1>2. b \in Seq({"task", "source"}) /\ b # <<>>
  <2>1. /\ <<"task">> \in Seq({"task", "source"}) /\ <<"task">> # <<>>
        /\ <<"task", "source", "task">> \in Seq({"task", "source"}) /\ <<"task", "source", "task">> # <<>>
    OBVIOUS
  <2> QED BY <2>1 DEF Tushare!Batches
<1>3. o \in [resume : BOOLEAN, force : BOOLEAN, goOn : BOOLEAN]
  BY DEF Tushare!Options
<1>4. e \in 1..LastDay /\ today \in 1..LastDay
  BY DEF Tushare!Days, TUInvariant, TUTyped
<1>5. PICK none \in Seq(TUCall(spec.variants)) \union {<<[of |-> "source"]>>} : none = <<>>
  <2>1. <<>> \in Seq(TUCall(spec.variants))
    OBVIOUS
  <2> QED BY <2>1
<1>6. PICK no \in BOOLEAN : no = FALSE
  OBVIOUS
<1>7. PICK zero \in Int : zero = 0
  OBVIOUS
<1>8. PICK nothing \in SUBSET (spec.variants \X Codes \X (1..LastDay)) : nothing = {}
  OBVIOUS
<1>9. PICK nobody \in SUBSET Codes : nobody = {}
  OBVIOUS
<1>10. run' = [pc |-> "task", tasks |-> b, opts |-> o, end |-> e, day |-> today,
               codes |-> nobody, calls |-> none, rows |-> nothing, resolving |-> no,
               failed |-> no, used |-> zero, tries |-> zero, asked |-> today, partial |-> no]
  BY <1>1, <1>5, <1>6, <1>7, <1>8, <1>9
<1>11. run' \in TURun(spec.variants)
  BY <1>2, <1>3, <1>4, <1>10 DEF TURun
<1>12. /\ run'.pc = "task" /\ run'.tasks = b /\ run'.end = e /\ run'.day = today /\ run'.resolving = FALSE
       /\ run'.failed = FALSE
  BY <1>1
<1>13. TUTyped'
  BY <1>1, <1>11 DEF TUInvariant, TUTyped
<1>14. TUPhase'
  <2>1. ~TUWorking(run)' /\ ~TUSaving(run)'
    BY <1>12 DEF TUWorking, TUSaving
  <2> QED BY <1>1, <1>2, <1>4, <1>12, <2>1 DEF TUPhase
<1>15. ~TUWorking(run)
  BY <1>1 DEF TUWorking
<1> QED BY <1>1, <1>12, <1>13, <1>14, <1>15, TUIdlePending, TUOff

\* FinishTask and FinishWithFailedCodes keep the invariant.
LEMMA TUFinish ==
  ASSUME TUInvariant, Tushare!FinishTask \/ Tushare!FinishWithFailedCodes
  PROVE  TUInvariant'
<1>1. /\ run.pc = "fetch" /\ run.calls = <<>> /\ UNCHANGED <<today, spec, table, local, stops>>
      /\ cache' \in {cache, {}} /\ run' \in {Tushare!Idle, Tushare!NextTask(run)}
  BY DEF Tushare!FinishTask, Tushare!FinishWithFailedCodes, Tushare!TaskFails
<1>2. cache' \in SUBSET local
  BY <1>1 DEF TUInvariant, TUTyped
<1> QED BY <1>1, <1>2, TUIdlePending, TUEnded

\* Killed keeps the invariant.
LEMMA TUKilled == ASSUME TUInvariant, Tushare!Killed PROVE TUInvariant'
<1>1. /\ run.pc # "idle" /\ run' = Tushare!Idle /\ UNCHANGED <<today, spec, table, local, cache>>
      /\ stops \subseteq stops'
      /\ stops' # stops => TRUE
  BY DEF Tushare!Killed
<1>2. cache' \in SUBSET local
  BY <1>1 DEF TUInvariant, TUTyped
<1>3. CASE run.pc \in {"fetch", "save", "more"} /\ run.calls # <<>> /\ Head(run.calls).of = "task"
  <2>1. stops' = stops \union {"kill"} \union (IF run.pc = "more" THEN {"mid response"} ELSE {})
    BY <1>3 DEF Tushare!Killed
  <2>2. stops' # {}
    BY <2>1
  <2>3. "mid response" \notin stops' => "mid response" \notin stops /\ run.pc # "more"
    BY <2>1
  <2> QED BY <1>1, <1>2, <2>2, <2>3, TUEnded
<1>4. CASE ~(run.pc \in {"fetch", "save", "more"} /\ run.calls # <<>> /\ Head(run.calls).of = "task")
  <2>1. stops' = stops
    BY <1>4 DEF Tushare!Killed
  <2>2. ~TUWorking(run) \/ run.calls = <<>>
    BY <1>4, TUHead DEF TUWorking
  <2>3. run.pc # "more"
    BY <2>2 DEF TUInvariant, TUPhase, TUSaving
  <2>4. \A x, c, d : ~TUPending(run, x, c, d)
    BY <2>2, TUIdlePending
  <2> QED BY <1>1, <1>2, <2>1, <2>3, <2>4, TUEnded
<1> QED BY <1>3, <1>4

\* The failure of a task keeps the invariant.
LEMMA TUTaskFails ==
  ASSUME TUInvariant, run.pc # "idle", Tushare!TaskFails, UNCHANGED <<today, spec, table, local>>, cache' \in SUBSET local,
         "mid response" \notin stops' => "mid response" \notin stops /\ run.pc # "more",
         stops' = {} => stops = {} /\ \A x, c, d : ~TUPending(run, x, c, d)
  PROVE  TUInvariant'
<1>1. run' = Tushare!Idle \/ run' = Tushare!NextTask(run)
  BY DEF Tushare!TaskFails
<1> QED BY <1>1, TUEnded

\* Asking for a universe source keeps the invariant.
LEMMA TUAskSource ==
  ASSUME TUInvariant, run.pc = "task", UNCHANGED <<today, spec, table, local, cache, stops>>,
         \/ Head(run.tasks) # "task" /\ run' = [run EXCEPT !.pc = "fetch", !.calls = Tushare!SourceCalls]
         \/ /\ Head(run.tasks) = "task" /\ Tushare!NeedsCodes
            /\ run' = [run EXCEPT !.pc = "fetch", !.calls = Tushare!SourceCalls, !.resolving = TRUE]
  PROVE  TUInvariant'
<1>1. run \in TURun(spec.variants) /\ run.tasks # <<>> /\ ~run.resolving
  BY TURunning DEF TUInvariant, TUPhase
<1>2. PICK source \in Seq(TUCall(spec.variants)) \union {<<[of |-> "source"]>>} : source = Tushare!SourceCalls
  BY DEF Tushare!SourceCalls
<1>3. PICK does \in BOOLEAN : does = (Head(run.tasks) = "task")
  OBVIOUS
<1>4. PICK no \in BOOLEAN : no = run.resolving
  BY <1>1 DEF TURun
<1>5. /\ run' \in TURun(spec.variants) /\ run'.pc = "fetch" /\ run'.calls = source /\ run'.tasks = run.tasks
      /\ run'.end = run.end /\ run'.day = run.day /\ run'.failed = run.failed
      /\ Head(run.tasks) = "task" => run'.resolving /\ Tushare!NeedsCodes
      /\ Head(run.tasks) # "task" => ~run'.resolving
  <2>1. CASE Head(run.tasks) # "task"
    <3>1. run' = [run EXCEPT !.pc = "fetch", !.calls = source]
      BY <1>2, <2>1
    <3> QED BY <1>1, <2>1, <3>1 DEF TURun
  <2>2. CASE Head(run.tasks) = "task"
    <3>1. PICK yes \in BOOLEAN : yes = TRUE
      OBVIOUS
    <3>2. run' = [run EXCEPT !.pc = "fetch", !.calls = source, !.resolving = yes]
      BY <1>2, <2>2, <3>1
    <3> QED BY <1>1, <2>2, <3>1, <3>2 DEF TURun
  <2> QED BY <2>1, <2>2
<1>6. TUTyped'
  BY <1>5 DEF TUInvariant, TUTyped
<1>7. TUPhase'
  <2>1. ~TUWorking(run)' /\ ~TUSaving(run)'
    BY <1>5 DEF TUWorking, TUSaving
  <2>2. run.end <= run.day /\ run.day <= today /\ (run.failed => stops # {})
    BY DEF TUInvariant, TUPhase
  <2> QED BY <1>1, <1>2, <1>5, <2>1, <2>2 DEF TUPhase, Tushare!NeedsCodes
<1>8. ~TUWorking(run)
  BY DEF TUWorking
<1> QED BY <1>5, <1>6, <1>7, <1>8, TUIdlePending, TUOff

\* FetchSource keeps the invariant.
LEMMA TUFetchSource ==
  ASSUME TUInvariant, NEW listed \in SUBSET Codes, NEW more \in BOOLEAN, Tushare!FetchSource(listed, more)
  PROVE  TUInvariant'
<1>1. /\ run.pc = "fetch" /\ run.calls # <<>> /\ Head(run.calls).of = "source"
      /\ local \subseteq listed /\ local' = listed /\ UNCHANGED <<today, spec, table, cache, stops>>
      /\ run' = [run EXCEPT !.used = @ + 1, !.tries = 0, !.calls = IF more THEN @ ELSE <<>>,
                            !.pc = IF run.resolving /\ ~more THEN "resolve" ELSE "fetch",
                            !.partial = IF run.resolving THEN @ ELSE more]
  BY DEF Tushare!FetchSource, Tushare!Requesting
<1>2. run \in TURun(spec.variants) /\ run.tasks # <<>>
  BY <1>1, TURunning DEF TUInvariant, TUPhase
<1>3. ~TUWorking(run)
  BY <1>1, TUSourceOff
<1>4. PICK left \in Seq(TUCall(spec.variants)) \union {<<[of |-> "source"]>>} : left = IF more THEN run.calls ELSE <<>>
  <2>1. <<>> \in Seq(TUCall(spec.variants)) /\ run.calls \in Seq(TUCall(spec.variants)) \union {<<[of |-> "source"]>>}
    BY <1>2 DEF TURun
  <2> QED BY <2>1
<1>5. PICK n \in Int : n = run.used + 1
  <2>1. run.used \in Int
    BY <1>2 DEF TURun
  <2> QED BY <2>1
<1>6. PICK zero \in Int : zero = 0
  OBVIOUS
<1>7. PICK pc \in {"resolve", "fetch"} : pc = IF run.resolving /\ ~more THEN "resolve" ELSE "fetch"
  OBVIOUS
<1>8. PICK part \in BOOLEAN : part = IF run.resolving THEN run.partial ELSE more
  <2>1. run.partial \in BOOLEAN
    BY <1>2 DEF TURun
  <2> QED BY <2>1
<1>14. run' = [run EXCEPT !.used = n, !.tries = zero, !.calls = left, !.pc = pc, !.partial = part]
  BY <1>1, <1>4, <1>5, <1>6, <1>7, <1>8
<1>9. /\ run' \in TURun(spec.variants) /\ run'.pc = pc /\ run'.calls = left /\ run'.tasks = run.tasks
      /\ run'.end = run.end /\ run'.day = run.day /\ run'.failed = run.failed /\ run'.resolving = run.resolving
  BY <1>2, <1>4, <1>14 DEF TURun
<1>15. run.calls = Tushare!SourceCalls
  BY <1>1, <1>3 DEF TUInvariant, TUPhase
<1>16. left = <<>> \/ left = Tushare!SourceCalls
  BY <1>4, <1>15
<1>17. run.resolving => (pc = "fetch" => left = Tushare!SourceCalls)
  BY <1>4, <1>7, <1>15
<1>10. TUTyped'
  BY <1>1, <1>9 DEF TUInvariant, TUTyped
<1>11. run.resolving => Head(run.tasks) = "task" /\ spec.mode \in {"code_range", "snapshot"}
  BY <1>1 DEF TUInvariant, TUPhase
<1>12. ~run.resolving => Head(run.tasks) # "task"
  BY <1>1, <1>3 DEF TUWorking
<1>13. TUPhase'
  <2>1. ~TUWorking(run)' /\ ~TUSaving(run)'
    BY <1>7, <1>9, <1>12 DEF TUWorking, TUSaving
  <2>2. run.end <= run.day /\ run.day <= today /\ (run.failed => stops # {})
    BY <1>1 DEF TUInvariant, TUPhase
  <2> QED BY <1>1, <1>2, <1>7, <1>9, <1>11, <1>16, <1>17, <2>1, <2>2 DEF TUPhase
<1> QED BY <1>1, <1>3, <1>7, <1>9, <1>10, <1>12, <1>13, TUIdlePending, TUOff

\* An error while the universe is resolved keeps the invariant.
LEMMA TURaiseResolving ==
  ASSUME TUInvariant, run.pc \in {"fetch", "save", "more"}, run.calls # <<>>, run.resolving, NEW kd, Tushare!Raise(kd)
  PROVE  TUInvariant'
<1>1. /\ run' = [run EXCEPT !.pc = "resolve", !.calls = <<>>, !.rows = {}, !.tries = 0]
      /\ UNCHANGED <<today, spec, table, local, cache>> /\ Tushare!CutShort(kd)
  BY DEF Tushare!Raise
<1>2. run \in TURun(spec.variants) /\ run.tasks # <<>> /\ Head(run.tasks) = "task"
      /\ spec.mode \in {"code_range", "snapshot"}
  BY TURunning DEF TUInvariant, TUPhase
<1>3. PICK none \in Seq(TUCall(spec.variants)) \union {<<[of |-> "source"]>>} : none = <<>>
  <2>1. <<>> \in Seq(TUCall(spec.variants))
    OBVIOUS
  <2> QED BY <2>1
<1>4. PICK nothing \in SUBSET (spec.variants \X Codes \X (1..LastDay)) : nothing = {}
  OBVIOUS
<1>5. PICK zero \in Int : zero = 0
  OBVIOUS
<1>6. run' = [run EXCEPT !.pc = "resolve", !.calls = none, !.rows = nothing, !.tries = zero]
  BY <1>1, <1>3, <1>4, <1>5
<1>7. /\ run' \in TURun(spec.variants) /\ run'.pc = "resolve" /\ run'.tasks = run.tasks
      /\ run'.end = run.end /\ run'.day = run.day /\ run'.failed = run.failed /\ run'.resolving = run.resolving
  BY <1>2, <1>6 DEF TURun
<1>8. TUTyped'
  BY <1>1, <1>7 DEF TUInvariant, TUTyped
<1>9. TUPhase'
  <2>1. ~TUWorking(run)' /\ ~TUSaving(run)'
    BY <1>7 DEF TUWorking, TUSaving
  <2>2. run.end <= run.day /\ run.day <= today /\ (run.failed => stops # {})
    BY DEF TUInvariant, TUPhase
  <2>3. stops # {} => stops' # {}
    BY <1>1, TUCut
  <2> QED BY <1>1, <1>2, <1>7, <2>1, <2>2, <2>3 DEF TUPhase
<1>10. /\ "mid response" \notin stops' => "mid response" \notin stops /\ run.pc # "more"
       /\ stops' = {} => stops = {} /\ \A x, c, d : ~TUPending(run, x, c, d)
  BY <1>1, TUCut
<1> QED BY <1>1, <1>7, <1>8, <1>9, <1>10, TUOff

\* A step that leaves the work as it is, as time passing or another attempt, keeps the
\* invariant.
LEMMA TUSameWork ==
  ASSUME TUInvariant, UNCHANGED <<spec, table, local, stops>>, TUTyped', today <= today',
         run'.pc = run.pc,
         run.pc # "idle" =>
            /\ run'.tasks = run.tasks /\ run'.opts = run.opts /\ run'.end = run.end /\ run'.day = run.day
            /\ run'.asked = run.asked /\ run'.codes = run.codes /\ run'.calls = run.calls /\ run'.rows = run.rows
            /\ run'.resolving = run.resolving /\ run'.failed = run.failed
  PROVE  TUInvariant'
<1>2. /\ (TUWorking(run)' <=> TUWorking(run)) /\ (TUSaving(run)' <=> TUSaving(run))
      /\ TUWorking(run) => run.pc # "idle"
      /\ TUSaving(run) => run.pc # "idle"
  BY DEF TUWorking, TUSaving
<1>3. today \in Int /\ today' \in Int /\ LastDay \in Nat
  BY ProviderAssumption DEF TUInvariant, TUTyped
<1>4. TUPhase'
  <2>1. CASE run.pc = "idle"
    BY <2>1 DEF TUPhase
  <2>2. CASE run.pc # "idle"
    <3>1. run.day \in Int /\ run.asked \in Int
      BY <1>3, <2>2, TURunning DEF TUInvariant
    <3>2. run.day <= today'
      BY <1>3, <2>2, <3>1 DEF TUInvariant, TUPhase
    <3>3. TUSaving(run) => run.asked <= today'
      BY <1>3, <2>2, <3>1 DEF TUInvariant, TUPhase
    <3> QED BY <1>2, <2>2, <3>2, <3>3 DEF TUInvariant, TUPhase
  <2> QED BY <2>1, <2>2
<1>5. TUShaped'
  <2>1. TUWorking(run) => TUTarget(run)' = TUTarget(run)
    BY <1>2 DEF TUTarget
  <2> QED BY <1>2, <2>1 DEF TUInvariant, TUShaped, TUFits, TUPlain
<1>6. TUDated'
  <2> SUFFICES ASSUME NEW x \in spec.variants, NEW c \in Codes, NEW d \in 1..LastDay
               PROVE  /\ table[<<x, c, d>>] # "none" => d <= today' /\ (TUSaving(run) => d <= run.asked)
                      /\ table[<<x, c, d>>] = "final" => d < today' /\ (TUSaving(run) => d < run.asked)
    BY <1>2 DEF TUDated
  <2>1. /\ table[<<x, c, d>>] # "none" => d <= today /\ (TUSaving(run) => d <= run.asked)
        /\ table[<<x, c, d>>] = "final" => d < today /\ (TUSaving(run) => d < run.asked)
    BY DEF TUInvariant, TUDated
  <2> QED BY <1>3, <2>1
<1>7. TUAnswer'
  BY <1>2 DEF TUInvariant, TUAnswer
<1>8. TUOne' = TUOne /\ TUPlain' = TUPlain
  BY DEF TUOne, TUPlain
<1>9. TUChain'
  <2> SUFFICES ASSUME TUOne, TUPlain, TUWorking(run) PROVE TUChained(run.calls, table, spec.variants)
    BY <1>2, <1>8 DEF TUChain
  <2> QED BY DEF TUInvariant, TUChain
<1>10. TUNoGap'
  BY <1>8 DEF TUInvariant, TUNoGap
<1>11. \A x, c, d : TUPending(run, x, c, d)' <=> TUPending(run, x, c, d)
  BY <1>2 DEF TUPending
<1>12. TUPromise'
  BY <1>8, <1>11 DEF TUInvariant, TUPromise
<1>13. TUTask'
  <2> SUFFICES ASSUME TUOne \/ stops = {}, TUWorking(run), ~run.failed,
                      NEW x \in spec.variants, NEW c \in TUTarget(run), NEW d \in 1..LastDay,
                      d <= run.end, d < run.day, run.opts.resume => d < run.end
               PROVE  table[<<x, c, d>>] = "final" \/ TUPending(run, x, c, d)
    BY <1>2, <1>8, <1>11 DEF TUTask, TUTarget
  <2> QED BY DEF TUInvariant, TUTask
<1> QED BY <1>4, <1>5, <1>6, <1>7, <1>9, <1>10, <1>12, <1>13 DEF TUInvariant

\* Before a plan is made nothing is missing behind any cursor.
LEMMA TUNoGaps ==
  ASSUME TUInvariant, run.pc \in {"task", "resolve"}, TUOne \/ stops = {}, TUPlain
  PROVE  \A x \in spec.variants, c \in Codes, d \in 1..LastDay :
            d < TUBehind(table, spec.variants, spec.mode, local, c) => table[<<x, c, d>>] = "final"
<1>1. \A x, c, d : ~TUPending(run, x, c, d)
  BY DEF TUPending, TUWorking
<1>2. CASE TUOne
  BY <1>2 DEF TUInvariant, TUNoGap
<1>3. CASE stops = {}
  BY <1>1, <1>3 DEF TUInvariant, TUPromise
<1> QED BY <1>2, <1>3

\* The same, of the codes each cursor stands for.
LEMMA TUGaplessNow ==
  ASSUME TUInvariant, run.pc \in {"task", "resolve"}, TUOne \/ stops = {} PROVE TUGapless
<1> SUFFICES ASSUME TUPlain, NEW k \in Codes, NEW x \in spec.variants, NEW c \in TUScope(spec.mode, local, k),
                    NEW d \in 1..LastDay,
                    d < TUCursor(table, spec.variants, TUScope(spec.mode, local, k))
             PROVE  table[<<x, c, d>>] = "final"
  BY DEF TUGapless, TUSaved
<1>1. c \in Codes /\ TUScope(spec.mode, local, c) = TUScope(spec.mode, local, k)
  BY DEF TUScope
<1>2. d < TUBehind(table, spec.variants, spec.mode, local, c)
  BY <1>1 DEF TUBehind
<1> QED BY <1>1, <1>2, TUNoGaps

\* Work keeps the invariant: the plan asks for all that is not saved, in a safe order.
LEMMA TUWork ==
  ASSUME TUInvariant, run.pc \in {"task", "resolve"}, Head(run.tasks) = "task",
         UNCHANGED <<today, spec, table, local, stops>>, cache' \in SUBSET local,
         NEW codes \in SUBSET Codes,
         Tushare!NeedsCodes /\ codes # {} => local # {},
         Tushare!NeedsCodes /\ codes = {} => local = {} /\ spec.mode # "snapshot",
         ~Tushare!NeedsCodes => codes = Codes,
         Tushare!Work(codes)
  PROVE  TUInvariant'
<1> DEFINE V == spec.variants
<1>1. PICK target : target = IF codes = {} THEN Codes ELSE codes
  OBVIOUS
<1>2. run \in TURun(V) /\ run.tasks # <<>> /\ today \in 1..LastDay /\ run.end \in 1..LastDay /\ run.day \in 1..LastDay
      /\ LastDay \in Nat /\ TUTyped
  BY TURunning DEF TUInvariant, TUPhase
<1>3. PICK list : list = Tushare!ExecuteTask(codes)
  OBVIOUS
<1>4. list \in Seq(TUCall(V))
  BY <1>2, <1>3, TUExecute
<1>5. TUFits(list, target)
  BY <1>1, <1>2, <1>3, TUExecute
<1>6. TUGapless => TUPlanned(list, target)
  BY <1>1, <1>2, <1>3, TUExecute
<1>7. TUGapless /\ TUPlain /\ (spec.mode = "date_slice" \/ Cardinality(V) = 1) => TUChained(list, table, V)
  BY <1>1, <1>2, <1>3, TUExecute
<1>8. PICK calls \in Seq(TUCall(V)) \union {<<[of |-> "source"]>>} : calls = list
  BY <1>4
<1>9. PICK no \in BOOLEAN : no = FALSE
  OBVIOUS
<1>10. PICK nothing \in SUBSET (V \X Codes \X (1..LastDay)) : nothing = {}
  OBVIOUS
<1>11. run' = [run EXCEPT !.pc = "fetch", !.codes = codes, !.calls = calls, !.resolving = no, !.day = today, !.rows = nothing]
  BY <1>3, <1>8, <1>9, <1>10 DEF Tushare!Work
<1>12. /\ run' \in TURun(V) /\ run'.pc = "fetch" /\ run'.codes = codes /\ run'.calls = list
       /\ run'.resolving = FALSE /\ run'.day = today /\ run'.tasks = run.tasks /\ run'.end = run.end
       /\ run'.opts = run.opts /\ run'.failed = run.failed
  BY <1>2, <1>8, <1>9, <1>11 DEF TURun
<1>13. TUTyped'
  BY <1>12 DEF TUInvariant, TUTyped
<1>14. TUWorking(run)' /\ ~TUSaving(run)' /\ TUTarget(run)' = target /\ ~TUSaving(run)
  BY <1>1, <1>12 DEF TUWorking, TUSaving, TUTarget
<1>15. TUPhase'
  <2>1. run.end <= today /\ (run.failed => stops # {})
    <3>1. run.end <= run.day /\ run.day <= today /\ (run.failed => stops # {})
      BY DEF TUInvariant, TUPhase
    <3> QED BY <1>2, <3>1
  <2>2. today <= today
    BY <1>2
  <2> QED BY <1>2, <1>4, <1>12, <1>14, <2>1, <2>2 DEF TUPhase
<1>16. TUShaped'
  BY <1>5, <1>12, <1>14 DEF TUShaped, TUFits, TUPlain
<1>17. TUDated'
  BY <1>14 DEF TUInvariant, TUDated
<1>18. TUAnswer'
  BY <1>14 DEF TUAnswer
<1>19. TUOne' = TUOne /\ TUPlain' = TUPlain
  BY DEF TUOne, TUPlain
<1>20. TUOne \/ stops = {} => TUGapless
  BY TUGaplessNow
<1>21. TUChain'
  <2> SUFFICES ASSUME TUOne, TUPlain PROVE TUChained(list, table, V)
    BY <1>12, <1>19 DEF TUChain
  <2>1. spec.mode = "date_slice" \/ Cardinality(V) = 1
    BY DEF TUOne
  <2> QED BY <1>7, <1>20, <2>1
<1>22. TUNoGap'
  <2> SUFFICES ASSUME TUOne, TUPlain
               PROVE  \A x \in V, c \in Codes, d \in 1..LastDay :
                         d < TUBehind(table, V, spec.mode, local, c) => table[<<x, c, d>>] = "final"
    BY <1>19 DEF TUNoGap
  <2> QED BY TUNoGaps
<1>23. TUPromise'
  <2> SUFFICES ASSUME stops = {}, TUPlain
               PROVE  \A x \in V, c \in Codes, d \in 1..LastDay :
                         d < TUBehind(table, V, spec.mode, local, c) => table[<<x, c, d>>] = "final"
    BY <1>19 DEF TUPromise
  <2> QED BY TUNoGaps
<1>24. TUTask'
  <2> SUFFICES ASSUME TUOne \/ stops = {}, NEW x \in V, NEW c \in target, NEW d \in 1..LastDay,
                      d <= run.end, run.opts.resume => d < run.end
               PROVE  table[<<x, c, d>>] = "final" \/ TUPending(run', x, c, d)
    BY <1>12, <1>14, <1>19 DEF TUTask
  <2>1. table[<<x, c, d>>] = "final" \/ TUAsked(list, x, c, d)
    BY <1>6, <1>20 DEF TUPlanned
  <2> QED BY <1>12, <1>14, <2>1 DEF TUPending, TUWorking
<1> QED BY <1>13, <1>15, <1>16, <1>17, <1>18, <1>21, <1>22, <1>23, <1>24 DEF TUInvariant

\* BeginTask keeps the invariant.
LEMMA TUBeginTask == ASSUME TUInvariant, Tushare!BeginTask PROVE TUInvariant'
<1>1. run.pc = "task" /\ UNCHANGED <<today, spec, table, local, stops>>
  BY DEF Tushare!BeginTask
<1>2. cache \in SUBSET local /\ local \in SUBSET Codes
  BY DEF TUInvariant, TUTyped
<1>3. CASE Head(run.tasks) = "source" /\ run' = [run EXCEPT !.pc = "fetch", !.calls = Tushare!SourceCalls] /\ UNCHANGED cache
  BY <1>1, <1>3, TUAskSource
<1>4. CASE Head(run.tasks) = "task" /\ ~Tushare!NeedsCodes /\ Tushare!Work(Codes) /\ UNCHANGED cache
  BY <1>1, <1>2, <1>4, TUWork
<1>5. CASE /\ Head(run.tasks) = "task" /\ Tushare!NeedsCodes /\ cache \union local # {}
           /\ cache' = IF cache = {} THEN local ELSE cache
           /\ Tushare!Work(cache')
  <2>1. cache' \in SUBSET local /\ cache' # {} /\ local # {} /\ cache' \in SUBSET Codes
    BY <1>2, <1>5
  <2> QED BY <1>1, <1>5, <2>1, TUWork
<1>6. CASE /\ Head(run.tasks) = "task" /\ Tushare!NeedsCodes
           /\ run' = [run EXCEPT !.pc = "fetch", !.calls = Tushare!SourceCalls, !.resolving = TRUE] /\ UNCHANGED cache
  BY <1>1, <1>6, TUAskSource
<1> QED BY <1>3, <1>4, <1>5, <1>6 DEF Tushare!BeginTask

\* ResolveUniverse keeps the invariant.
LEMMA TUResolve == ASSUME TUInvariant, Tushare!ResolveUniverse PROVE TUInvariant'
<1>1. run.pc = "resolve" /\ cache' = local /\ UNCHANGED <<today, spec, table, local, stops>>
  BY DEF Tushare!ResolveUniverse
<1>2. run.resolving /\ Head(run.tasks) = "task" /\ local \in SUBSET Codes /\ Tushare!NeedsCodes
  BY <1>1 DEF TUInvariant, TUPhase, TUTyped, Tushare!NeedsCodes
<1>3. CASE local = {} /\ (spec.required \/ spec.mode = "snapshot")
  <2>1. Tushare!TaskFails
    BY <1>3 DEF Tushare!ResolveUniverse
  <2>2. \A x, c, d : ~TUPending(run, x, c, d)
    BY <1>1 DEF TUPending, TUWorking
  <2> QED BY <1>1, <2>1, <2>2, TUTaskFails
<1>4. CASE ~(local = {} /\ (spec.required \/ spec.mode = "snapshot"))
  <2>1. Tushare!Work(local)
    BY <1>4 DEF Tushare!ResolveUniverse
  <2>2. cache' \in SUBSET local
    BY <1>1
  <2>3. local = {} => spec.mode # "snapshot"
    BY <1>4
  <2> QED BY <1>1, <1>2, <2>1, <2>2, <2>3, TUWork
<1> QED BY <1>3, <1>4

--------------------------------------------------------------------------------
(* The work on a task. *)

\* A member of the tail of a list is the next one of the list.
LEMMA TailMembers ==
  ASSUME NEW S, NEW list \in Seq(S), list # <<>>, NEW k \in DOMAIN Tail(list)
  PROVE  k \in Nat /\ k + 1 \in DOMAIN list /\ Tail(list)[k] = list[k + 1]
OBVIOUS

\* A member of a list is its head, or one before in its tail.
LEMMA TailIndex ==
  ASSUME NEW S, NEW list \in Seq(S), list # <<>>, NEW i \in DOMAIN list
  PROVE  /\ i = 1 => list[i] = Head(list)
         /\ i # 1 => i - 1 \in DOMAIN Tail(list) /\ Tail(list)[i - 1] = list[i]
         /\ i \in Nat
OBVIOUS

\* When all rows of the first request are saved, the order of the others is still a safe one.
LEMMA TUTailChained ==
  ASSUME NEW V, NEW calls \in Seq(TUCall(V)), calls # <<>>, NEW T, NEW U, NEW bound \in Int, TUChained(calls, T, V),
         \A x \in V, c \in Codes, d \in 1..LastDay : T[<<x, c, d>>] = "final" => U[<<x, c, d>>] = "final",
         \A x \in V, c \in Codes, d \in 1..LastDay : TUCovers(Head(calls), x, c, d) /\ d < bound => U[<<x, c, d>>] = "final",
         \A i \in DOMAIN calls : \A e \in calls[i].days : e \in Int /\ e <= bound
  PROVE  TUChained(Tail(calls), U, V)
<1> DEFINE rest == Tail(calls)
<1>1. SUFFICES ASSUME NEW j \in DOMAIN rest, NEW x \in V, NEW d \in 1..LastDay, NEW c \in rest[j].codes, NEW e \in rest[j].days,
                      d < e, U[<<x, c, d>>] # "final"
               PROVE  \E i \in DOMAIN rest : i <= j /\ TUCovers(rest[i], x, c, d)
  BY DEF TUChained
<1>2. j \in Nat /\ j + 1 \in DOMAIN calls /\ rest[j] = calls[j + 1]
  BY TailMembers
<1>3. c \in Codes /\ T[<<x, c, d>>] # "final"
  <2>1. c \in Codes
    <3>1. calls[j + 1] \in TUCall(V)
      BY <1>2
    <3>2. calls[j + 1].codes \in SUBSET Codes
      BY <3>1 DEF TUCall
    <3> QED BY <1>1, <1>2, <3>2
  <2> QED BY <1>1, <2>1
<1>4. \E i \in DOMAIN calls : i <= j + 1 /\ TUCovers(calls[i], x, c, d)
  BY <1>1, <1>2, <1>3 DEF TUChained
<1>5. PICK i \in DOMAIN calls : i <= j + 1 /\ TUCovers(calls[i], x, c, d)
  BY <1>4
<1>6. e \in Int /\ e <= bound /\ d \in Int /\ LastDay \in Nat
  BY <1>2, ProviderAssumption
<1>7. d < bound
  BY <1>1, <1>6
<1>8. i # 1
  <2>1. CASE i = 1
    <3>1. calls[i] = Head(calls)
      BY <2>1, TailIndex
    <3> QED BY <1>1, <1>3, <1>5, <1>7, <3>1
  <2> QED BY <2>1
<1>9. i \in Nat /\ i - 1 \in DOMAIN rest /\ rest[i - 1] = calls[i]
  BY <1>8, TailIndex
<1>10. i - 1 <= j
  BY <1>2, <1>5, <1>9
<1> QED BY <1>5, <1>9, <1>10

\* A request asks for days up to the end of the window.
LEMMA TUDaysBefore ==
  ASSUME TUInvariant, TUWorking(run), TUPlain, NEW i \in DOMAIN run.calls, NEW e \in run.calls[i].days
  PROVE  e \in Int /\ e <= run.end /\ run.end \in 1..LastDay /\ run.end <= run.day /\ LastDay \in Nat
<1>1. run.pc # "idle"
  BY DEF TUWorking
<1>2. run.end \in 1..LastDay /\ LastDay \in Nat
  BY <1>1, TURunning DEF TUInvariant
<1>3. e \in 1..run.end
  BY DEF TUInvariant, TUShaped, TUFits
<1>4. run.end <= run.day
  BY <1>1 DEF TUInvariant, TUPhase
<1> QED BY <1>2, <1>3, <1>4

\* A step that saves some rows of the first request, or drops the request when all that came
\* are saved, keeps the invariant.
LEMMA TUAdvance ==
  ASSUME TUInvariant, TUWorking(run), run.calls # <<>>, UNCHANGED <<today, spec, local, stops>>, TUTyped',
         run'.pc \in {"fetch", "save", "more"},
         run'.tasks = run.tasks /\ run'.opts = run.opts /\ run'.end = run.end /\ run'.day = run.day,
         run'.codes = run.codes /\ run'.resolving = run.resolving /\ run'.failed = run.failed,
         run.day <= run'.asked, run'.asked <= today, run'.asked \in 1..LastDay,
         \/ run'.calls = run.calls
         \/ /\ run'.calls = Tail(run.calls) /\ run'.pc = "fetch"
            /\ \A x \in spec.variants, c \in Codes, d \in 1..LastDay :
                  TUCovers(Head(run.calls), x, c, d) /\ d < run'.asked => table'[<<x, c, d>>] = "final",
         \A x \in spec.variants, c \in Codes, d \in 1..LastDay : table[<<x, c, d>>] = "final" => table'[<<x, c, d>>] = "final",
         \A c \in Codes, d \in 1..LastDay :
            d < TUBehind(table', spec.variants, spec.mode, local, c) =>
               /\ d < run'.asked
               /\ TUPlain => \/ d < TUBehind(table, spec.variants, spec.mode, local, c)
                             \/ d < run.end /\ c \in TUTarget(run),
         TUDated', TUAnswer', TUNoGap'
  PROVE  TUInvariant'
<1> DEFINE V == spec.variants
<1>1. /\ run.calls \in Seq(TUCall(V)) /\ Tail(run.calls) \in Seq(TUCall(V)) /\ run.pc # "idle"
  BY TUHead DEF TUWorking
<1>2. run'.calls \in Seq(TUCall(V))
  BY <1>1
<1>3. TUWorking(run)' /\ TUTarget(run)' = TUTarget(run) /\ run'.pc # "idle"
  BY DEF TUWorking, TUTarget
<1>4. TUPhase'
  <2>1. TUSaving(run)' => run'.calls # <<>>
    BY DEF TUSaving
  <2>2. /\ run.tasks # <<>> /\ run.end <= run.day /\ run.day <= today
        /\ run.failed => stops # {}
        /\ ~run.resolving
    BY <1>1 DEF TUInvariant, TUPhase, TUWorking
  <2>3. run'.pc # "resolve"
    OBVIOUS
  <2> QED BY <1>2, <1>3, <2>1, <2>2, <2>3 DEF TUPhase
<1>5. TUOne' = TUOne /\ TUPlain' = TUPlain
  BY DEF TUOne, TUPlain
<1>6. TUShaped'
  <2>1. \A i \in DOMAIN run.calls :
            /\ run.calls[i].codes \subseteq TUTarget(run)
            /\ TUPlain => /\ run.calls[i].days \subseteq 1..run.end
                          /\ \A c \in run.calls[i].codes : run.calls[i].codes = TUScope(spec.mode, local, c)
    BY DEF TUInvariant, TUShaped, TUFits
  <2>2. \A i \in DOMAIN run'.calls : \E k \in DOMAIN run.calls : run'.calls[i] = run.calls[k]
    <3>1. CASE run'.calls = run.calls
      BY <3>1
    <3>2. CASE run'.calls = Tail(run.calls)
      BY <1>1, <3>2, TailMembers
    <3> QED BY <3>1, <3>2
  <2>3. \A i \in DOMAIN run'.calls :
            /\ run'.calls[i].codes \subseteq TUTarget(run)
            /\ TUPlain => /\ run'.calls[i].days \subseteq 1..run.end
                          /\ \A c \in run'.calls[i].codes : run'.calls[i].codes = TUScope(spec.mode, local, c)
    BY <2>1, <2>2
  <2> QED BY <1>3, <1>5, <2>3 DEF TUShaped, TUFits
<1>7. TUChain'
  <2> SUFFICES ASSUME TUOne, TUPlain PROVE TUChained(run'.calls, table', V)
    BY <1>3, <1>5 DEF TUChain
  <2>1. TUChained(run.calls, table, V)
    BY DEF TUInvariant, TUChain
  <2>2. CASE run'.calls = run.calls
    <3>1. \A i \in DOMAIN run.calls : run.calls[i].codes \subseteq Codes
      <4>1. \A i \in DOMAIN run.calls : run.calls[i] \in TUCall(V)
        BY <1>1
      <4> QED BY <4>1 DEF TUCall
    <3>2. TUChained(run.calls, table', V)
      BY <2>1, <3>1 DEF TUChained
    <3> QED BY <2>2, <3>2
  <2>3. CASE run'.calls # run.calls
    <3>1. \A x \in V, c \in Codes, d \in 1..LastDay : TUCovers(Head(run.calls), x, c, d) /\ d < run'.asked => table'[<<x, c, d>>] = "final"
      BY <2>3
    <3>2. \A i \in DOMAIN run.calls : \A e \in run.calls[i].days : e \in Int /\ e <= run'.asked
      <4> SUFFICES ASSUME NEW i \in DOMAIN run.calls, NEW e \in run.calls[i].days PROVE e \in Int /\ e <= run'.asked
        OBVIOUS
      <4>1. e \in Int /\ e <= run.end /\ run.end \in 1..LastDay /\ run.end <= run.day /\ LastDay \in Nat
        BY TUDaysBefore
      <4>2. run.day \in 1..LastDay
        BY <1>1, TURunning DEF TUInvariant
      <4> QED BY <4>1, <4>2
    <3>3. run'.asked \in Int /\ run'.calls = Tail(run.calls)
      BY <2>3, ProviderAssumption
    <3>4. TUChained(Tail(run.calls), table', V)
      <4>1. PICK bound \in Int : bound = run'.asked
        BY <3>3
      <4>2. PICK calls \in Seq(TUCall(V)) : calls = run.calls
        BY <1>1
      <4>3. \A x \in V, c \in Codes, d \in 1..LastDay : TUCovers(Head(calls), x, c, d) /\ d < bound => table'[<<x, c, d>>] = "final"
        BY <3>1, <4>1, <4>2
      <4>4. \A i \in DOMAIN calls : \A e \in calls[i].days : e \in Int /\ e <= bound
        BY <3>2, <4>1, <4>2
      <4>5. TUChained(calls, table, V) /\ calls # <<>>
        BY <2>1, <4>2
      <4>6. TUChained(Tail(calls), table', V)
        BY <4>3, <4>4, <4>5, TUTailChained
      <4> QED BY <4>2, <4>6
    <3> QED BY <3>3, <3>4
  <2> QED BY <2>2, <2>3
<1>8. \A x \in V, c \in Codes, d \in 1..LastDay :
         d < run'.asked /\ TUPending(run, x, c, d) => table'[<<x, c, d>>] = "final" \/ TUPending(run', x, c, d)
  <2> SUFFICES ASSUME NEW x \in V, NEW c \in Codes, NEW d \in 1..LastDay, d < run'.asked, TUPending(run, x, c, d),
                      table'[<<x, c, d>>] # "final"
               PROVE  TUAsked(run'.calls, x, c, d)
    BY <1>3 DEF TUPending, TUWorking
  <2>1. PICK i \in DOMAIN run.calls : TUCovers(run.calls[i], x, c, d)
    BY DEF TUPending, TUAsked
  <2>2. CASE run'.calls = run.calls
    BY <2>1, <2>2 DEF TUAsked
  <2>3. CASE run'.calls # run.calls
    <3>1. run'.calls = Tail(run.calls) /\ ~TUCovers(Head(run.calls), x, c, d)
      BY <2>3
    <3>2. i # 1
      BY <1>1, <2>1, <3>1, TailIndex
    <3>3. i - 1 \in DOMAIN Tail(run.calls) /\ Tail(run.calls)[i - 1] = run.calls[i]
      BY <1>1, <3>2, TailIndex
    <3> QED BY <2>1, <3>1, <3>3 DEF TUAsked
  <2> QED BY <2>2, <2>3
<1>9. \A x \in V, c \in TUTarget(run), d \in 1..LastDay :
         TUTask /\ (TUOne \/ stops = {}) /\ ~run.failed /\ d <= run.end /\ d < run.day /\ (run.opts.resume => d < run.end) =>
            table'[<<x, c, d>>] = "final" \/ TUPending(run', x, c, d)
  <2> SUFFICES ASSUME NEW x \in V, NEW c \in TUTarget(run), NEW d \in 1..LastDay, TUTask, TUOne \/ stops = {}, ~run.failed,
                      d <= run.end, d < run.day, run.opts.resume => d < run.end
               PROVE  table'[<<x, c, d>>] = "final" \/ TUPending(run', x, c, d)
    OBVIOUS
  <2>1. table[<<x, c, d>>] = "final" \/ TUPending(run, x, c, d)
    BY DEF TUTask
  <2>2. c \in Codes
    BY <1>1, TURunning DEF TUInvariant, TUTarget
  <2>3. d < run'.asked
    <3>1. run.day \in 1..LastDay /\ LastDay \in Nat
      BY <1>1, TURunning DEF TUInvariant
    <3> QED BY <3>1
  <2> QED BY <1>8, <2>1, <2>2, <2>3
<1>10. TUTask'
  <2>1. TUTask
    BY DEF TUInvariant
  <2> QED BY <1>3, <1>5, <1>9, <2>1 DEF TUTask
<1>11. TUPromise'
  <2> SUFFICES ASSUME stops = {}, TUPlain, NEW x \in V, NEW c \in Codes, NEW d \in 1..LastDay,
                      d < TUBehind(table', V, spec.mode, local, c)
               PROVE  table'[<<x, c, d>>] = "final" \/ TUPending(run', x, c, d)
    BY <1>5 DEF TUPromise
  <2>1. d < run'.asked
    OBVIOUS
  <2>2. CASE d < TUBehind(table, V, spec.mode, local, c)
    <3>1. table[<<x, c, d>>] = "final" \/ TUPending(run, x, c, d)
      BY <2>2 DEF TUInvariant, TUPromise
    <3> QED BY <1>8, <2>1, <3>1
  <2>3. CASE d < run.end /\ c \in TUTarget(run)
    <3>1. TUTask /\ ~run.failed
      BY <1>1 DEF TUInvariant, TUPhase
    <3>2. d <= run.end /\ d < run.day
      <4>1. run.end \in 1..LastDay /\ run.day \in 1..LastDay /\ LastDay \in Nat
        BY <1>1, TURunning DEF TUInvariant
      <4>2. run.end <= run.day
        BY <1>1 DEF TUInvariant, TUPhase
      <4> QED BY <2>3, <4>1, <4>2
    <3> QED BY <1>9, <2>3, <3>1, <3>2
  <2> QED BY <2>2, <2>3
<1> QED BY <1>4, <1>6, <1>7, <1>10, <1>11 DEF TUInvariant

\* A response has rows of the request only, and every row of a past day unless the service cut
\* it.
LEMMA TUResponse ==
  ASSUME TUTyped, NEW q \in TUCall(spec.variants), NEW response \in Tushare!Responses(q)
  PROVE  /\ response \in SUBSET (spec.variants \X Codes \X (1..LastDay))
         /\ \A y \in response : y[1] = q.variant /\ y[2] \in q.codes /\ y[3] \in q.days /\ y[3] <= today
         /\ ~(spec.mode = "snapshot" /\ Tushare!Cardinality(q.codes) > 1 /\ Tushare!Cardinality(response) >= RowLimit) =>
               \A c \in q.codes, d \in q.days : d < today => <<q.variant, c, d>> \in response
<1>1. today \in 1..LastDay /\ LastDay \in Nat /\ RowLimit \in Nat
  BY ProviderAssumption DEF TUTyped
<1>2. q.variant \in spec.variants /\ q.codes \in SUBSET Codes /\ q.days \in SUBSET (1..LastDay)
  BY DEF TUCall
<1>3. \A y \in Tushare!Past(q) \union Tushare!Todays(q) :
         /\ y \in spec.variants \X Codes \X (1..LastDay)
         /\ y[1] = q.variant /\ y[2] \in q.codes /\ y[3] \in q.days /\ y[3] <= today
  <2> SUFFICES ASSUME NEW y \in Tushare!Past(q) \union Tushare!Todays(q)
               PROVE  /\ y \in spec.variants \X Codes \X (1..LastDay)
                      /\ y[1] = q.variant /\ y[2] \in q.codes /\ y[3] \in q.days /\ y[3] <= today
    OBVIOUS
  <2>1. \E c \in q.codes, d \in q.days : y = <<q.variant, c, d>> /\ (d < today \/ d = today)
    <3>1. CASE y \in Tushare!Past(q)
      BY <3>1 DEF Tushare!Past
    <3>2. CASE y \in Tushare!Todays(q)
      BY <3>2 DEF Tushare!Todays
    <3> QED BY <3>1, <3>2
  <2>2. PICK c \in q.codes, d \in q.days : y = <<q.variant, c, d>> /\ (d < today \/ d = today)
    BY <2>1
  <2>3. d \in 1..LastDay /\ c \in Codes /\ d <= today
    BY <1>1, <1>2, <2>2
  <2> QED BY <1>2, <2>2, <2>3
<1>4. response \subseteq Tushare!Past(q) \union Tushare!Todays(q)
  BY DEF Tushare!Responses
<1>5. ASSUME ~(spec.mode = "snapshot" /\ Tushare!Cardinality(q.codes) > 1 /\ Tushare!Cardinality(response) >= RowLimit),
             NEW c \in q.codes, NEW d \in q.days, d < today
      PROVE  <<q.variant, c, d>> \in response
  <2>1. <<q.variant, c, d>> \in Tushare!Past(q)
    BY <1>5 DEF Tushare!Past
  <2>2. Tushare!Past(q) \subseteq response
    <3>1. CASE response \in {Tushare!Past(q) \union early_ : early_ \in SUBSET Tushare!Todays(q)}
      BY <3>1
    <3>2. CASE /\ spec.mode = "snapshot" /\ Tushare!Cardinality(q.codes) > 1
               /\ Tushare!Cardinality(response) = RowLimit
      BY <1>1, <1>5, <3>2
    <3> QED BY <3>1, <3>2 DEF Tushare!Responses
  <2> QED BY <2>1, <2>2
<1> QED BY <1>3, <1>4, <1>5

\* Only past days are behind a cursor.
LEMMA TUBehindToday ==
  ASSUME TUInvariant, NEW c \in Codes, NEW d \in 1..LastDay, d < TUBehind(table, spec.variants, spec.mode, local, c)
  PROVE  d < today
<1>1. PICK n : n = TUBehind(table, spec.variants, spec.mode, local, c)
  OBVIOUS
<1>2. /\ n \in 0..LastDay
      /\ n # 0 => \E x \in spec.variants, y \in TUScope(spec.mode, local, c) : table[<<x, y, n>>] # "none"
  BY <1>1, TUCursorDay DEF TUBehind
<1>3. LastDay \in Nat /\ today \in 1..LastDay
  BY ProviderAssumption DEF TUInvariant, TUTyped
<1>4. d < n
  BY <1>1
<1>5. n \in 1..LastDay
  BY <1>2, <1>3, <1>4
<1>6. PICK x \in spec.variants, y \in TUScope(spec.mode, local, c) : table[<<x, y, n>>] # "none"
  BY <1>2, <1>5
<1>7. y \in Codes
  BY DEF TUScope
<1>8. n <= today
  BY <1>5, <1>6, <1>7 DEF TUInvariant, TUDated
<1> QED BY <1>3, <1>4, <1>5, <1>8

\* A request split into one per code asks for the same rows.
LEMMA TUPerCode ==
  ASSUME NEW V, NEW q \in TUCall(V)
  PROVE  /\ Tushare!PerCode(q) \in Seq(TUCall(V))
         /\ \A i \in DOMAIN Tushare!PerCode(q) : Tushare!PerCode(q)[i].codes \subseteq q.codes
         /\ \A x, c, d : TUCovers(q, x, c, d) => TUAsked(Tushare!PerCode(q), x, c, d)
<1> DEFINE order == Tushare!SetToSeq(q.codes)
<1>1. q.codes \in SUBSET Codes
  BY DEF TUCall
<1>2. IsFiniteSet(q.codes)
  BY <1>1, ProviderAssumption, FS_Subset
<1>3. PICK N \in Nat : order \in Seq(q.codes) /\ DOMAIN order = 1..N /\ \A c \in q.codes : \E i \in DOMAIN order : order[i] = c
  BY <1>2, TUOrder
<1>4. Tushare!PerCode(q) = [i \in 1..N |-> [q EXCEPT !.codes = {order[i]}]]
  BY <1>3 DEF Tushare!PerCode
<1> HIDE DEF order
<1>5. \A i \in 1..N : /\ order[i] \in q.codes /\ [q EXCEPT !.codes = {order[i]}] \in TUCall(V)
                      /\ [q EXCEPT !.codes = {order[i]}].codes = {order[i]}
                      /\ [q EXCEPT !.codes = {order[i]}].variant = q.variant
                      /\ [q EXCEPT !.codes = {order[i]}].days = q.days
  <2> SUFFICES ASSUME NEW i \in 1..N
               PROVE  /\ order[i] \in q.codes /\ [q EXCEPT !.codes = {order[i]}] \in TUCall(V)
                      /\ [q EXCEPT !.codes = {order[i]}].codes = {order[i]}
                      /\ [q EXCEPT !.codes = {order[i]}].variant = q.variant
                      /\ [q EXCEPT !.codes = {order[i]}].days = q.days
    OBVIOUS
  <2>1. order[i] \in q.codes
    BY <1>3
  <2>2. PICK one \in SUBSET Codes : one = {order[i]}
    BY <1>1, <2>1
  <2> QED BY <2>1, <2>2 DEF TUCall
<1>6. Tushare!PerCode(q) \in Seq(TUCall(V))
  <2>1. Tushare!PerCode(q) \in [1..N -> TUCall(V)]
    BY <1>4, <1>5
  <2> QED BY <2>1
<1>7. ASSUME NEW i \in DOMAIN Tushare!PerCode(q) PROVE Tushare!PerCode(q)[i].codes \subseteq q.codes
  <2>1. i \in 1..N /\ Tushare!PerCode(q)[i] = [q EXCEPT !.codes = {order[i]}]
    BY <1>4
  <2> QED BY <1>5, <2>1
<1>8. ASSUME NEW x, NEW c, NEW d, TUCovers(q, x, c, d) PROVE TUAsked(Tushare!PerCode(q), x, c, d)
  <2>1. PICK i \in 1..N : order[i] = c
    BY <1>3, <1>8 DEF TUCovers
  <2>2. i \in DOMAIN Tushare!PerCode(q) /\ Tushare!PerCode(q)[i] = [q EXCEPT !.codes = {order[i]}]
    BY <1>4
  <2>3. TUCovers(Tushare!PerCode(q)[i], x, c, d)
    BY <1>5, <1>8, <2>1, <2>2 DEF TUCovers
  <2> QED BY <2>2, <2>3 DEF TUAsked
<1> QED BY <1>6, <1>7, <1>8

\* A request for rows is the task's.
LEMMA TUTaskHead ==
  ASSUME TUPhase, run.pc = "fetch", run.calls # <<>>, Head(run.calls).of = "task" PROVE TUWorking(run)
<1>1. run.calls # Tushare!SourceCalls
  <2>1. ASSUME run.calls = Tushare!SourceCalls PROVE FALSE
    <3>1. Head(run.calls).of = "source"
      BY <2>1 DEF Tushare!SourceCalls
    <3> QED BY <3>1
  <2> QED BY <2>1
<1> QED BY <1>1 DEF TUPhase

\* What FetchRows leaves as it was.
LEMMA TUFetched ==
  ASSUME TUInvariant, run.pc = "fetch", run.calls # <<>>, Head(run.calls).of = "task",
         NEW response \in Tushare!Responses(Head(run.calls)), Tushare!FetchRows(response),
         NEW full \in BOOLEAN,
         full = (spec.mode = "snapshot" /\ Tushare!Cardinality(Head(run.calls).codes) > 1
                 /\ Tushare!Cardinality(response) >= RowLimit),
         NEW list \in Seq(TUCall(spec.variants)),
         list = IF full THEN Tushare!PerCode(Head(run.calls)) \o Tail(run.calls)
                ELSE IF response = {} THEN Tail(run.calls) ELSE run.calls
  PROVE  /\ TUWorking(run) /\ UNCHANGED <<today, spec, table, local, cache, stops>>
         /\ response \in SUBSET (spec.variants \X Codes \X (1..LastDay))
         /\ run' \in TURun(spec.variants) /\ run'.asked = today /\ run'.calls = list
         /\ run'.pc = IF full \/ response = {} THEN "fetch" ELSE "save"
         /\ run'.rows = IF full THEN {} ELSE response
         /\ run'.tasks = run.tasks /\ run'.opts = run.opts /\ run'.end = run.end /\ run'.day = run.day
         /\ run'.codes = run.codes /\ run'.resolving = run.resolving /\ run'.failed = run.failed
<1>1. run \in TURun(spec.variants) /\ today \in 1..LastDay
  BY TURunning DEF TUInvariant, TUTyped
<1>2. TUWorking(run)
  BY TUTaskHead DEF TUInvariant
<1>3. Head(run.calls) \in TUCall(spec.variants)
  BY <1>2, TUHead
<1>4. response \in SUBSET (spec.variants \X Codes \X (1..LastDay))
  BY <1>3, TUResponse DEF TUInvariant
<1>5. PICK rows \in SUBSET (spec.variants \X Codes \X (1..LastDay)) : rows = IF full THEN {} ELSE response
  BY <1>4
<1>6. PICK n \in Int : n = run.used + 1
  <2>1. run.used \in Int
    BY <1>1 DEF TURun
  <2> QED BY <2>1
<1>7. PICK zero \in Int : zero = 0
  OBVIOUS
<1>8. PICK pc \in {"fetch", "save"} : pc = IF full \/ response = {} THEN "fetch" ELSE "save"
  OBVIOUS
<1>9. PICK calls \in Seq(TUCall(spec.variants)) \union {<<[of |-> "source"]>>} : calls = list
  OBVIOUS
<1>10. /\ run' = [run EXCEPT !.used = n, !.tries = zero, !.asked = today, !.pc = pc, !.rows = rows, !.calls = calls]
       /\ UNCHANGED <<today, spec, table, local, cache, stops>>
  BY <1>5, <1>6, <1>7, <1>8, <1>9 DEF Tushare!FetchRows
<1>11. /\ run' \in TURun(spec.variants) /\ run'.asked = today /\ run'.calls = calls /\ run'.pc = pc /\ run'.rows = rows
       /\ run'.tasks = run.tasks /\ run'.opts = run.opts /\ run'.end = run.end /\ run'.day = run.day
       /\ run'.codes = run.codes /\ run'.resolving = run.resolving /\ run'.failed = run.failed
  BY <1>1, <1>10 DEF TURun
<1> QED BY <1>2, <1>4, <1>5, <1>8, <1>9, <1>10, <1>11

\* A snapshot of several codes cut at its limit is asked for again, one code at a time.
LEMMA TUFetchFull ==
  ASSUME TUInvariant, run.pc = "fetch", run.calls # <<>>, Head(run.calls).of = "task",
         NEW response \in Tushare!Responses(Head(run.calls)), Tushare!FetchRows(response),
         spec.mode = "snapshot" /\ Tushare!Cardinality(Head(run.calls).codes) > 1
         /\ Tushare!Cardinality(response) >= RowLimit
  PROVE  TUInvariant'
<1> DEFINE V == spec.variants
<1>1. TUWorking(run) /\ ~TUPlain
  BY TUTaskHead DEF TUInvariant, TUPlain
<1>2. PICK p \in Seq(TUCall(V)) : p = run.calls /\ p # <<>>
  BY <1>1, TUHead
<1>3. Head(p) \in TUCall(V) /\ Tail(p) \in Seq(TUCall(V))
  BY <1>2, ListEnds
<1>4. PICK q \in TUCall(V) : q = Head(p)
  BY <1>3
<1>5. PICK parts \in Seq(TUCall(V)) : parts = Tushare!PerCode(q)
  BY <1>4, TUPerCode
<1>6. /\ \A i \in DOMAIN parts : parts[i].codes \subseteq q.codes
      /\ \A x, c, d : TUCovers(q, x, c, d) => TUAsked(parts, x, c, d)
  BY <1>4, <1>5, TUPerCode
<1>7. PICK rest \in Seq(TUCall(V)) : rest = Tail(p)
  BY <1>3
<1>8. PICK list \in Seq(TUCall(V)) : list = parts \o rest
  <2>1. parts \o rest \in Seq(TUCall(V))
    BY ConcatenatedFrom
  <2> QED BY <2>1
<1>9. PICK full \in BOOLEAN : full = TRUE
  OBVIOUS
<1>10. full = (spec.mode = "snapshot" /\ Tushare!Cardinality(Head(run.calls).codes) > 1
               /\ Tushare!Cardinality(response) >= RowLimit)
  BY <1>9
<1>11. list = IF full THEN Tushare!PerCode(Head(run.calls)) \o Tail(run.calls)
              ELSE IF response = {} THEN Tail(run.calls) ELSE run.calls
  BY <1>2, <1>4, <1>5, <1>7, <1>8, <1>9
<1>12. /\ UNCHANGED <<today, spec, table, local, cache, stops>>
       /\ run' \in TURun(V) /\ run'.asked = today /\ run'.calls = list
       /\ run'.pc = "fetch"
       /\ run'.tasks = run.tasks /\ run'.opts = run.opts /\ run'.end = run.end /\ run'.day = run.day
       /\ run'.codes = run.codes /\ run'.resolving = run.resolving /\ run'.failed = run.failed
  BY <1>9, <1>10, <1>11, TUFetched
<1>13. TUTyped'
  BY <1>12 DEF TUInvariant, TUTyped
<1>14. TUWorking(run)' /\ ~TUSaving(run)' /\ TUTarget(run)' = TUTarget(run) /\ run'.pc # "idle" /\ ~TUPlain' /\ ~TUSaving(run)
  BY <1>1, <1>12 DEF TUWorking, TUSaving, TUTarget, TUPlain
<1>15. TUPhase'
  <2>1. /\ run.tasks # <<>> /\ run.end <= run.day /\ run.day <= today /\ (run.failed => stops # {}) /\ ~run.resolving
    BY <1>1 DEF TUInvariant, TUPhase, TUWorking
  <2> QED BY <1>8, <1>12, <1>14, <2>1 DEF TUPhase
<1>16. TUShaped'
  <2>1. \A i \in DOMAIN p : p[i].codes \subseteq TUTarget(run)
    BY <1>1, <1>2 DEF TUInvariant, TUShaped, TUFits
  <2>2. 1 \in DOMAIN p /\ q = p[1]
    BY <1>2, <1>4
  <2>3. \A i \in DOMAIN parts : parts[i].codes \subseteq TUTarget(run)
    BY <1>6, <2>1, <2>2
  <2>4. \A i \in DOMAIN rest : rest[i].codes \subseteq TUTarget(run)
    <3> SUFFICES ASSUME NEW i \in DOMAIN rest PROVE rest[i].codes \subseteq TUTarget(run)
      OBVIOUS
    <3>1. i + 1 \in DOMAIN p /\ rest[i] = p[i + 1]
      BY <1>2, <1>7, TailMembers
    <3> QED BY <2>1, <3>1
  <2>5. \A i \in DOMAIN list : list[i].codes \subseteq TUTarget(run)
    <3> SUFFICES ASSUME NEW i \in DOMAIN list PROVE list[i].codes \subseteq TUTarget(run)
      OBVIOUS
    <3>1. i \in DOMAIN (parts \o rest)
      BY <1>8
    <3>2. i \in DOMAIN parts \/ \E j \in DOMAIN rest : i = Len(parts) + j
      BY <3>1, ConcatenatedSplit
    <3>3. CASE i \in DOMAIN parts
      <4>1. list[i] = parts[i]
        BY <1>8, <3>3, ConcatenatedAt
      <4> QED BY <2>3, <3>3, <4>1
    <3>4. CASE \E j \in DOMAIN rest : i = Len(parts) + j
      <4>1. PICK j \in DOMAIN rest : i = Len(parts) + j
        BY <3>4
      <4>2. list[Len(parts) + j] = rest[j]
        BY <1>8, ConcatenatedAt
      <4> QED BY <2>4, <4>1, <4>2
    <3> QED BY <3>2, <3>3, <3>4
  <2> QED BY <1>12, <1>14, <2>5 DEF TUShaped, TUFits
<1>17. TUDated'
  BY <1>12, <1>14 DEF TUInvariant, TUDated
<1>18. TUAnswer' /\ TUChain' /\ TUNoGap' /\ TUPromise'
  BY <1>14 DEF TUAnswer, TUChain, TUNoGap, TUPromise
<1>19. \A x, c, d : TUAsked(p, x, c, d) => TUAsked(list, x, c, d)
  <2> SUFFICES ASSUME NEW x, NEW c, NEW d, TUAsked(p, x, c, d) PROVE TUAsked(list, x, c, d)
    OBVIOUS
  <2>1. PICK i \in DOMAIN p : TUCovers(p[i], x, c, d)
    BY DEF TUAsked
  <2>2. CASE i = 1
    <3>1. p[i] = q
      BY <1>2, <1>4, <2>2
    <3>2. PICK k \in DOMAIN parts : TUCovers(parts[k], x, c, d)
      BY <1>6, <2>1, <3>1 DEF TUAsked
    <3>3. k \in DOMAIN list /\ list[k] = parts[k]
      BY <1>8, ConcatenatedAt
    <3> QED BY <3>2, <3>3 DEF TUAsked
  <2>3. CASE i # 1
    <3>1. i - 1 \in DOMAIN rest /\ rest[i - 1] = p[i]
      BY <1>2, <1>7, <2>3, TailIndex
    <3>2. Len(parts) + (i - 1) \in DOMAIN list /\ list[Len(parts) + (i - 1)] = rest[i - 1]
      BY <1>8, <3>1, ConcatenatedAt
    <3> QED BY <2>1, <3>1, <3>2 DEF TUAsked
  <2> QED BY <2>2, <2>3
<1>20. TUTask'
  <2> SUFFICES ASSUME TUOne \/ stops = {}, ~run.failed,
                      NEW x \in V, NEW c \in TUTarget(run), NEW d \in 1..LastDay,
                      d <= run.end, d < run.day, run.opts.resume => d < run.end
               PROVE  table[<<x, c, d>>] = "final" \/ TUPending(run', x, c, d)
    BY <1>12, <1>14 DEF TUTask, TUOne
  <2>1. table[<<x, c, d>>] = "final" \/ TUPending(run, x, c, d)
    BY <1>1 DEF TUInvariant, TUTask
  <2>2. TUPending(run, x, c, d) => TUAsked(p, x, c, d)
    BY <1>2 DEF TUPending
  <2>3. TUAsked(list, x, c, d) => TUPending(run', x, c, d)
    BY <1>12, <1>14 DEF TUPending, TUWorking
  <2> QED BY <1>19, <2>1, <2>2, <2>3
<1> QED BY <1>13, <1>15, <1>16, <1>17, <1>18, <1>20 DEF TUInvariant

\* Any other response keeps the invariant.
LEMMA TUFetchPart ==
  ASSUME TUInvariant, run.pc = "fetch", run.calls # <<>>, Head(run.calls).of = "task",
         NEW response \in Tushare!Responses(Head(run.calls)), Tushare!FetchRows(response),
         ~(spec.mode = "snapshot" /\ Tushare!Cardinality(Head(run.calls).codes) > 1
           /\ Tushare!Cardinality(response) >= RowLimit)
  PROVE  TUInvariant'
<1> DEFINE V == spec.variants
<1>1. TUWorking(run)
  BY TUTaskHead DEF TUInvariant
<1>2. Head(run.calls) \in TUCall(V) /\ run.calls \in Seq(TUCall(V)) /\ Tail(run.calls) \in Seq(TUCall(V))
  BY <1>1, TUHead
<1>3. /\ \A y \in response : y[1] = Head(run.calls).variant /\ y[2] \in Head(run.calls).codes
                             /\ y[3] \in Head(run.calls).days /\ y[3] <= today
      /\ \A c \in Head(run.calls).codes, d \in Head(run.calls).days :
            d < today => <<Head(run.calls).variant, c, d>> \in response
  BY <1>2, TUResponse DEF TUInvariant
<1>4. PICK list \in Seq(TUCall(V)) : list = IF response = {} THEN Tail(run.calls) ELSE run.calls
  BY <1>2
<1>5. PICK full \in BOOLEAN : full = FALSE
  OBVIOUS
<1>6. full = (spec.mode = "snapshot" /\ Tushare!Cardinality(Head(run.calls).codes) > 1
              /\ Tushare!Cardinality(response) >= RowLimit)
  BY <1>5
<1>7. list = IF full THEN Tushare!PerCode(Head(run.calls)) \o Tail(run.calls)
             ELSE IF response = {} THEN Tail(run.calls) ELSE run.calls
  BY <1>4, <1>5
<1>8. /\ UNCHANGED <<today, spec, table, local, cache, stops>>
      /\ run' \in TURun(V) /\ run'.asked = today /\ run'.calls = list
      /\ run'.pc = (IF response = {} THEN "fetch" ELSE "save") /\ run'.rows = response
      /\ run'.tasks = run.tasks /\ run'.opts = run.opts /\ run'.end = run.end /\ run'.day = run.day
      /\ run'.codes = run.codes /\ run'.resolving = run.resolving /\ run'.failed = run.failed
  BY <1>5, <1>6, <1>7, TUFetched
<1>9. TUTyped'
  BY <1>8 DEF TUInvariant, TUTyped
<1>10. LastDay \in Nat /\ today \in 1..LastDay /\ run.day <= today /\ today <= today
  BY ProviderAssumption DEF TUInvariant, TUTyped, TUPhase
<1>11. TUDated'
  <2>1. ASSUME NEW x \in V, NEW c \in Codes, NEW d \in 1..LastDay
        PROVE  /\ table[<<x, c, d>>] # "none" => d <= today
               /\ table[<<x, c, d>>] = "final" => d < today
    BY DEF TUInvariant, TUDated
  <2> QED BY <1>8, <2>1 DEF TUDated
<1>12. TUAnswer'
  <2> SUFFICES ASSUME response # {}
               PROVE  /\ \A y \in response : y[1] = Head(run.calls).variant /\ y[2] \in Head(run.calls).codes
                                             /\ y[3] \in Head(run.calls).days /\ y[3] <= today
                      /\ \A c \in Head(run.calls).codes, d \in Head(run.calls).days :
                            d < today => <<Head(run.calls).variant, c, d>> \in response
    BY <1>4, <1>8 DEF TUAnswer, TUSaving
  <2> QED BY <1>3
<1>13. TUNoGap'
  <2>1. TUOne' = TUOne /\ TUPlain' = TUPlain
    BY <1>8 DEF TUOne, TUPlain
  <2> SUFFICES ASSUME TUOne, TUPlain, NEW x \in V, NEW c \in Codes, NEW d \in 1..LastDay,
                      d < TUBehind(table, V, spec.mode, local, c)
               PROVE  table[<<x, c, d>>] = "final"
    BY <1>8, <2>1 DEF TUNoGap
  <2> QED BY DEF TUInvariant, TUNoGap
<1>14. \/ run'.calls = run.calls
       \/ /\ run'.calls = Tail(run.calls) /\ run'.pc = "fetch"
          /\ \A x \in V, c \in Codes, d \in 1..LastDay :
                TUCovers(Head(run.calls), x, c, d) /\ d < run'.asked => table'[<<x, c, d>>] = "final"
  <2>1. CASE response = {}
    <3>1. \A x, c, d : ~(TUCovers(Head(run.calls), x, c, d) /\ d < today)
      BY <1>3, <2>1 DEF TUCovers
    <3> QED BY <1>4, <1>8, <2>1, <3>1
  <2>2. CASE response # {}
    BY <1>4, <1>8, <2>2
  <2> QED BY <2>1, <2>2
<1>15. \A c \in Codes, d \in 1..LastDay : d < TUBehind(table, V, spec.mode, local, c) => d < today
  BY TUBehindToday
<1>16. run'.pc \in {"fetch", "save", "more"}
  BY <1>8
<1> HIDE DEF V
<1>17. \A x \in V, c \in Codes, d \in 1..LastDay : table[<<x, c, d>>] = "final" => table'[<<x, c, d>>] = "final"
  BY <1>8
<1>18. \A c \in Codes, d \in 1..LastDay :
          d < TUBehind(table', V, spec.mode, local, c) =>
               /\ d < run'.asked
               /\ TUPlain => \/ d < TUBehind(table, V, spec.mode, local, c)
                             \/ d < run.end /\ c \in TUTarget(run)
  BY <1>8, <1>15
<1> QED BY <1>1, <1>8, <1>9, <1>10, <1>11, <1>12, <1>13, <1>14, <1>16, <1>17, <1>18, TUAdvance DEF V

\* What an insertion changes, and what it leaves as it was.
LEMMA TUInsert ==
  ASSUME TUInvariant, run.pc \in {"save", "more"}, NEW part \in Tushare!InsertBatches, Tushare!SaveRows(part)
  PROVE  /\ TUWorking(run) /\ run.calls # <<>> /\ part \subseteq run.rows
         /\ UNCHANGED <<today, spec, local, cache, stops>>
         /\ table' \in [spec.variants \X Codes \X (1..LastDay) -> {"none", "early", "final"}]
         /\ \A x \in spec.variants, c \in Codes, d \in 1..LastDay :
               table'[<<x, c, d>>] = IF <<x, c, d>> \notin part THEN table[<<x, c, d>>]
                                     ELSE IF d < run.asked THEN "final" ELSE "early"
         /\ run' \in TURun(spec.variants) /\ run'.asked = run.asked /\ run'.rows = run.rows \ part
         /\ \/ run'.rows = {} /\ run'.pc = "fetch" /\ run'.calls = Tail(run.calls)
            \/ run'.rows # {} /\ run'.pc = "more" /\ run'.calls = run.calls
         /\ run'.tasks = run.tasks /\ run'.opts = run.opts /\ run'.end = run.end /\ run'.day = run.day
         /\ run'.codes = run.codes /\ run'.resolving = run.resolving /\ run'.failed = run.failed
<1>1. run \in TURun(spec.variants) /\ run.rows \in SUBSET (spec.variants \X Codes \X (1..LastDay))
  BY TURunning DEF TUInvariant
<1>2. TUWorking(run) /\ run.calls # <<>>
  BY DEF TUInvariant, TUPhase, TUSaving
<1>3. part \subseteq run.rows
  BY DEF Tushare!InsertBatches
<1>4. Tail(run.calls) \in Seq(TUCall(spec.variants)) /\ run.calls \in Seq(TUCall(spec.variants))
  BY <1>2, TUHead
<1>5. PICK rest \in SUBSET (spec.variants \X Codes \X (1..LastDay)) : rest = run.rows \ part
  BY <1>1
<1>6. PICK pc \in {"fetch", "more"} : pc = IF rest = {} THEN "fetch" ELSE "more"
  OBVIOUS
<1>7. PICK calls \in Seq(TUCall(spec.variants)) \union {<<[of |-> "source"]>>} :
         calls = IF rest = {} THEN Tail(run.calls) ELSE run.calls
  BY <1>4
<1>8. run' = [run EXCEPT !.rows = rest, !.pc = pc, !.calls = calls]
  BY <1>5, <1>6, <1>7 DEF Tushare!SaveRows
<1>9. /\ run' \in TURun(spec.variants) /\ run'.asked = run.asked /\ run'.rows = rest /\ run'.pc = pc /\ run'.calls = calls
      /\ run'.tasks = run.tasks /\ run'.opts = run.opts /\ run'.end = run.end /\ run'.day = run.day
      /\ run'.codes = run.codes /\ run'.resolving = run.resolving /\ run'.failed = run.failed
  BY <1>1, <1>8 DEF TURun
<1>10. /\ UNCHANGED <<today, spec, local, cache, stops>>
       /\ table' = [x \in DOMAIN table |-> IF x \notin part THEN table[x]
                                            ELSE IF x[3] < run.asked THEN "final" ELSE "early"]
  BY DEF Tushare!SaveRows
<1>11. table \in [spec.variants \X Codes \X (1..LastDay) -> {"none", "early", "final"}]
  BY DEF TUInvariant, TUTyped
<1>12. table' \in [spec.variants \X Codes \X (1..LastDay) -> {"none", "early", "final"}]
  BY <1>10, <1>11
<1>13. \A x \in spec.variants, c \in Codes, d \in 1..LastDay :
          table'[<<x, c, d>>] = IF <<x, c, d>> \notin part THEN table[<<x, c, d>>]
                                ELSE IF d < run.asked THEN "final" ELSE "early"
  BY <1>10, <1>11
<1>14. \/ rest = {} /\ run'.pc = "fetch" /\ run'.calls = Tail(run.calls)
       \/ rest # {} /\ run'.pc = "more" /\ run'.calls = run.calls
  BY <1>6, <1>7, <1>9
<1> QED BY <1>2, <1>3, <1>5, <1>9, <1>10, <1>12, <1>13, <1>14

\* An insertion moves a cursor no further than to a day of the first request.
LEMMA TUCursorMoves ==
  ASSUME TUInvariant, TUSaving(run), NEW part \in SUBSET run.rows, NEW T,
         \A x \in spec.variants, c \in Codes, d \in 1..LastDay : <<x, c, d>> \notin part => T[<<x, c, d>>] = table[<<x, c, d>>],
         NEW c \in Codes, NEW d \in 1..LastDay, d < TUBehind(T, spec.variants, spec.mode, local, c)
  PROVE  /\ d < run.asked
         /\ \/ d < TUBehind(table, spec.variants, spec.mode, local, c)
            \/ /\ TUPlain => d < run.end /\ c \in Head(run.calls).codes /\ c \in TUTarget(run)
               /\ \E e \in Head(run.calls).days : d < e
<1> DEFINE scope == TUScope(spec.mode, local, c)
           new == TUCursor(T, spec.variants, scope)
<1>1. TUWorking(run) /\ run.calls # <<>> /\ run.pc # "idle"
  BY DEF TUInvariant, TUPhase, TUSaving
<1>2. run.end \in 1..LastDay /\ run.asked \in 1..LastDay /\ LastDay \in Nat
      /\ run.rows \in SUBSET (spec.variants \X Codes \X (1..LastDay))
  BY <1>1, TURunning DEF TUInvariant
<1>3. d < new /\ new \in 0..LastDay
  BY TUCursorDay DEF TUBehind
<1>4. scope \subseteq Codes
  BY DEF TUScope
<1>5. new # 0
  BY <1>2, <1>3
<1>6. \E x \in spec.variants, k \in scope : T[<<x, k, new>>] # "none"
  BY <1>5, TUCursorDay
<1>7. new \in 1..LastDay
  BY <1>2, <1>3, <1>5
<1> HIDE DEF new, scope
<1>8. PICK x \in spec.variants : \E k \in scope : T[<<x, k, new>>] # "none"
  BY <1>6
<1>9. PICK k \in scope : T[<<x, k, new>>] # "none"
  BY <1>8
<1>10. CASE <<x, k, new>> \in part
  <2>1. <<x, k, new>> \in run.rows
    BY <1>10
  <2>2. PICK y \in run.rows : y = <<x, k, new>>
    BY <2>1
  <2>3. /\ y[1] = Head(run.calls).variant /\ y[2] \in Head(run.calls).codes
        /\ y[3] \in Head(run.calls).days /\ y[3] <= run.asked
    BY DEF TUInvariant, TUAnswer
  <2>4. k \in Head(run.calls).codes /\ new \in Head(run.calls).days /\ new <= run.asked
    BY <2>2, <2>3
  <2>5. d < run.asked
    BY <1>2, <1>3, <1>7, <2>4
  <2>6. ASSUME TUPlain PROVE d < run.end /\ c \in Head(run.calls).codes /\ c \in TUTarget(run)
    <3>1. run.calls \in Seq(TUCall(spec.variants))
      BY <1>1, TUHead
    <3>2. 1 \in DOMAIN run.calls /\ run.calls[1] = Head(run.calls)
      BY <1>1, <3>1
    <3>3. /\ Head(run.calls).codes \subseteq TUTarget(run) /\ Head(run.calls).days \subseteq 1..run.end
          /\ Head(run.calls).codes = TUScope(spec.mode, local, k)
      BY <1>1, <2>4, <2>6, <3>2 DEF TUInvariant, TUShaped, TUFits
    <3>4. new <= run.end
      BY <2>4, <3>3
    <3>5. d < run.end
      BY <1>2, <1>3, <1>7, <3>4
    <3>6. c \in TUScope(spec.mode, local, k)
      BY <1>9 DEF TUScope, scope
    <3> QED BY <3>3, <3>5, <3>6
  <2> QED BY <1>3, <2>4, <2>5, <2>6
<1>11. CASE <<x, k, new>> \notin part
  <2>1. k \in Codes
    BY <1>4, <1>9
  <2>2. table[<<x, k, new>>] # "none"
    BY <1>7, <1>9, <1>11, <2>1
  <2>3. new <= run.asked
    BY <1>7, <2>1, <2>2 DEF TUInvariant, TUDated
  <2>4. new <= TUCursor(table, spec.variants, scope) /\ TUCursor(table, spec.variants, scope) \in 0..LastDay
    BY <1>7, <1>9, <2>2, TUCursorDay
  <2>5. d < run.asked
    BY <1>2, <1>3, <1>7, <2>3
  <2>6. d < TUCursor(table, spec.variants, scope)
    BY <1>2, <1>3, <1>7, <2>4
  <2> QED BY <2>5, <2>6 DEF TUBehind, scope
<1> QED BY <1>10, <1>11

\* SaveRows keeps the invariant, be it of a whole response or of one of its days.
LEMMA TUSaveRows ==
  ASSUME TUInvariant, run.pc \in {"save", "more"}, NEW part \in Tushare!InsertBatches, Tushare!SaveRows(part)
  PROVE  TUInvariant'
<1> DEFINE V == spec.variants
<1>1. /\ TUWorking(run) /\ run.calls # <<>> /\ part \subseteq run.rows
      /\ UNCHANGED <<today, spec, local, cache, stops>>
      /\ table' \in [V \X Codes \X (1..LastDay) -> {"none", "early", "final"}]
  BY TUInsert
<1>2. ASSUME NEW x \in V, NEW c \in Codes, NEW d \in 1..LastDay
      PROVE  table'[<<x, c, d>>] = IF <<x, c, d>> \notin part THEN table[<<x, c, d>>]
                                   ELSE IF d < run.asked THEN "final" ELSE "early"
  BY TUInsert
<1>3. /\ run' \in TURun(V) /\ run'.asked = run.asked /\ run'.rows = run.rows \ part
      /\ \/ run'.rows = {} /\ run'.pc = "fetch" /\ run'.calls = Tail(run.calls)
         \/ run'.rows # {} /\ run'.pc = "more" /\ run'.calls = run.calls
  BY TUInsert
<1>4. /\ run'.tasks = run.tasks /\ run'.opts = run.opts /\ run'.end = run.end /\ run'.day = run.day
      /\ run'.codes = run.codes /\ run'.resolving = run.resolving /\ run'.failed = run.failed
  BY TUInsert
<1>5. TUTyped'
  BY <1>1, <1>3 DEF TUInvariant, TUTyped
<1>6. /\ run.day <= run.asked /\ run.asked <= today /\ run.asked \in 1..LastDay /\ today \in 1..LastDay /\ LastDay \in Nat
      /\ run.rows \in SUBSET (V \X Codes \X (1..LastDay))
  <2>1. run.pc # "idle" /\ TUSaving(run)
    BY DEF TUSaving
  <2>2. run.day <= run.asked /\ run.asked <= today
    BY <2>1 DEF TUInvariant, TUPhase
  <2> QED BY <2>1, <2>2, TURunning DEF TUInvariant
<1>7. ASSUME NEW x \in V, NEW c \in Codes, NEW d \in 1..LastDay
      PROVE  /\ table[<<x, c, d>>] # "none" => d <= today /\ d <= run.asked
             /\ table[<<x, c, d>>] = "final" => d < today /\ d < run.asked
  BY DEF TUInvariant, TUDated, TUSaving
<1>8. ASSUME NEW x \in V, NEW c \in Codes, NEW d \in 1..LastDay, table[<<x, c, d>>] = "final"
      PROVE  table'[<<x, c, d>>] = "final"
  BY <1>2, <1>7, <1>8
<1>9. ASSUME NEW x \in V, NEW c \in Codes, NEW d \in 1..LastDay, <<x, c, d>> \in run.rows, d < run.asked
      PROVE  table'[<<x, c, d>>] = "final" \/ <<x, c, d>> \in run'.rows
  BY <1>2, <1>3, <1>9
<1>10. ASSUME NEW x \in V, NEW c \in Codes, NEW d \in 1..LastDay, TUCovers(Head(run.calls), x, c, d), d < run.asked
       PROVE  table'[<<x, c, d>>] = "final" \/ <<x, c, d>> \in run'.rows
  <2>1. <<Head(run.calls).variant, c, d>> \in run.rows \/ table[<<Head(run.calls).variant, c, d>>] = "final"
    BY <1>10 DEF TUInvariant, TUAnswer, TUSaving, TUCovers
  <2>2. <<x, c, d>> \in run.rows \/ table[<<x, c, d>>] = "final"
    BY <1>10, <2>1 DEF TUCovers
  <2> QED BY <1>8, <1>9, <1>10, <2>2
<1>11. ASSUME NEW c \in Codes, NEW d \in 1..LastDay, d < TUBehind(table', V, spec.mode, local, c)
       PROVE  /\ d < run.asked
              /\ \/ d < TUBehind(table, V, spec.mode, local, c)
                 \/ /\ TUPlain => d < run.end /\ c \in Head(run.calls).codes /\ c \in TUTarget(run)
                    /\ \E e \in Head(run.calls).days : d < e
  <2>1. PICK T : T = table'
    OBVIOUS
  <2>2. \A x \in V, k \in Codes, e \in 1..LastDay : <<x, k, e>> \notin part => T[<<x, k, e>>] = table[<<x, k, e>>]
    BY <1>2, <2>1
  <2>3. d < TUBehind(T, V, spec.mode, local, c)
    BY <1>11, <2>1
  <2>4. part \in SUBSET run.rows /\ TUSaving(run)
    BY <1>1 DEF TUSaving
  <2> QED BY <2>2, <2>3, <2>4, TUCursorMoves
<1>12. TUDated'
  <2> SUFFICES ASSUME NEW x \in V, NEW c \in Codes, NEW d \in 1..LastDay
               PROVE  /\ table'[<<x, c, d>>] # "none" => d <= today /\ d <= run.asked
                      /\ table'[<<x, c, d>>] = "final" => d < today /\ d < run.asked
    BY <1>1, <1>3 DEF TUDated, TUSaving
  <2>1. CASE <<x, c, d>> \notin part
    BY <1>2, <1>7, <2>1
  <2>2. CASE <<x, c, d>> \in part
    <3>1. PICK y \in run.rows : y = <<x, c, d>>
      BY <1>1, <2>2
    <3>2. y[3] <= run.asked
      BY DEF TUInvariant, TUAnswer, TUSaving
    <3>3. d <= run.asked
      BY <3>1, <3>2
    <3> QED BY <1>2, <1>6, <2>2, <3>3
  <2> QED BY <2>1, <2>2
<1>13. TUAnswer'
  <2> SUFFICES ASSUME run'.pc = "more"
               PROVE  /\ \A y \in run'.rows : /\ y[1] = Head(run.calls).variant /\ y[2] \in Head(run.calls).codes
                                              /\ y[3] \in Head(run.calls).days /\ y[3] <= run.asked
                      /\ \A c \in Head(run.calls).codes, d \in Head(run.calls).days :
                            d < run.asked => \/ <<Head(run.calls).variant, c, d>> \in run'.rows
                                             \/ table'[<<Head(run.calls).variant, c, d>>] = "final"
    BY <1>3 DEF TUAnswer, TUSaving
  <2>1. \A y \in run.rows : /\ y[1] = Head(run.calls).variant /\ y[2] \in Head(run.calls).codes
                            /\ y[3] \in Head(run.calls).days /\ y[3] <= run.asked
    BY DEF TUInvariant, TUAnswer, TUSaving
  <2>2. Head(run.calls).variant \in V /\ Head(run.calls).codes \subseteq Codes /\ Head(run.calls).days \subseteq 1..LastDay
    <3>1. Head(run.calls) \in TUCall(V)
      BY <1>1, TUHead
    <3> QED BY <3>1 DEF TUCall
  <2>3. ASSUME NEW c \in Head(run.calls).codes, NEW d \in Head(run.calls).days, d < run.asked
        PROVE  \/ <<Head(run.calls).variant, c, d>> \in run'.rows
               \/ table'[<<Head(run.calls).variant, c, d>>] = "final"
    <3>1. PICK x \in V : x = Head(run.calls).variant
      BY <2>2
    <3>2. TUCovers(Head(run.calls), x, c, d)
      BY <3>1 DEF TUCovers
    <3>3. c \in Codes /\ d \in 1..LastDay
      BY <2>2
    <3> QED BY <1>10, <2>3, <3>1, <3>2, <3>3
  <2>4. \A y \in run'.rows : y \in run.rows
    BY <1>3
  <2> QED BY <2>1, <2>3, <2>4
<1>14. TUNoGap'
  <2>1. TUOne' = TUOne /\ TUPlain' = TUPlain
    BY <1>1 DEF TUOne, TUPlain
  <2> SUFFICES ASSUME TUOne, TUPlain, NEW x \in V, NEW c \in Codes, NEW d \in 1..LastDay,
                      d < TUBehind(table', V, spec.mode, local, c)
               PROVE  table'[<<x, c, d>>] = "final" \/ (run'.pc = "more" /\ <<x, c, d>> \in run'.rows)
    BY <1>1, <2>1 DEF TUNoGap
  <2>2. d < run.asked
    BY <1>11
  <2>3. SUFFICES table'[<<x, c, d>>] = "final" \/ <<x, c, d>> \in run'.rows
    BY <1>3
  <2>4. CASE d < TUBehind(table, V, spec.mode, local, c)
    <3>1. table[<<x, c, d>>] = "final" \/ <<x, c, d>> \in run.rows
      BY <2>4 DEF TUInvariant, TUNoGap
    <3> QED BY <1>8, <1>9, <2>2, <3>1
  <2>5. CASE c \in Head(run.calls).codes /\ \E e \in Head(run.calls).days : d < e
    <3>1. TUChained(run.calls, table, V)
      BY <1>1 DEF TUInvariant, TUChain
    <3>2. run.calls \in Seq(TUCall(V))
      BY <1>1, TUHead
    <3>3. 1 \in DOMAIN run.calls /\ run.calls[1] = Head(run.calls) /\ DOMAIN run.calls = 1..Len(run.calls)
      BY <1>1, <3>2
    <3>4. PICK e \in Head(run.calls).days : d < e
      BY <2>5
    <3>5. table[<<x, c, d>>] = "final" \/ \E i \in DOMAIN run.calls : i <= 1 /\ TUCovers(run.calls[i], x, c, d)
      BY <2>5, <3>1, <3>3, <3>4 DEF TUChained
    <3>6. table[<<x, c, d>>] = "final" \/ TUCovers(Head(run.calls), x, c, d)
      <4>1. ASSUME NEW i \in DOMAIN run.calls, i <= 1 PROVE i = 1
        BY <3>2, <3>3, <4>1
      <4> QED BY <3>3, <3>5, <4>1
    <3> QED BY <1>8, <1>10, <2>2, <3>6
  <2> QED BY <1>11, <2>4, <2>5
<1>15. \/ run'.calls = run.calls
       \/ /\ run'.calls = Tail(run.calls) /\ run'.pc = "fetch"
          /\ \A x \in V, c \in Codes, d \in 1..LastDay :
                TUCovers(Head(run.calls), x, c, d) /\ d < run'.asked => table'[<<x, c, d>>] = "final"
  <2>1. CASE run'.rows = {}
    <3>1. \A x \in V, c \in Codes, d \in 1..LastDay :
             TUCovers(Head(run.calls), x, c, d) /\ d < run.asked => table'[<<x, c, d>>] = "final"
      BY <1>10, <2>1
    <3> QED BY <1>3, <2>1, <3>1
  <2>2. CASE run'.rows # {}
    BY <1>3, <2>2
  <2> QED BY <2>1, <2>2
<1>16. run'.pc \in {"fetch", "save", "more"}
  BY <1>3
<1>17. \A c \in Codes, d \in 1..LastDay :
          d < TUBehind(table', V, spec.mode, local, c) =>
             /\ d < run'.asked
             /\ TUPlain => \/ d < TUBehind(table, V, spec.mode, local, c)
                           \/ d < run.end /\ c \in TUTarget(run)
  BY <1>3, <1>11
<1>18. \A x \in V, c \in Codes, d \in 1..LastDay : table[<<x, c, d>>] = "final" => table'[<<x, c, d>>] = "final"
  BY <1>8
<1>19. run.day <= run'.asked /\ run'.asked <= today /\ run'.asked \in 1..LastDay
  BY <1>3, <1>6
<1> HIDE DEF V
<1> QED BY <1>1, <1>4, <1>5, <1>12, <1>13, <1>14, <1>15, <1>16, <1>17, <1>18, <1>19, TUAdvance DEF V

\* The requests of a list that are not for some codes.
TUOthers(calls, codes) == {q \in ToSet(calls) : q.codes # codes}

\* Without the requests of some codes the order of the others is still a safe one.
LEMMA TUDropChained ==
  ASSUME NEW V, NEW calls \in Seq(TUCall(V)), NEW T, NEW codes, NEW mode, NEW known, TUChained(calls, T, V),
         \A i \in DOMAIN calls : \A c \in calls[i].codes : calls[i].codes = TUScope(mode, known, c)
  PROVE  TUChained(Among(calls, TUOthers(calls, codes)), T, V)
<1> DEFINE S == TUOthers(calls, codes)
<1> HIDE DEF S
<1>1. PICK picked : picked = Among(calls, S)
  OBVIOUS
<1>2. picked \in Seq(TUCall(V)) /\ \A m \in DOMAIN picked : \E j \in DOMAIN calls : AmongBefore(picked, calls, S, m, j)
  BY <1>1, AmongOrdered
<1>3. \A m \in DOMAIN picked : \E j \in DOMAIN calls : picked[m] = calls[j]
  BY <1>2 DEF AmongBefore
<1>4. DOMAIN calls = 1..Len(calls) /\ DOMAIN picked = 1..Len(picked) /\ Len(calls) \in Nat /\ Len(picked) \in Nat
  BY <1>2
<1>5. TUChained(picked, T, V)
  <2> SUFFICES ASSUME NEW m \in DOMAIN picked, NEW x \in V, NEW d \in 1..LastDay,
                      NEW c \in picked[m].codes, NEW e \in picked[m].days, d < e, T[<<x, c, d>>] # "final"
               PROVE  \E n \in DOMAIN picked : n <= m /\ TUCovers(picked[n], x, c, d)
    BY DEF TUChained
  <2>1. PICK j \in DOMAIN calls : AmongBefore(picked, calls, S, m, j)
    BY <1>2
  <2>2. /\ picked[m] = calls[j] /\ calls[j] \in S
        /\ \A l \in DOMAIN calls : l < j /\ calls[l] \in S => \E n \in DOMAIN picked : n < m /\ picked[n] = calls[l]
    BY <2>1 DEF AmongBefore
  <2>3. PICK i \in DOMAIN calls : i <= j /\ TUCovers(calls[i], x, c, d)
    BY <2>2 DEF TUChained
  <2>4. CASE i = j
    <3>1. m <= m
      BY <1>4
    <3> QED BY <2>2, <2>3, <2>4, <3>1
  <2>5. CASE i # j
    <3>1. i < j
      BY <1>4, <2>3, <2>5
    <3>2. c \in calls[i].codes /\ c \in calls[j].codes
      BY <2>2, <2>3 DEF TUCovers
    <3>3. calls[i].codes = calls[j].codes
      BY <3>2
    <3>4. calls[j].codes # codes
      BY <2>2 DEF S, TUOthers
    <3>5. calls[i] \in S
      BY <3>3, <3>4 DEF ToSet, S, TUOthers
    <3>6. PICK n \in DOMAIN picked : n < m /\ picked[n] = calls[i]
      BY <2>2, <3>1, <3>5
    <3>7. n <= m
      BY <1>4, <3>6
    <3> QED BY <2>3, <3>6, <3>7
  <2> QED BY <2>4, <2>5
<1> QED BY <1>1, <1>5 DEF S

\* The requests that are left when a code has failed.
LEMMA TUDropLeaves ==
  ASSUME TUInvariant, TUWorking(run), run.calls # <<>>, TUPlain,
         NEW left, left = Among(run.calls, TUOthers(run.calls, Head(run.calls).codes))
  PROVE  /\ \A m \in DOMAIN left : \E j \in DOMAIN run.calls : left[m] = run.calls[j]
         /\ TUOne => TUChained(left, table, spec.variants)
<1>1. PICK V : V = spec.variants
  OBVIOUS
<1>2. PICK calls \in Seq(TUCall(V)) : calls = run.calls
  BY <1>1, TUHead
<1>3. PICK codes : codes = Head(calls).codes
  OBVIOUS
<1>4. PICK S : S = TUOthers(calls, codes)
  OBVIOUS
<1>5. left = Among(calls, S)
  BY <1>2, <1>3, <1>4
<1>6. \A m \in DOMAIN Among(calls, S) : \E j \in DOMAIN calls : Among(calls, S)[m] = calls[j]
  <2>1. \A m \in DOMAIN Among(calls, S) : \E j \in DOMAIN calls : AmongBefore(Among(calls, S), calls, S, m, j)
    BY AmongOrdered
  <2> QED BY <2>1 DEF AmongBefore
<1>7. ASSUME TUOne PROVE TUChained(left, table, V)
  <2>1. TUChained(calls, table, V)
    BY <1>1, <1>2, <1>7 DEF TUInvariant, TUChain
  <2>2. PICK mode, known : mode = spec.mode /\ known = local
    OBVIOUS
  <2>3. \A i \in DOMAIN calls : \A c \in calls[i].codes : calls[i].codes = TUScope(mode, known, c)
    BY <1>2, <2>2 DEF TUInvariant, TUShaped, TUFits
  <2>4. TUChained(Among(calls, S), table, V)
    BY <1>4, <2>1, <2>3, TUDropChained
  <2> QED BY <1>5, <2>4
<1>8. \A m \in DOMAIN left : \E j \in DOMAIN run.calls : left[m] = run.calls[j]
  BY <1>2, <1>5, <1>6
<1>9. TUOne => TUChained(left, table, spec.variants)
  BY <1>1, <1>7
<1> QED BY <1>8, <1>9

\* What a failed code leaves as it was.
LEMMA TUDropped ==
  ASSUME TUInvariant, run.pc \in {"fetch", "save", "more"}, run.calls # <<>>, Head(run.calls).of = "task",
         run' = [run EXCEPT !.pc = "fetch", !.rows = {}, !.failed = TRUE, !.tries = 0,
                            !.calls = Tushare!Among(@, {q \in Tushare!ToSet(@) : q.codes # Head(@).codes})]
  PROVE  /\ TUWorking(run) /\ run' \in TURun(spec.variants) /\ run'.pc = "fetch" /\ run'.failed
         /\ run'.calls \in Seq(TUCall(spec.variants))
         /\ run'.calls = Among(run.calls, TUOthers(run.calls, Head(run.calls).codes))
         /\ run'.tasks = run.tasks /\ run'.end = run.end /\ run'.day = run.day
         /\ run'.codes = run.codes /\ run'.resolving = run.resolving
<1>1. TUWorking(run) /\ run \in TURun(spec.variants)
  BY TUTaskHead, TURunning DEF TUInvariant, TUPhase, TUSaving
<1>2. run.calls \in Seq(TUCall(spec.variants))
  BY <1>1, TUHead
<1>3. PICK S : S = TUOthers(run.calls, Head(run.calls).codes)
  OBVIOUS
<1>4. Tushare!Among(run.calls, {q \in Tushare!ToSet(run.calls) : q.codes # Head(run.calls).codes}) = Among(run.calls, S)
  <2>1. Tushare!ToSet(run.calls) = ToSet(run.calls)
    BY DEF Tushare!ToSet, ToSet
  <2>2. {q \in Tushare!ToSet(run.calls) : q.codes # Head(run.calls).codes} = S
    BY <1>3, <2>1 DEF TUOthers
  <2> QED BY <2>2, TULists
<1>5. PICK left \in Seq(TUCall(spec.variants)) : left = Among(run.calls, S)
  BY <1>2, AmongOrdered
<1>6. PICK calls \in Seq(TUCall(spec.variants)) \union {<<[of |-> "source"]>>} : calls = left
  OBVIOUS
<1>7. PICK nothing \in SUBSET (spec.variants \X Codes \X (1..LastDay)) : nothing = {}
  OBVIOUS
<1>8. PICK zero \in Int : zero = 0
  OBVIOUS
<1>9. PICK yes \in BOOLEAN : yes = TRUE
  OBVIOUS
<1>10. run' = [run EXCEPT !.pc = "fetch", !.rows = nothing, !.failed = yes, !.tries = zero, !.calls = calls]
  BY <1>4, <1>5, <1>6, <1>7, <1>8, <1>9
<1>11. run' \in TURun(spec.variants)
  BY <1>1, <1>10, ZenonT(60) DEF TURun
<1>12. /\ run'.pc = "fetch" /\ run'.failed = yes /\ run'.calls = calls
       /\ run'.tasks = run.tasks /\ run'.end = run.end /\ run'.day = run.day
       /\ run'.codes = run.codes /\ run'.resolving = run.resolving
  BY <1>1, <1>10 DEF TURun
<1> QED BY <1>1, <1>3, <1>5, <1>6, <1>9, <1>11, <1>12

\* A list of some of the calls of a plan fits what the plan fits.
LEMMA TUFewer ==
  ASSUME NEW list, NEW target, TUFits(list, target),
         NEW fewer, \A m \in DOMAIN fewer : \E j \in DOMAIN list : fewer[m] = list[j]
  PROVE  TUFits(fewer, target)
<1> SUFFICES ASSUME NEW m \in DOMAIN fewer
             PROVE  /\ fewer[m].codes \subseteq target
                    /\ TUPlain => /\ fewer[m].days \subseteq 1..run.end
                                  /\ \A c \in fewer[m].codes : fewer[m].codes = TUScope(spec.mode, local, c)
  BY DEF TUFits
<1>1. PICK j \in DOMAIN list : fewer[m] = list[j]
  OBVIOUS
<1> QED BY <1>1 DEF TUFits

\* Going on without a failed code keeps the invariant.
LEMMA TURowDrop ==
  ASSUME TUInvariant, run.calls # <<>>, TUWorking(run), TUPlain, UNCHANGED <<today, spec, table, local, cache>>,
         "mid response" \notin stops' => "mid response" \notin stops /\ run.pc # "more", stops' # {},
         run' \in TURun(spec.variants), run'.pc = "fetch", run'.failed, run'.calls \in Seq(TUCall(spec.variants)),
         run'.calls = Among(run.calls, TUOthers(run.calls, Head(run.calls).codes)),
         run'.tasks = run.tasks, run'.end = run.end, run'.day = run.day,
         run'.codes = run.codes, run'.resolving = run.resolving
  PROVE  TUInvariant'
<1> DEFINE V == spec.variants
<1>1. run.calls \in Seq(TUCall(V)) /\ run.pc # "idle"
  BY TUHead DEF TUWorking
<1>2. TUFits(run.calls, TUTarget(run))
  BY DEF TUInvariant, TUShaped
<1>3. TUWorking(run)' /\ ~TUSaving(run)' /\ TUTarget(run)' = TUTarget(run)
  BY DEF TUWorking, TUSaving, TUTarget
<1>4. /\ \A m \in DOMAIN run'.calls : \E j \in DOMAIN run.calls : run'.calls[m] = run.calls[j]
      /\ TUOne => TUChained(run'.calls, table, V)
  BY TUDropLeaves
<1>5. TUTyped'
  BY DEF TUInvariant, TUTyped
<1>6. TUPhase'
  <2>1. run.tasks # <<>> /\ run.end <= run.day /\ run.day <= today
    BY <1>1 DEF TUInvariant, TUPhase
  <2>2. ~run'.resolving
    BY <1>3 DEF TUWorking
  <2> QED BY <1>3, <2>1, <2>2 DEF TUPhase
<1>7. TUShaped'
  <2>1. PICK fewer : fewer = run'.calls
    OBVIOUS
  <2>2. \A m \in DOMAIN fewer : \E j \in DOMAIN run.calls : fewer[m] = run.calls[j]
    BY <1>4, <2>1
  <2>3. TUFits(fewer, TUTarget(run))
    BY <1>2, <2>2, TUFewer
  <2>4. TUFits(run'.calls, TUTarget(run))
    BY <2>1, <2>3
  <2> QED BY <1>3, <2>4 DEF TUShaped, TUFits, TUPlain
<1>8. TUDated'
  <2>1. ASSUME NEW x \in V, NEW c \in Codes, NEW d \in 1..LastDay
        PROVE  /\ table[<<x, c, d>>] # "none" => d <= today
               /\ table[<<x, c, d>>] = "final" => d < today
    BY DEF TUInvariant, TUDated
  <2> QED BY <1>3, <2>1 DEF TUDated
<1>9. TUAnswer'
  BY <1>3 DEF TUAnswer
<1>10. TUOne' => TUOne /\ run.pc # "more"
  BY DEF TUOne
<1>11. TUChain'
  BY <1>4, <1>10 DEF TUChain
<1>12. TUNoGap'
  <2> SUFFICES ASSUME TUOne, run.pc # "more", NEW x \in V, NEW c \in Codes, NEW d \in 1..LastDay,
                      d < TUBehind(table, V, spec.mode, local, c)
               PROVE  table[<<x, c, d>>] = "final"
    BY <1>10 DEF TUNoGap
  <2> QED BY DEF TUInvariant, TUNoGap
<1>13. TUPromise' /\ TUTask'
  BY DEF TUPromise, TUTask
<1> QED BY <1>5, <1>6, <1>7, <1>8, <1>9, <1>11, <1>12, <1>13 DEF TUInvariant

\* Raise keeps the invariant.
LEMMA TURaise ==
  ASSUME TUInvariant, run.pc \in {"fetch", "save", "more"}, run.calls # <<>>, NEW kd, Tushare!Raise(kd)
  PROVE  TUInvariant'
<1>1. UNCHANGED <<today, spec, table, local, cache>> /\ Tushare!CutShort(kd)
  BY DEF Tushare!Raise
<1>2. CASE run.resolving
  BY <1>2, TURaiseResolving
<1>3. CASE ~run.resolving /\ kd = "row" /\ spec.mode = "code_range" /\ run.opts.goOn
           /\ Head(run.calls).of = "task" /\ run.codes # {}
  <2>1. run' = [run EXCEPT !.pc = "fetch", !.rows = {}, !.failed = TRUE, !.tries = 0,
                           !.calls = Tushare!Among(@, {q \in Tushare!ToSet(@) : q.codes # Head(@).codes})]
    BY <1>3 DEF Tushare!Raise
  <2>2. TUPlain
    BY <1>3 DEF TUPlain
  <2>3. /\ TUWorking(run) /\ run' \in TURun(spec.variants) /\ run'.pc = "fetch" /\ run'.failed
        /\ run'.calls \in Seq(TUCall(spec.variants))
        /\ run'.calls = Among(run.calls, TUOthers(run.calls, Head(run.calls).codes))
        /\ run'.tasks = run.tasks /\ run'.end = run.end /\ run'.day = run.day
        /\ run'.codes = run.codes /\ run'.resolving = run.resolving
    BY <1>3, <2>1, TUDropped
  <2>4. /\ "mid response" \notin stops' => "mid response" \notin stops /\ run.pc # "more"
        /\ stops' # {}
    BY <1>1, <1>3, TUCut
  <2> QED BY <1>1, <2>2, <2>3, <2>4, TURowDrop
<1>4. CASE ~run.resolving /\ ~(kd = "row" /\ spec.mode = "code_range" /\ run.opts.goOn
                               /\ Head(run.calls).of = "task" /\ run.codes # {})
  <2>1. run' = Tushare!Idle \/ run' = Tushare!NextTask(run)
    BY <1>4 DEF Tushare!Raise, Tushare!TaskFails
  <2>2. /\ "mid response" \notin stops' => "mid response" \notin stops /\ run.pc # "more"
        /\ stops' = {} => stops = {} /\ \A x, c, d : ~TUPending(run, x, c, d)
    BY <1>1, TUCut
  <2>3. cache' \in SUBSET local
    BY <1>1 DEF TUInvariant, TUTyped
  <2> QED BY <1>1, <2>1, <2>2, <2>3, TUEnded
<1> QED BY <1>2, <1>3, <1>4

\* RequestFails keeps the invariant.
LEMMA TURequestFails == ASSUME TUInvariant, Tushare!RequestFails PROVE TUInvariant'
<1>1. run.pc = "fetch" /\ run.calls # <<>>
  BY DEF Tushare!RequestFails, Tushare!Requesting
<1>2. CASE Tushare!Raise("api")
  BY <1>1, <1>2, TURaise
<1>3. CASE run' = [run EXCEPT !.used = @ + 1, !.tries = @ + 1] /\ UNCHANGED <<today, spec, table, local, cache, stops>>
  <2>1. run \in TURun(spec.variants) /\ today \in 1..LastDay /\ LastDay \in Nat
    BY <1>1, TURunning DEF TUInvariant
  <2>2. run.used \in Int /\ run.tries \in Int
    BY <2>1 DEF TURun
  <2>3. PICK m \in Int : m = run.used + 1
    BY <2>2
  <2>4. PICK n \in Int : n = run.tries + 1
    BY <2>2
  <2>5. run' = [run EXCEPT !.used = m, !.tries = n]
    BY <1>3, <2>3, <2>4
  <2>6. /\ run' \in TURun(spec.variants) /\ run'.pc = run.pc
        /\ run'.tasks = run.tasks /\ run'.opts = run.opts /\ run'.end = run.end /\ run'.day = run.day
        /\ run'.asked = run.asked /\ run'.codes = run.codes /\ run'.calls = run.calls /\ run'.rows = run.rows
        /\ run'.resolving = run.resolving /\ run'.failed = run.failed
    BY <2>1, <2>5 DEF TURun
  <2>7. TUTyped'
    BY <1>3, <2>6 DEF TUInvariant, TUTyped
  <2>8. today <= today'
    BY <1>3, <2>1
  <2> QED BY <1>3, <2>6, <2>7, <2>8, TUSameWork
<1> QED BY <1>2, <1>3 DEF Tushare!RequestFails

\* Tick keeps the invariant.
LEMMA TUTick == ASSUME TUInvariant, Tushare!Tick PROVE TUInvariant'
<1>1. today' = today + 1 /\ today < LastDay /\ UNCHANGED <<spec, table, local, cache, run, stops>>
  BY DEF Tushare!Tick
<1>2. today \in 1..LastDay /\ LastDay \in Nat
  BY ProviderAssumption DEF TUInvariant, TUTyped
<1>3. today' \in 1..LastDay /\ today <= today'
  BY <1>1, <1>2
<1>4. TUTyped'
  BY <1>1, <1>3 DEF TUInvariant, TUTyped
<1> QED BY <1>1, <1>3, <1>4, TUSameWork

\* Every step of the Tushare runner keeps the invariant.
LEMMA TUStep == ASSUME TUInvariant, Tushare!Next PROVE TUInvariant'
<1>1. CASE \E b \in Tushare!Batches, o \in Tushare!Options, e \in Tushare!Days : Tushare!StartRun(b, o, e)
  BY <1>1, TUStartRun
<1>2. CASE Tushare!BeginTask
  BY <1>2, TUBeginTask
<1>3. CASE /\ run.pc = "fetch" /\ run.calls # <<>> /\ Head(run.calls).of = "task"
           /\ \E rows \in Tushare!Responses(Head(run.calls)) : Tushare!FetchRows(rows)
  <2>1. PICK rows \in Tushare!Responses(Head(run.calls)) : Tushare!FetchRows(rows)
    BY <1>3
  <2> QED BY <1>3, <2>1, TUFetchFull, TUFetchPart
<1>4. CASE \E listed \in SUBSET Codes, more \in BOOLEAN : Tushare!FetchSource(listed, more)
  BY <1>4, TUFetchSource
<1>5. CASE Tushare!RequestFails
  BY <1>5, TURequestFails
<1>6. CASE Tushare!BudgetExceeded
  BY <1>6, TURaise DEF Tushare!BudgetExceeded, Tushare!Requesting
<1>7. CASE Tushare!RowFails
  <2>1. run.pc \in {"fetch", "save", "more"} /\ run.calls # <<>>
    BY <1>7 DEF Tushare!RowFails, Tushare!Requesting, TUInvariant, TUPhase, TUSaving
  <2> QED BY <1>7, <2>1, TURaise DEF Tushare!RowFails
<1>8. CASE run.pc \in {"save", "more"} /\ \E part \in Tushare!InsertBatches : Tushare!SaveRows(part)
  BY <1>8, TUSaveRows
<1>9. CASE Tushare!ResolveUniverse
  BY <1>9, TUResolve
<1>10. CASE Tushare!FinishTask \/ Tushare!FinishWithFailedCodes
  BY <1>10, TUFinish
<1>11. CASE Tushare!Killed
  BY <1>11, TUKilled
<1>12. CASE Tushare!Tick
  BY <1>12, TUTick
<1> QED BY <1>1, <1>2, <1>3, <1>4, <1>5, <1>6, <1>7, <1>8, <1>9, <1>10, <1>11, <1>12 DEF Tushare!Next

\* The invariant holds initially.
LEMMA TUInit == ASSUME Tushare!Init PROVE TUInvariant
<1>1. /\ today = 1 /\ spec \in Specs /\ local = {} /\ cache = {} /\ run = Tushare!Idle /\ stops = {}
      /\ table = [x \in spec.variants \X Codes \X (1..LastDay) |-> "none"]
  BY DEF Tushare!Init, Tushare!Days
<1>2. IsFiniteSet(spec.variants) /\ LastDay \in Nat \ {0}
  BY <1>1, ProviderAssumption
<1>3. run.pc = "idle"
  BY <1>1 DEF Tushare!Idle
<1>4. TUTyped
  BY <1>1, <1>2 DEF TUTyped
<1>5. ~TUWorking(run) /\ ~TUSaving(run)
  BY <1>3 DEF TUWorking, TUSaving
<1>6. \A x \in spec.variants, c \in Codes, d \in 1..LastDay : table[<<x, c, d>>] = "none"
  BY <1>1
<1>7. TUDated
  BY <1>6 DEF TUDated
<1>8. ASSUME NEW c \in Codes, NEW d \in 1..LastDay, d < TUBehind(table, spec.variants, spec.mode, local, c) PROVE FALSE
  <2>1. PICK S : S = TUScope(spec.mode, local, c)
    OBVIOUS
  <2>2. PICK n : n = TUCursor(table, spec.variants, S)
    OBVIOUS
  <2>3. d < n
    BY <1>8, <2>1, <2>2 DEF TUBehind
  <2>4. n \in 0..LastDay /\ (n # 0 => \E x \in spec.variants, k \in S : table[<<x, k, n>>] # "none")
    BY <2>2, TUCursorDay
  <2>5. S \subseteq Codes
    BY <2>1 DEF TUScope
  <2>6. n # 0 /\ n \in 1..LastDay
    BY <1>2, <2>3, <2>4
  <2> QED BY <1>6, <2>4, <2>5, <2>6
<1>9. TUNoGap /\ TUPromise
  BY <1>8 DEF TUNoGap, TUPromise
<1> QED BY <1>3, <1>4, <1>5, <1>7, <1>9 DEF TUInvariant, TUPhase, TUShaped, TUFits, TUAnswer, TUChain, TUTask

\* A step that changes nothing keeps it.
LEMMA TUStutter == ASSUME TUInvariant, UNCHANGED vars PROVE TUInvariant'
<1>1. UNCHANGED <<today, spec, table, local, cache, run, stops>>
  BY DEF vars
<1>2. TUTyped' /\ today <= today'
  BY <1>1, ProviderAssumption DEF TUInvariant, TUTyped
<1> QED BY <1>1, <1>2, TUSameWork

\* ResumeLosesNothing follows from the invariant.
LEMMA TUResume == ASSUME TUInvariant PROVE Tushare!ResumeLosesNothing
<1> SUFFICES ASSUME run.pc = "idle", spec.mode # "snapshot", Tushare!CursorSpeaksForAll,
                    NEW x \in spec.variants, NEW c \in Codes, NEW d \in 1..LastDay,
                    d < Tushare!LatestCursor(Tushare!CursorScope(c))
             PROVE  table[<<x, c, d>>] = "final"
  BY DEF Tushare!ResumeLosesNothing, Tushare!GapFree, Tushare!Days
<1>1. TUOne \/ stops = {}
  BY DEF Tushare!CursorSpeaksForAll, TUOne, Tushare!Cardinality, Cardinality
<1>2. TUPlain /\ ~TUWorking(run)
  BY DEF TUPlain, TUWorking
<1>3. PICK more : more = local \union {c}
  OBVIOUS
<1>4. Tushare!CursorScope(c) = TUScope(spec.mode, more, c)
  BY <1>3 DEF Tushare!CursorScope, Tushare!NeedsCodes, TUScope
<1>5. d < TUBehind(table, spec.variants, spec.mode, more, c)
  BY <1>4, TUCursorIs DEF TUBehind
<1>6. d < TUBehind(table, spec.variants, spec.mode, local, c)
  BY <1>3, <1>5, TUBehindMore
<1>7. CASE TUOne
  BY <1>2, <1>6, <1>7 DEF TUInvariant, TUNoGap
<1>8. CASE stops = {}
  BY <1>2, <1>6, <1>8 DEF TUInvariant, TUPromise, TUPending
<1> QED BY <1>1, <1>7, <1>8

\* SuccessIsComplete follows from the invariant.
LEMMA TUComplete == ASSUME TUInvariant PROVE Tushare!SuccessIsComplete
<1> SUFFICES ASSUME Tushare!FinishTask, Head(run.tasks) = "task", Tushare!CursorSpeaksForAll,
                    NEW x \in spec.variants, NEW c \in TUTarget(run), NEW d \in 1..LastDay,
                    d <= run.end, d < run.day, run.opts.resume => d < run.end
             PROVE  table[<<x, c, d>>] = "final"
  BY DEF Tushare!SuccessIsComplete, Tushare!Days, TUTarget
<1>1. run.pc = "fetch" /\ run.calls = <<>> /\ ~run.failed
  BY DEF Tushare!FinishTask
<1>2. Tushare!SourceCalls # <<>>
  BY DEF Tushare!SourceCalls
<1>3. TUWorking(run)
  BY <1>1, <1>2 DEF TUInvariant, TUPhase, TUWorking
<1>4. TUOne \/ stops = {}
  BY DEF Tushare!CursorSpeaksForAll, TUOne, Tushare!Cardinality, Cardinality
<1>5. table[<<x, c, d>>] = "final" \/ TUPending(run, x, c, d)
  BY <1>1, <1>3, <1>4 DEF TUInvariant, TUTask
<1>6. ~TUPending(run, x, c, d)
  BY <1>1, TUIdlePending
<1> QED BY <1>5, <1>6

--------------------------------------------------------------------------------
(* The saved universe. *)

\* All of a source is saved, and its task is about to end.
TUListedAll == run.pc = "fetch" /\ Head(run.tasks) = "source" /\ run.calls = <<>>

\* What is cached is the saved universe, and what a task works on has all of it, but after a source
\* task that has saved a part; the cache is empty while the universe is resolved.
TUUniverse ==
    run.pc # "idle" =>
        /\ run.resolving => cache = {}
        /\ run.failed => Head(run.tasks) = "task"
        /\ ~run.partial => TUListedAll \/ cache = {} \/ local \subseteq cache
        /\ ~run.partial /\ TUWorking(run) /\ Tushare!NeedsCodes => local \subseteq run.codes

\* The end of a task keeps it.
LEMMA TUUniverseEnds ==
  ASSUME TUInvariant, TUUniverse, run.pc # "idle", UNCHANGED <<spec, local>>,
         run' = Tushare!Idle \/ run' = Tushare!NextTask(run),
         cache' \in {{}, local} \/ (cache' = cache /\ ~TUListedAll)
  PROVE  TUUniverse'
<1>1. run \in TURun(spec.variants)
  BY TURunning DEF TUInvariant
<1>2. run' = Tushare!Idle \/ (run'.pc = "task" /\ ~run'.resolving /\ ~run'.failed /\ run'.partial = run.partial)
  <2> SUFFICES ASSUME run' = [run EXCEPT !.pc = "task", !.tasks = Tail(@), !.calls = <<>>, !.rows = {},
                                         !.resolving = FALSE, !.failed = FALSE, !.tries = 0]
               PROVE  run'.pc = "task" /\ ~run'.resolving /\ ~run'.failed /\ run'.partial = run.partial
    BY DEF Tushare!NextTask
  <2> QED BY <1>1 DEF TURun
<1>3. Tushare!Idle.pc = "idle"
  BY DEF Tushare!Idle
<1>4. CASE run' = Tushare!Idle
  BY <1>3, <1>4 DEF TUUniverse
<1>5. CASE run' # Tushare!Idle
  <2>1. ~run.partial => cache' = {} \/ local \subseteq cache'
    BY DEF TUUniverse
  <2> QED BY <1>2, <1>5, <2>1 DEF TUUniverse, TUWorking
<1> QED BY <1>4, <1>5

\* Work that goes on keeps it.
LEMMA TUUniverseSame ==
  ASSUME TUUniverse, run.pc # "idle", UNCHANGED <<spec, local, cache>>, ~TUListedAll,
         run'.tasks = run.tasks, run'.codes = run.codes, run'.resolving = run.resolving, run'.partial = run.partial,
         run'.failed => run.failed \/ Head(run.tasks) = "task", TUWorking(run)' => TUWorking(run)
  PROVE  TUUniverse'
BY DEF TUUniverse, Tushare!NeedsCodes

\* BeginTask and ResolveUniverse keep it: they take the universe from the cache, or what is saved.
LEMMA TUUniverseBegins == ASSUME TUInvariant, TUUniverse, Tushare!BeginTask PROVE TUUniverse'
<1>1. run.pc = "task" /\ UNCHANGED <<spec, local>>
  BY DEF Tushare!BeginTask
<1>2. run \in TURun(spec.variants) /\ run.pc # "idle" /\ ~TUListedAll
  BY <1>1, TURunning DEF TUInvariant, TUListedAll
<1>3. CASE Head(run.tasks) = "source" /\ run' = [run EXCEPT !.pc = "fetch", !.calls = Tushare!SourceCalls] /\ UNCHANGED cache
  <2>1. /\ run'.tasks = run.tasks /\ run'.codes = run.codes /\ run'.resolving = run.resolving
        /\ run'.partial = run.partial /\ run'.failed = run.failed
    BY <1>2, <1>3 DEF TURun
  <2>2. ~TUWorking(run)'
    BY <1>3, <2>1 DEF TUWorking
  <2> QED BY <1>1, <1>2, <1>3, <2>1, <2>2, TUUniverseSame
<1>4. CASE Head(run.tasks) = "task" /\ ~Tushare!NeedsCodes /\ Tushare!Work(Codes) /\ UNCHANGED cache
  <2>1. /\ run'.tasks = run.tasks /\ run'.resolving = FALSE /\ run'.partial = run.partial /\ run'.failed = run.failed
    BY <1>2, <1>4 DEF TURun, Tushare!Work
  <2> QED BY <1>1, <1>2, <1>4, <2>1 DEF TUUniverse, Tushare!NeedsCodes
<1>5. CASE /\ Head(run.tasks) = "task" /\ Tushare!NeedsCodes /\ cache \union local # {}
           /\ cache' = IF cache = {} THEN local ELSE cache
           /\ Tushare!Work(cache')
  <2>1. /\ run'.tasks = run.tasks /\ run'.resolving = FALSE /\ run'.partial = run.partial /\ run'.failed = run.failed
        /\ run'.codes = cache'
    BY <1>2, <1>5 DEF TURun, Tushare!Work
  <2>2. ~run.partial => local \subseteq cache'
    BY <1>2, <1>5 DEF TUUniverse
  <2> QED BY <1>1, <1>5, <2>1, <2>2 DEF TUUniverse
<1>6. CASE /\ Head(run.tasks) = "task" /\ Tushare!NeedsCodes /\ cache \union local = {}
           /\ run' = [run EXCEPT !.pc = "fetch", !.calls = Tushare!SourceCalls, !.resolving = TRUE] /\ UNCHANGED cache
  <2>1. run'.tasks = run.tasks /\ run'.resolving = TRUE /\ run'.failed = run.failed
    BY <1>2, <1>6 DEF TURun
  <2> QED BY <1>1, <1>6, <2>1 DEF TUUniverse, TUWorking
<1> QED BY <1>3, <1>4, <1>5, <1>6 DEF Tushare!BeginTask

LEMMA TUUniverseResolves == ASSUME TUInvariant, TUUniverse, Tushare!ResolveUniverse PROVE TUUniverse'
<1>1. run.pc = "resolve" /\ cache' = local /\ UNCHANGED <<spec, local>>
  BY DEF Tushare!ResolveUniverse
<1>2. run \in TURun(spec.variants) /\ run.pc # "idle" /\ Head(run.tasks) = "task"
  BY <1>1, TURunning DEF TUInvariant, TUPhase
<1>3. CASE Tushare!TaskFails
  BY <1>1, <1>2, <1>3, TUUniverseEnds DEF Tushare!TaskFails
<1>4. CASE Tushare!Work(local)
  <2>1. /\ run'.tasks = run.tasks /\ run'.resolving = FALSE /\ run'.codes = local
    BY <1>2, <1>4 DEF TURun, Tushare!Work
  <2> QED BY <1>1, <1>2, <2>1 DEF TUUniverse
<1> QED BY <1>3, <1>4 DEF Tushare!ResolveUniverse

\* FetchSource keeps it: while the universe is resolved nothing is cached.
LEMMA TUUniverseGrows ==
  ASSUME TUInvariant, TUUniverse, NEW listed \in SUBSET Codes, NEW more \in BOOLEAN, Tushare!FetchSource(listed, more)
  PROVE  TUUniverse'
<1>1. /\ run.pc = "fetch" /\ run.calls # <<>> /\ Head(run.calls).of = "source" /\ UNCHANGED <<spec, cache>>
      /\ run' = [run EXCEPT !.used = @ + 1, !.tries = 0, !.calls = IF more THEN @ ELSE <<>>,
                            !.pc = IF run.resolving /\ ~more THEN "resolve" ELSE "fetch",
                            !.partial = IF run.resolving THEN @ ELSE more]
  BY DEF Tushare!FetchSource, Tushare!Requesting
<1>2. run \in TURun(spec.variants) /\ run.pc # "idle"
  BY <1>1, TURunning DEF TUInvariant
<1>3. /\ run'.tasks = run.tasks /\ run'.resolving = run.resolving /\ run'.failed = run.failed
      /\ run'.calls = (IF more THEN run.calls ELSE <<>>) /\ run'.partial = (IF run.resolving THEN run.partial ELSE more)
      /\ run'.pc = IF run.resolving /\ ~more THEN "resolve" ELSE "fetch"
  BY <1>1, <1>2 DEF TURun
<1>4. ~TUWorking(run)
  BY <1>1, TUSourceOff
<1>5. ~TUWorking(run)'
  BY <1>1, <1>3, <1>4 DEF TUWorking
<1>6. run.tasks \in Seq({"task", "source"}) /\ run.tasks # <<>>
  BY <1>2 DEF TURun, TUInvariant, TUPhase
<1>7. Head(run.tasks) \in {"task", "source"}
  BY <1>6, ListEnds
<1>8. ~run.resolving => Head(run.tasks) = "source"
  BY <1>1, <1>4, <1>7 DEF TUWorking
<1>9. ~run.resolving /\ ~more => TUListedAll'
  BY <1>3, <1>8 DEF TUListedAll
<1> QED BY <1>1, <1>2, <1>3, <1>5, <1>9 DEF TUUniverse

\* Errors keep it.
LEMMA TUUniverseRaises ==
  ASSUME TUInvariant, TUUniverse, run.pc \in {"fetch", "save", "more"}, run.calls # <<>>, NEW kd, Tushare!Raise(kd)
  PROVE  TUUniverse'
<1>1. UNCHANGED <<spec, local, cache>> /\ ~TUListedAll
  BY DEF Tushare!Raise, TUListedAll
<1>2. run \in TURun(spec.variants) /\ run.pc # "idle"
  BY TURunning DEF TUInvariant
<1>3. CASE run.resolving
  <2>1. run' = [run EXCEPT !.pc = "resolve", !.calls = <<>>, !.rows = {}, !.tries = 0]
    BY <1>3 DEF Tushare!Raise
  <2>2. /\ run'.tasks = run.tasks /\ run'.codes = run.codes /\ run'.resolving = run.resolving
        /\ run'.partial = run.partial /\ run'.failed = run.failed /\ run'.pc = "resolve"
    BY <1>2, <2>1 DEF TURun
  <2>3. ~TUWorking(run)'
    BY <2>2 DEF TUWorking
  <2> QED BY <1>1, <1>2, <2>2, <2>3, TUUniverseSame
<1>4. CASE ~run.resolving /\ kd = "row" /\ spec.mode = "code_range" /\ run.opts.goOn
           /\ Head(run.calls).of = "task" /\ run.codes # {}
  <2>1. PICK calls : run' = [run EXCEPT !.pc = "fetch", !.rows = {}, !.failed = TRUE, !.tries = 0, !.calls = calls]
    BY <1>4 DEF Tushare!Raise
  <2>2. /\ run'.tasks = run.tasks /\ run'.codes = run.codes /\ run'.resolving = run.resolving
        /\ run'.partial = run.partial
    BY <1>2, <2>1 DEF TURun
  <2>3. TUWorking(run)
    BY <1>4, TUTaskHead DEF TUInvariant, TUPhase, TUSaving
  <2>4. Head(run.tasks) = "task"
    BY <2>3 DEF TUWorking
  <2> QED BY <1>1, <1>2, <2>2, <2>3, <2>4, TUUniverseSame
<1>5. CASE ~run.resolving /\ ~(kd = "row" /\ spec.mode = "code_range" /\ run.opts.goOn
                               /\ Head(run.calls).of = "task" /\ run.codes # {})
  <2>1. run' = Tushare!Idle \/ run' = Tushare!NextTask(run)
    BY <1>5 DEF Tushare!Raise, Tushare!TaskFails
  <2> QED BY <1>1, <1>2, <2>1, TUUniverseEnds
<1> QED BY <1>3, <1>4, <1>5

\* Requests of the task and their rows keep it.
LEMMA TUUniverseWorks ==
  ASSUME TUInvariant, TUUniverse,
         \/ /\ run.pc = "fetch" /\ run.calls # <<>> /\ Head(run.calls).of = "task"
            /\ \E rows \in Tushare!Responses(Head(run.calls)) : Tushare!FetchRows(rows)
         \/ run.pc \in {"save", "more"} /\ \E part \in Tushare!InsertBatches : Tushare!SaveRows(part)
  PROVE  TUUniverse'
<1>1. run \in TURun(spec.variants) /\ run.pc # "idle" /\ TUWorking(run)
  BY TURunning, TUTaskHead DEF TUInvariant, TUPhase, TUSaving
<1>2. ~TUListedAll
  BY <1>1 DEF TUListedAll, TUWorking
<1>3. /\ run'.tasks = run.tasks /\ run'.codes = run.codes /\ run'.resolving = run.resolving
      /\ run'.partial = run.partial /\ run'.failed = run.failed /\ UNCHANGED <<spec, local, cache>>
  <2>1. CASE \E rows : Tushare!FetchRows(rows)
    <3>1. PICK rows : Tushare!FetchRows(rows)
      BY <2>1
    <3>2. PICK n, pc, got, calls :
             run' = [run EXCEPT !.used = n, !.tries = 0, !.asked = today, !.pc = pc, !.rows = got, !.calls = calls]
      BY <3>1 DEF Tushare!FetchRows
    <3> QED BY <1>1, <3>1, <3>2 DEF TURun, Tushare!FetchRows
  <2>2. CASE \E part : Tushare!SaveRows(part)
    <3>1. PICK part : Tushare!SaveRows(part)
      BY <2>2
    <3>2. PICK rest, pc, calls : run' = [run EXCEPT !.rows = rest, !.pc = pc, !.calls = calls]
      BY <3>1 DEF Tushare!SaveRows
    <3> QED BY <1>1, <3>1, <3>2 DEF TURun, Tushare!SaveRows
  <2> QED BY <2>1, <2>2
<1> QED BY <1>1, <1>2, <1>3, TUUniverseSame

\* Every step keeps it.
LEMMA TUUniverseStep == ASSUME TUInvariant, TUUniverse, Tushare!Next PROVE TUUniverse'
<1>1. CASE \E b \in Tushare!Batches, o \in Tushare!Options, e \in Tushare!Days : Tushare!StartRun(b, o, e)
  BY <1>1 DEF Tushare!StartRun, TUUniverse, TUWorking
<1>2. CASE Tushare!BeginTask
  BY <1>2, TUUniverseBegins
<1>3. CASE \/ /\ run.pc = "fetch" /\ run.calls # <<>> /\ Head(run.calls).of = "task"
              /\ \E rows \in Tushare!Responses(Head(run.calls)) : Tushare!FetchRows(rows)
           \/ run.pc \in {"save", "more"} /\ \E part \in Tushare!InsertBatches : Tushare!SaveRows(part)
  BY <1>3, TUUniverseWorks
<1>4. CASE \E listed \in SUBSET Codes, more \in BOOLEAN : Tushare!FetchSource(listed, more)
  BY <1>4, TUUniverseGrows
<1>5. CASE Tushare!RequestFails
  <2>1. run.pc = "fetch" /\ run.calls # <<>>
    BY <1>5 DEF Tushare!RequestFails, Tushare!Requesting
  <2>2. CASE Tushare!Raise("api")
    BY <2>1, <2>2, TUUniverseRaises
  <2>3. CASE run' = [run EXCEPT !.used = @ + 1, !.tries = @ + 1] /\ UNCHANGED <<today, spec, table, local, cache, stops>>
    <3>1. run \in TURun(spec.variants) /\ run.pc # "idle" /\ ~TUListedAll
      BY <2>1, TURunning DEF TUInvariant, TUListedAll
    <3>2. PICK m, n : run' = [run EXCEPT !.used = m, !.tries = n]
      BY <2>3
    <3>3. /\ run'.tasks = run.tasks /\ run'.codes = run.codes /\ run'.resolving = run.resolving
          /\ run'.partial = run.partial /\ run'.failed = run.failed /\ run'.pc = run.pc
      BY <3>1, <3>2 DEF TURun
    <3> QED BY <2>3, <3>1, <3>3, TUUniverseSame DEF TUWorking
  <2> QED BY <1>5, <2>2, <2>3 DEF Tushare!RequestFails
<1>6. CASE Tushare!BudgetExceeded
  BY <1>6, TUUniverseRaises DEF Tushare!BudgetExceeded, Tushare!Requesting
<1>7. CASE Tushare!RowFails
  <2>1. run.pc \in {"fetch", "save", "more"} /\ run.calls # <<>>
    BY <1>7 DEF Tushare!RowFails, Tushare!Requesting, TUInvariant, TUPhase, TUSaving
  <2> QED BY <1>7, <2>1, TUUniverseRaises DEF Tushare!RowFails
<1>8. CASE Tushare!ResolveUniverse
  BY <1>8, TUUniverseResolves
<1>9. CASE Tushare!FinishTask
  <2>1. /\ run.pc # "idle" /\ run' = Tushare!NextTask(run) /\ UNCHANGED <<spec, local>>
        /\ cache' = IF Head(run.tasks) = "source" THEN {} ELSE cache
    BY <1>9 DEF Tushare!FinishTask
  <2>2. cache' \in {{}, local} \/ (cache' = cache /\ ~TUListedAll)
    BY <2>1 DEF TUListedAll
  <2> QED BY <2>1, <2>2, TUUniverseEnds
<1>10. CASE Tushare!FinishWithFailedCodes
  <2>1. /\ run.pc # "idle" /\ run' \in {Tushare!Idle, Tushare!NextTask(run)} /\ UNCHANGED <<spec, local, cache>>
        /\ run.failed
    BY <1>10 DEF Tushare!FinishWithFailedCodes, Tushare!TaskFails
  <2>2. ~TUListedAll
    BY <2>1 DEF TUUniverse, TUListedAll
  <2> QED BY <2>1, <2>2, TUUniverseEnds
<1>11. CASE Tushare!Killed
  <2>1. run' = Tushare!Idle
    BY <1>11 DEF Tushare!Killed
  <2>2. run'.pc = "idle"
    BY <2>1 DEF Tushare!Idle
  <2> QED BY <2>2 DEF TUUniverse
<1>12. CASE Tushare!Tick
  BY <1>12 DEF Tushare!Tick, TUUniverse, TUListedAll, TUWorking, Tushare!NeedsCodes
<1> QED BY <1>1, <1>2, <1>3, <1>4, <1>5, <1>6, <1>7, <1>8, <1>9, <1>10, <1>11, <1>12 DEF Tushare!Next

\* It holds initially, and a step that changes nothing keeps it.
LEMMA TUUniverseInit == ASSUME Tushare!Init PROVE TUUniverse
<1>1. run.pc = "idle"
  BY DEF Tushare!Init, Tushare!Idle
<1> QED BY <1>1 DEF TUUniverse

LEMMA TUUniverseStutter == ASSUME TUUniverse, UNCHANGED vars PROVE TUUniverse'
BY DEF TUUniverse, TUListedAll, TUWorking, Tushare!NeedsCodes, vars

\* ListedCodesAreComplete follows from both.
LEMMA TUListed == ASSUME TUInvariant, TUUniverse PROVE Tushare!ListedCodesAreComplete
<1> SUFFICES ASSUME Tushare!FinishTask, Head(run.tasks) = "task", Tushare!NeedsCodes, Tushare!CursorSpeaksForAll,
                    ~run.partial, NEW x \in spec.variants, NEW c \in local, NEW d \in 1..LastDay,
                    d <= run.end, d < run.day, run.opts.resume => d < run.end
             PROVE  table[<<x, c, d>>] = "final"
  BY DEF Tushare!ListedCodesAreComplete, Tushare!Days
<1>1. run.pc = "fetch" /\ run.calls = <<>> /\ ~run.failed
  BY DEF Tushare!FinishTask
<1>2. Tushare!SourceCalls # <<>>
  BY DEF Tushare!SourceCalls
<1>3. TUWorking(run)
  BY <1>1, <1>2 DEF TUInvariant, TUPhase, TUWorking
<1>4. c \in TUTarget(run)
  BY <1>1, <1>3 DEF TUUniverse, TUTarget
<1>5. TUOne \/ stops = {}
  BY DEF Tushare!CursorSpeaksForAll, TUOne, Tushare!Cardinality, Cardinality
<1>6. table[<<x, c, d>>] = "final" \/ TUPending(run, x, c, d)
  BY <1>1, <1>3, <1>4, <1>5 DEF TUInvariant, TUTask
<1>7. ~TUPending(run, x, c, d)
  BY <1>1, TUIdlePending
<1> QED BY <1>6, <1>7
================================================================================
