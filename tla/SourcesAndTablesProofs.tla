------------------------ MODULE SourcesAndTablesProofs -------------------------
(* The inductive invariants of the sources that are not one call, and of the list of codes of
   AmazingData; and what holds of all the parts of SourcesAndTables. *)
EXTENDS TablesProofs, SequenceTheorems, WellFoundedInduction

--------------------------------------------------------------------------------
(* The source of AKShare. *)

AKWayNames == {"sdk", "sina spot", "sina names", "sina", "web"}
AKAddresses == ToSet(Addresses)

\* The form of a call under way.
AKForm(c) ==
    c = [pc |-> c.pc, request |-> c.request, limit |-> c.limit, take |-> c.take, n |-> c.n,
         counted |-> c.counted, ways |-> c.ways, attempts |-> c.attempts, addresses |-> c.addresses,
         rows |-> c.rows, page |-> c.page, refused |-> c.refused, none |-> c.none]

\* An address has refused on every route, or has given an empty list.
AKGone(address, refused) ==
    <<address, "empty">> \in refused \/ {address} \X AKShare!Routes \subseteq refused

\* The ways that are left are all that have not refused.
AKLeft(c, ways) ==
    /\ \A way \in ToSet(c.request.ways) \ {"web"} : way \in ToSet(ways) \/ <<way, "sdk">> \in c.refused
    /\ "web" \in ToSet(c.request.ways) /\ "web" \notin ToSet(ways) =>
          \A address \in AKAddresses : AKGone(address, c.refused)

\* So are the addresses of the way at hand, and the rows are those of the pages asked for.
AKUnderWay(c) ==
    /\ c.pc = "way" /\ AKForm(c)
    /\ c.request \in AKShare!Requests /\ c.n \in 0..MaxItems
    /\ c.page \in 1..MaxPages /\ (~c.request.paged => c.page = 1)
    /\ c.rows = AKShare!Listing(AKShare!Smaller(c.n, (c.page - 1) * PageSize))
    /\ c.ways \in Seq(AKWayNames) /\ c.ways # <<>>
    /\ c.addresses \in Seq(AKAddresses) /\ c.addresses # <<>>
    /\ AKLeft(c, c.ways)
    /\ Head(c.ways) = "web" =>
          \A address \in AKAddresses : address \in ToSet(c.addresses) \/ AKGone(address, c.refused)

\* A call that goes on is under way, or was refused on every way.
AKEntered(c) == AKUnderWay(c) \/ (c.pc = "refused" /\ AKLeft(c, <<>>))

\* What the provider has learnt: addresses it has, and directories that are whole.
AKKnown ==
    /\ preferred \in [BOOLEAN -> {"none"} \union AKAddresses]
    /\ kept \in [AKShare!Directories -> {AKShare!Listing(n) : n \in Nat}]

AKInvariant ==
    /\ AKKnown
    /\ \/ call.pc \in {"idle", "answered"}
       \/ AKEntered(call)
    /\ AKShare!AnswerIsWhole

\* The instance has its own copy of the operator.
LEMMA AKSets == \A s : AKShare!ToSet(s) = ToSet(s)
BY DEF AKShare!ToSet, ToSet

AKTyped(r) ==
    /\ r.ways \in Seq(AKWayNames) /\ r.ways # <<>> /\ r.paged \in BOOLEAN
    /\ r.directory \in AKShare!Directories \union {"none"}

\* The lists of ways.
LEMMA AKWays ==
  /\ <<"sdk">> \in Seq(AKWayNames) /\ <<"sdk">> # <<>>
  /\ <<"sina">> \in Seq(AKWayNames) /\ <<"sina">> # <<>>
  /\ <<"sdk", "sina spot", "sina names">> \in Seq(AKWayNames) /\ <<"sdk", "sina spot", "sina names">> # <<>>
  /\ <<"sdk", "sina">> \in Seq(AKWayNames) /\ <<"sdk", "sina">> # <<>>
  /\ <<"sdk", "web">> \in Seq(AKWayNames) /\ <<"sdk", "web">> # <<>>
BY DEF AKWayNames

\* Every request has ways, and at most one directory.
LEMMA AKRequests == \A r \in AKShare!Requests : AKTyped(r)
<1> USE DEF AKShare!Plain
<1>1. AKTyped(AKShare!Plain)
  BY AKWays DEF AKTyped
<1>2. AKTyped(AKShare!FetchThsConceptNames)
  BY AKWays DEF AKTyped, AKShare!FetchThsConceptNames, AKShare!Directories
<1>3. AKTyped(AKShare!FetchUsFinancialStatement)
  BY AKWays DEF AKTyped, AKShare!FetchUsFinancialStatement
<1>4. AKTyped(AKShare!FetchUsFinancialIndicator)
  BY AKWays DEF AKTyped, AKShare!FetchUsFinancialIndicator
<1>5. AKTyped(AKShare!FetchUsSpot)
  BY AKWays DEF AKTyped, AKShare!FetchUsSpot, AKShare!FetchUsSpotRaw, AKShare!Directories
<1>6. AKTyped(AKShare!FetchUsDaily(TRUE))
  BY AKWays DEF AKTyped, AKShare!FetchUsDaily
<1>7. AKTyped(AKShare!FetchUsDaily(FALSE))
  BY AKWays DEF AKTyped, AKShare!FetchUsDaily
<1>8. AKTyped(AKShare!FetchEmConceptHistory)
  BY AKWays DEF AKTyped, AKShare!FetchEmConceptHistory
<1>9. AKTyped(AKShare!FetchEmConceptConstituents)
  BY AKWays DEF AKTyped, AKShare!FetchEmConceptHistory, AKShare!FetchEmConceptConstituents
<1>10. AKTyped(AKShare!FetchEmConceptNames)
  BY AKWays DEF AKTyped, AKShare!FetchEmConceptHistory, AKShare!FetchEmConceptConstituents,
                AKShare!FetchEmConceptNames, AKShare!Directories
<1>11. AKShare!Requests = {AKShare!Plain, AKShare!FetchThsConceptNames, AKShare!FetchUsFinancialStatement,
         AKShare!FetchUsFinancialIndicator, AKShare!FetchUsSpot, AKShare!FetchUsDaily(TRUE),
         AKShare!FetchUsDaily(FALSE), AKShare!FetchEmConceptHistory, AKShare!FetchEmConceptConstituents,
         AKShare!FetchEmConceptNames}
  BY DEF AKShare!Requests, AKShare!FetchThsConceptIndex, AKShare!FetchThsConceptInfo,
     AKShare!FetchUsMinute,
         AKShare!FetchUsCompanyProfile, AKShare!FetchUsValuation, AKShare!FetchUsIndexDaily
<1> HIDE DEF AKShare!Plain
<1> QED BY <1>1, <1>2, <1>3, <1>4, <1>5, <1>6, <1>7, <1>8, <1>9, <1>10, <1>11

\* Listings are lists of their length.
LEMMA AKListing ==
  ASSUME NEW n \in Nat
  PROVE  /\ AKShare!Listing(n) \in Seq(Nat) /\ Len(AKShare!Listing(n)) = n
         /\ \A i \in 1..n : AKShare!Listing(n)[i] = i
         /\ AKShare!Listing(n) = <<>> <=> n = 0
<1>1. AKShare!Listing(n) = [i \in 1..n |-> i]
  BY DEF AKShare!Listing
<1>2. AKShare!Listing(n) \in Seq(Nat) /\ Len(AKShare!Listing(n)) = n
  BY <1>1
<1>3. \A i \in 1..n : AKShare!Listing(n)[i] = i
  BY <1>1
<1>4. AKShare!Listing(n) = <<>> <=> n = 0
  BY <1>2, EmptySeq
<1> QED BY <1>2, <1>3, <1>4

\* A page continues the listing.
LEMMA AKPage ==
  ASSUME NEW a \in Nat, NEW b \in Nat, NEW n \in Nat, a < b, b <= n
  PROVE  /\ AKShare!Listing(a) \o SubSeq(AKShare!Listing(n), a + 1, b) = AKShare!Listing(b)
         /\ Len(SubSeq(AKShare!Listing(n), a + 1, b)) = b - a
<1> DEFINE s == AKShare!Listing(n)
           t == SubSeq(s, a + 1, b)
<1>1. s \in Seq(Nat) /\ Len(s) = n /\ \A i \in 1..n : s[i] = i
  BY AKListing
<1>2. \A i \in a + 1..b : s[i] = i /\ s[i] \in Nat
  BY <1>1
<1>3. t \in Seq(Nat) /\ Len(t) = b - a /\ \A i \in 1..b - a : t[i] = s[a + i]
  <2>1. /\ t \in Seq(Nat)
        /\ Len(t) = IF a + 1 <= b THEN b - (a + 1) + 1 ELSE 0
        /\ \A i \in 1..b - (a + 1) + 1 : t[i] = s[a + 1 + i - 1]
    <3> HIDE DEF s
    <3>1. a + 1 \in Int /\ b \in Int
      OBVIOUS
    <3> QED BY <1>2, <3>1, SubSeqProperties
  <2> HIDE DEF s, t
  <2>2. b - (a + 1) + 1 = b - a /\ a + 1 <= b
    OBVIOUS
  <2>3. \A i \in 1..b - a : a + 1 + i - 1 = a + i
    OBVIOUS
  <2> QED BY <2>1, <2>2, <2>3
<1>4. AKShare!Listing(a) \in Seq(Nat) /\ Len(AKShare!Listing(a)) = a /\ \A i \in 1..a : AKShare!Listing(a)[i] = i
  BY AKListing
<1>5. AKShare!Listing(b) \in Seq(Nat) /\ Len(AKShare!Listing(b)) = b /\ \A i \in 1..b : AKShare!Listing(b)[i] = i
  BY AKListing
<1> HIDE DEF t, s
<1>6. /\ AKShare!Listing(a) \o t \in Seq(Nat)
      /\ Len(AKShare!Listing(a) \o t) = a + (b - a)
      /\ \A i \in 1..a + (b - a) : (AKShare!Listing(a) \o t)[i] =
            IF i <= a THEN AKShare!Listing(a)[i] ELSE t[i - a]
  <2> DEFINE l == AKShare!Listing(a)
  <2>1. l \in Seq(Nat) /\ t \in Seq(Nat) /\ Len(l) = a /\ Len(t) = b - a
    BY <1>3, <1>4
  <2> HIDE DEF l
  <2>2. l \o t \in Seq(Nat)
    BY <2>1, ConcatProperties
  <2>3. Len(l \o t) = a + (b - a)
    BY <2>1, ConcatProperties
  <2>4. \A i \in 1..Len(l) + Len(t) : (l \o t)[i] = IF i <= Len(l) THEN l[i] ELSE t[i - Len(l)]
    BY <2>1, ConcatProperties
  <2> QED BY <2>1, <2>2, <2>3, <2>4 DEF l
<1>7. a + (b - a) = b
  OBVIOUS
<1>8. \A i \in 1..b : (AKShare!Listing(a) \o t)[i] = i
  <2> SUFFICES ASSUME NEW i \in 1..b PROVE (AKShare!Listing(a) \o t)[i] = i
    OBVIOUS
  <2>1. CASE i <= a
    BY <1>4, <1>6, <1>7, <2>1
  <2>2. CASE ~(i <= a)
    <3>1. i - a \in 1..b - a /\ a + (i - a) = i /\ i \in a + 1..b
      BY <2>2
    <3>2. t[i - a] = i
      BY <1>2, <1>3, <3>1
    <3> QED BY <1>6, <1>7, <2>2, <3>2
  <2> QED BY <2>1, <2>2
<1>9. AKShare!Listing(a) \o t = AKShare!Listing(b)
  BY <1>5, <1>6, <1>7, <1>8, SeqEqual
<1> QED BY <1>3, <1>9 DEF s, t

\* The pages up to the one asked for, and when it is the last.
LEMMA AKPages ==
  ASSUME AKUnderWay(call), call.request.paged
  PROVE  LET rows == call.rows \o AKShare!Page
         IN  /\ rows = AKShare!Listing(AKShare!Smaller(call.n, call.page * PageSize))
             /\ AKShare!LastPage(rows) => rows = AKShare!Listing(call.n)
<1> DEFINE n == call.n
           before == (call.page - 1) * PageSize
           rows == call.rows \o AKShare!Page
<1>1. /\ PageSize \in Nat \ {0} /\ MaxPages \in Nat \ {0} /\ MaxItems \in 0..MaxPages * PageSize
      /\ n \in 0..MaxItems /\ call.page \in 1..MaxPages
  BY SourcesAssumption DEF AKUnderWay
<1>2. n \in Nat /\ call.page \in Nat \ {0} /\ MaxPages * PageSize \in Nat
  BY <1>1
<1>3. before \in Nat /\ call.page * PageSize = before + PageSize
  BY <1>1, <1>2
<1>4. call.page = MaxPages => n <= before + PageSize
  BY <1>1, <1>2, <1>3
<1>5. call.rows = AKShare!Listing(AKShare!Smaller(n, before))
  BY DEF AKUnderWay
<1>6. AKShare!Page = IF before >= n THEN <<>>
                     ELSE SubSeq(AKShare!Listing(n), before + 1, AKShare!Smaller(n, before + PageSize))
  BY DEF AKShare!Page
<1>7. AKShare!LastPage(rows) =>
         \/ Len(rows) >= n
         \/ Len(AKShare!Page) < PageSize
         \/ call.page = MaxPages
  BY DEF AKShare!LastPage
<1> HIDE DEF n, before, rows
<1>8. CASE before >= n
  <2>1. AKShare!Smaller(n, before) = n /\ AKShare!Smaller(n, before + PageSize) = n
    BY <1>1, <1>2, <1>3, <1>8 DEF AKShare!Smaller
  <2>2. rows = AKShare!Listing(n) \o <<>>
    BY <1>5, <1>6, <1>8, <2>1 DEF rows
  <2>3. AKShare!Listing(n) \o <<>> = AKShare!Listing(n)
    BY <1>2, AKListing, ConcatEmptySeq
  <2> QED BY <1>3, <2>1, <2>2, <2>3 DEF n, rows
<1>9. CASE ~(before >= n)
  <2> DEFINE m == AKShare!Smaller(n, before + PageSize)
  <2>1. AKShare!Smaller(n, before) = before /\ m \in Nat /\ before < m /\ m <= n
        /\ (m = n \/ m = before + PageSize)
    BY <1>1, <1>2, <1>3, <1>9 DEF AKShare!Smaller
  <2>2. AKShare!Page = SubSeq(AKShare!Listing(n), before + 1, m)
    BY <1>6, <1>9
  <2> HIDE DEF m
  <2>3. rows = AKShare!Listing(before) \o SubSeq(AKShare!Listing(n), before + 1, m)
    BY <1>5, <2>1, <2>2 DEF rows
  <2>4. rows = AKShare!Listing(m) /\ Len(AKShare!Page) = m - before
    BY <1>2, <1>3, <2>1, <2>2, <2>3, AKPage
  <2>5. Len(rows) = m
    BY <2>1, <2>4, AKListing
  <2>6. AKShare!LastPage(rows) => m = n
    <3>1. CASE Len(rows) >= n
      BY <1>2, <2>1, <2>5, <3>1
    <3>2. CASE Len(AKShare!Page) < PageSize
      BY <1>1, <1>3, <2>1, <2>4, <3>2
    <3>3. CASE call.page = MaxPages
      BY <1>1, <1>2, <1>3, <1>4, <2>1, <3>3
    <3> QED BY <1>7, <3>1, <3>2, <3>3
  <2> QED BY <1>3, <2>4, <2>6 DEF m, n, rows
<1> QED BY <1>8, <1>9

\* The first of a list is asked, the others are left.
LEMMA AKHead ==
  ASSUME NEW S, NEW s \in Seq(S), s # <<>>
  PROVE  /\ Head(s) \in S /\ Tail(s) \in Seq(S)
         /\ \A x \in ToSet(s) : x = Head(s) \/ x \in ToSet(Tail(s))
         /\ \A x \in ToSet(Tail(s)) : x \in ToSet(s)
         /\ Head(s) \in ToSet(s)
<1>1. Len(s) \in Nat \ {0} /\ DOMAIN s = 1..Len(s)
  BY EmptySeq
<1>2. Head(s) = s[1] /\ Head(s) \in S /\ Tail(s) \in Seq(S)
  BY <1>1
<1>3. Len(Tail(s)) = Len(s) - 1 /\ \A i \in 1..Len(s) - 1 : Tail(s)[i] = s[i + 1]
  BY <1>1
<1>4. DOMAIN Tail(s) = 1..Len(s) - 1
  BY <1>2, <1>3
<1>5. ASSUME NEW x \in ToSet(s) PROVE x = Head(s) \/ x \in ToSet(Tail(s))
  <2>1. PICK i \in 1..Len(s) : x = s[i]
    BY <1>1, <1>5 DEF ToSet
  <2>2. CASE i = 1
    BY <1>2, <2>1, <2>2
  <2>3. CASE i # 1
    <3>1. i - 1 \in 1..Len(s) - 1 /\ i - 1 + 1 = i
      BY <1>1, <2>1, <2>3
    <3>2. Tail(s)[i - 1] = x
      BY <1>3, <2>1, <3>1
    <3> QED BY <1>4, <3>1, <3>2 DEF ToSet
  <2> QED BY <2>2, <2>3
<1>6. ASSUME NEW x \in ToSet(Tail(s)) PROVE x \in ToSet(s)
  <2>1. PICK i \in 1..Len(s) - 1 : x = Tail(s)[i]
    BY <1>4, <1>6 DEF ToSet
  <2>2. i + 1 \in DOMAIN s /\ x = s[i + 1]
    BY <1>1, <1>3, <2>1
  <2> QED BY <2>2 DEF ToSet
<1>7. Head(s) \in ToSet(s)
  BY <1>1, <1>2 DEF ToSet
<1> QED BY <1>2, <1>5, <1>6, <1>7

\* Whichever address is preferred, all of them are asked.
LEMMA AKUrls ==
  ASSUME NEW address \in {"none"} \union AKAddresses
  PROVE  /\ AKShare!PreferredUrls(address) \in Seq(AKAddresses)
         /\ AKShare!PreferredUrls(address) # <<>>
         /\ \A x \in AKAddresses : x \in ToSet(AKShare!PreferredUrls(address))
<1>1. Addresses \in Seq(AKAddresses) /\ Addresses # <<>>
  BY SourcesAssumption DEF AKAddresses
<1>2. CASE address = "none"
  BY <1>1, <1>2 DEF AKShare!PreferredUrls, AKAddresses
<1>3. CASE address # "none"
  <2> DEFINE at == CHOOSE i \in DOMAIN Addresses : Addresses[i] = address
             len == Len(Addresses)
             before == SubSeq(Addresses, 1, at - 1)
             after == SubSeq(Addresses, at + 1, len)
             first == <<address>> \o before
             all == first \o after
  <2>1. \E i \in DOMAIN Addresses : Addresses[i] = address
    BY <1>3 DEF AKAddresses, ToSet
  <2>2. at \in DOMAIN Addresses /\ Addresses[at] = address
    BY <2>1
  <2>3. len \in Nat /\ DOMAIN Addresses = 1..len /\ at \in 1..len
    BY <1>1, <2>2
  <2>4. AKShare!PreferredUrls(address) = all
    BY <1>3 DEF AKShare!PreferredUrls
  <2> HIDE DEF at, len
  <2>5. \A i \in 1..len : Addresses[i] \in AKAddresses
    BY <2>3 DEF AKAddresses, ToSet
  <2>6. /\ before \in Seq(AKAddresses) /\ Len(before) = at - 1
        /\ \A i \in 1..at - 1 : before[i] = Addresses[i]
    <3>1. \A i \in 1..at - 1 : Addresses[i] \in AKAddresses
      BY <2>3, <2>5
    <3>2. /\ before \in Seq(AKAddresses)
          /\ Len(before) = IF 1 <= at - 1 THEN at - 1 - 1 + 1 ELSE 0
          /\ \A i \in 1..at - 1 - 1 + 1 : before[i] = Addresses[1 + i - 1]
      <4>1. 1 \in Int /\ at - 1 \in Int
        BY <2>3
      <4> QED BY <3>1, <4>1, SubSeqProperties
    <3> HIDE DEF before
    <3>3. at - 1 - 1 + 1 = at - 1 /\ (~(1 <= at - 1) => at - 1 = 0)
      BY <2>3
    <3>4. \A i \in 1..at - 1 : 1 + i - 1 = i
      BY <2>3
    <3> QED BY <3>2, <3>3, <3>4
  <2>7. /\ after \in Seq(AKAddresses) /\ Len(after) = len - at
        /\ \A i \in 1..len - at : after[i] = Addresses[at + i]
    <3>1. \A i \in at + 1..len : Addresses[i] \in AKAddresses
      BY <2>3, <2>5
    <3>2. /\ after \in Seq(AKAddresses)
          /\ Len(after) = IF at + 1 <= len THEN len - (at + 1) + 1 ELSE 0
          /\ \A i \in 1..len - (at + 1) + 1 : after[i] = Addresses[at + 1 + i - 1]
      <4>1. at + 1 \in Int /\ len \in Int
        BY <2>3
      <4> QED BY <3>1, <4>1, SubSeqProperties
    <3> HIDE DEF after
    <3>3. len - (at + 1) + 1 = len - at /\ (~(at + 1 <= len) => len - at = 0)
      BY <2>3
    <3>4. \A i \in 1..len - at : at + 1 + i - 1 = at + i
      BY <2>3
    <3> QED BY <3>2, <3>3, <3>4
  <2> HIDE DEF before, after
  <2>8. <<address>> \in Seq(AKAddresses) /\ Len(<<address>>) = 1 /\ <<address>>[1] = address
    BY <1>3
  <2>9. first \in Seq(AKAddresses)
    BY <2>6, <2>8, ConcatProperties
  <2>10. Len(first) = at
    BY <2>3, <2>6, <2>8, ConcatProperties
  <2>11. first[1] = address
    BY <2>3, <2>6, <2>8, ConcatProperties
  <2>12. ASSUME NEW i \in 1..at - 1 PROVE i + 1 \in 1..at /\ first[i + 1] = Addresses[i]
    <3>1. i + 1 \in 1..Len(<<address>>) + Len(before) /\ ~(i + 1 <= Len(<<address>>))
          /\ i + 1 - Len(<<address>>) = i
      BY <2>3, <2>6, <2>8
    <3>2. first[i + 1] = before[i + 1 - Len(<<address>>)]
      BY <2>6, <2>8, <3>1, ConcatProperties
    <3>3. i + 1 \in 1..at
      BY <2>3
    <3> QED BY <2>6, <3>1, <3>2, <3>3
  <2> HIDE DEF first
  <2>13. all \in Seq(AKAddresses)
    BY <2>7, <2>9, ConcatProperties
  <2>14. Len(all) = len
    <3>1. Len(all) = Len(first) + Len(after)
      BY <2>7, <2>9, ConcatProperties
    <3> QED BY <2>3, <2>7, <2>10, <3>1
  <2>15. ASSUME NEW i \in 1..at PROVE i \in 1..len /\ all[i] = first[i]
    <3>1. i \in 1..Len(first) + Len(after) /\ i <= Len(first) /\ i \in 1..len
      BY <2>3, <2>7, <2>10
    <3> QED BY <2>7, <2>9, <3>1, ConcatProperties
  <2>16. ASSUME NEW i \in at + 1..len PROVE i \in 1..len /\ all[i] = Addresses[i]
    <3>1. i \in 1..Len(first) + Len(after) /\ ~(i <= Len(first)) /\ i \in 1..len
          /\ i - Len(first) \in 1..len - at /\ at + (i - Len(first)) = i
      BY <2>3, <2>7, <2>10
    <3>2. all[i] = after[i - Len(first)]
      BY <2>7, <2>9, <3>1, ConcatProperties
    <3> QED BY <2>7, <3>1, <3>2
  <2> HIDE DEF all
  <2>17. DOMAIN all = 1..len
    BY <2>13, <2>14
  <2>18. ASSUME NEW x \in AKAddresses PROVE x \in ToSet(all)
    <3>1. PICK j \in 1..len : x = Addresses[j]
      BY <2>3, <2>18 DEF AKAddresses, ToSet
    <3>2. \E i \in 1..len : all[i] = x
      <4>1. CASE j = at
        <5>1. 1 \in 1..at
          BY <2>3
        <5> QED BY <2>2, <2>11, <2>15, <3>1, <4>1, <5>1
      <4>2. CASE j \in 1..at - 1
        BY <2>12, <2>15, <3>1, <4>2
      <4>3. CASE j \in at + 1..len
        BY <2>16, <3>1, <4>3
      <4> QED BY <2>3, <3>1, <4>1, <4>2, <4>3
    <3> QED BY <2>17, <3>2 DEF ToSet
  <2>19. all # <<>>
    BY <2>3, <2>13, <2>14
  <2> QED BY <2>4, <2>13, <2>18, <2>19
<1> QED BY <1>2, <1>3

\* A call that enters a list of ways is under way, or was refused if the list is empty.
LEMMA AKEnter ==
  ASSUME AKKnown, NEW c, AKForm(c), c.request \in AKShare!Requests, c.n \in 0..MaxItems,
         NEW ways \in Seq(AKWayNames), AKLeft(c, ways), NEW left
  PROVE  /\ AKEntered(AKShare!Enter(c, ways))
         /\ AKEntered([AKShare!Enter(c, ways) EXCEPT !.attempts = left])
<1> DEFINE urls == AKShare!PreferredUrls(preferred[c.request.paged])
           d == AKShare!Enter(c, ways)
           e == [d EXCEPT !.attempts = left]
<1>1. c.request.paged \in BOOLEAN
  BY AKRequests DEF AKTyped
<1>2. preferred[c.request.paged] \in {"none"} \union AKAddresses
  BY <1>1 DEF AKKnown
<1>3. /\ urls \in Seq(AKAddresses) /\ urls # <<>>
      /\ \A x \in AKAddresses : x \in ToSet(urls)
  BY <1>2, AKUrls
<1> HIDE DEF urls
<1>4. /\ AKForm(d) /\ d.pc = IF ways = <<>> THEN "refused" ELSE "way"
      /\ d.request = c.request /\ d.n = c.n /\ d.ways = ways /\ d.addresses = urls
      /\ d.rows = <<>> /\ d.page = 1 /\ d.refused = c.refused
  <2> DEFINE pc == IF ways = <<>> THEN "refused" ELSE "way"
  <2>1. d = [c EXCEPT !.pc = pc, !.ways = ways, !.attempts = Retries, !.addresses = urls,
                      !.rows = <<>>, !.page = 1]
    BY DEF AKShare!Enter, urls
  <2> HIDE DEF d, pc
  <2>2. /\ d.pc = pc /\ d.request = c.request /\ d.n = c.n /\ d.ways = ways /\ d.addresses = urls
        /\ d.rows = <<>> /\ d.page = 1 /\ d.refused = c.refused
    BY <2>1 DEF AKForm
  <2>3. AKForm(d)
    BY <2>1 DEF AKForm
  <2> QED BY <2>2, <2>3 DEF pc
<1> HIDE DEF d
<1>5. /\ AKForm(e) /\ e.pc = d.pc /\ e.request = d.request /\ e.n = d.n /\ e.ways = d.ways
      /\ e.addresses = d.addresses /\ e.rows = d.rows /\ e.page = d.page /\ e.refused = d.refused
  BY <1>4 DEF AKForm
<1> HIDE DEF d, e
<1>6. AKLeft(d, ways) /\ AKLeft(e, ways)
  BY <1>4, <1>5 DEF AKLeft
<1>7. MaxItems \in Nat /\ 1 \in 1..MaxPages
  BY SourcesAssumption
<1>8. <<>> = AKShare!Listing(AKShare!Smaller(c.n, (1 - 1) * PageSize))
  <2>1. AKShare!Smaller(c.n, (1 - 1) * PageSize) = 0
    BY SourcesAssumption, <1>7 DEF AKShare!Smaller
  <2> QED BY <2>1, AKListing
<1>9. CASE ways = <<>>
  <2>1. d.pc = "refused" /\ e.pc = "refused"
    BY <1>4, <1>5, <1>9
  <2>2. AKEntered(d) /\ AKEntered(e)
    BY <1>6, <1>9, <2>1 DEF AKEntered
  <2> QED BY <2>2 DEF d, e
<1>10. CASE ways # <<>>
  <2>1. AKUnderWay(d)
    BY <1>3, <1>4, <1>6, <1>7, <1>8, <1>10 DEF AKUnderWay
  <2>2. AKUnderWay(e)
    BY <1>3, <1>4, <1>5, <1>6, <1>7, <1>8, <1>10 DEF AKUnderWay
  <2>3. AKEntered(d)
    BY <2>1 DEF AKEntered
  <2>4. AKEntered(e)
    BY <2>2 DEF AKEntered
  <2> QED BY <2>3, <2>4 DEF d, e
<1> QED BY <1>9, <1>10 DEF d, e

\* The refusal of a way leads to another attempt or to the next way.
LEMMA AKRefusal ==
  ASSUME AKKnown, NEW c, AKForm(c), c.request \in AKShare!Requests, c.n \in 0..MaxItems,
         c.ways \in Seq(AKWayNames), c.ways # <<>>,
         AKLeft(c, c.ways), AKLeft(c, Tail(c.ways)), NEW error
  PROVE  AKEntered(AKShare!WayRefuses(c, error))
<1>1. Tail(c.ways) \in Seq(AKWayNames)
  BY AKHead
<1>2. /\ AKEntered(AKShare!Enter(c, Tail(c.ways)))
      /\ AKEntered([AKShare!Enter(c, c.ways) EXCEPT !.attempts = c.attempts - 1])
  BY <1>1, AKEnter
<1> QED BY <1>2 DEF AKShare!WayRefuses

--------------------------------------------------------------------------------

\* A step by which a call goes on or is refused, and nothing is learnt.
LEMMA AKGoesOn ==
  ASSUME AKKnown, UNCHANGED <<proxied, preferred, kept>>, NEW d, AKEntered(d), call' = d
  PROVE  AKInvariant'
<1>1. AKKnown'
  BY DEF AKKnown
<1>2. AKShare!Routes' = AKShare!Routes
  BY DEF AKShare!Routes
<1>3. AKEntered(call)'
  <2>1. \A ways : AKLeft(d, ways) => AKLeft(call, ways)'
    BY <1>2 DEF AKLeft, AKGone
  <2>2. CASE AKUnderWay(d)
    <3>1. AKLeft(call, call.ways)'
      BY <2>1, <2>2 DEF AKUnderWay
    <3>2. (Head(call.ways) = "web" =>
            \A address \in AKAddresses : address \in ToSet(call.addresses) \/ AKGone(address, call.refused))'
      BY <1>2, <2>2 DEF AKUnderWay, AKGone
    <3>3. AKUnderWay(call)'
      BY <2>2, <3>1, <3>2 DEF AKUnderWay, AKForm
    <3> QED BY <3>3 DEF AKEntered
  <2>3. CASE d.pc = "refused" /\ AKLeft(d, <<>>)
    BY <2>1, <2>3 DEF AKEntered
  <2> QED BY <2>2, <2>3 DEF AKEntered
<1>4. call'.pc # "answered"
  BY DEF AKEntered, AKUnderWay
<1> QED BY <1>1, <1>3, <1>4 DEF AKInvariant, AKShare!AnswerIsWhole

\* With more refusals, the ways left still include all that have not refused.
LEMMA AKMonotone ==
  ASSUME NEW c, NEW d, NEW ways, AKLeft(c, ways), d.request = c.request,
         c.refused \subseteq d.refused
  PROVE  AKLeft(d, ways)
BY DEF AKLeft, AKGone

\* A call begins with all its ways.
LEMMA AKBegin ==
  ASSUME AKKnown, NEW req \in AKShare!Requests, NEW limit, NEW take, NEW n \in 0..MaxItems,
         NEW counted, AKShare!Begin(req, limit, take, n, counted)
  PROVE  AKInvariant'
<1> DEFINE c == [pc |-> "way", request |-> req, limit |-> limit, take |-> take, n |-> n,
                 counted |-> counted, ways |-> <<>>, attempts |-> 0, addresses |-> <<>>,
                 rows |-> <<>>, page |-> 1, refused |-> {}, none |-> FALSE]
           ways == AKShare!Ways(req)
<1>1. call' = AKShare!Enter(c, ways) /\ UNCHANGED <<proxied, preferred, kept>>
  BY DEF AKShare!Begin
<1>2. AKForm(c) /\ c.request = req /\ c.n = n
  BY DEF AKForm
<1> HIDE DEF c
<1>3. req.ways \in Seq(AKWayNames)
  BY AKRequests DEF AKTyped
<1>4. /\ ways \in Seq(AKWayNames)
      /\ \A way \in ToSet(req.ways) : way \in ToSet(ways)
  <2>1. CASE ways = req.ways
    BY <1>3, <2>1
  <2>2. CASE ways = <<"web">> \o req.ways
    <3> DEFINE w == <<"web">>
    <3>1. w \in Seq(AKWayNames) /\ Len(w) = 1
      BY DEF AKWayNames
    <3>2. w \o req.ways \in Seq(AKWayNames)
      BY <1>3, <3>1, ConcatProperties
    <3>3. Len(w \o req.ways) = 1 + Len(req.ways)
      BY <1>3, <3>1, ConcatProperties
    <3>4. ASSUME NEW way \in ToSet(req.ways) PROVE way \in ToSet(w \o req.ways)
      <4>1. PICK i \in 1..Len(req.ways) : way = req.ways[i]
        BY <1>3, <3>4 DEF ToSet
      <4>2. i + 1 \in 1..Len(w) + Len(req.ways) /\ ~(i + 1 <= Len(w)) /\ i + 1 - Len(w) = i
        BY <1>3, <3>1, <4>1
      <4>3. (w \o req.ways)[i + 1] = way
        BY <1>3, <3>1, <4>1, <4>2, ConcatProperties
      <4>4. i + 1 \in DOMAIN (w \o req.ways)
        BY <1>3, <3>1, <3>2, <3>3, <4>2
      <4> HIDE DEF w
      <4> QED BY <4>3, <4>4 DEF ToSet
    <3> HIDE DEF w
    <3> QED BY <2>2, <3>2, <3>4 DEF w
  <2> QED BY <2>1, <2>2 DEF AKShare!Ways
<1> HIDE DEF ways
<1>5. AKLeft(c, ways)
  BY <1>2, <1>4 DEF AKLeft
<1>6. AKEntered(AKShare!Enter(c, ways))
  BY <1>2, <1>4, <1>5, AKEnter
<1> QED BY <1>1, <1>6, AKGoesOn

\* An answer is the listing; if it is kept, the directory is whole.
LEMMA AKAnswered ==
  ASSUME AKKnown, AKUnderWay(call), AKShare!Answered(AKShare!Listing(call.n))
  PROVE  /\ kept' \in [AKShare!Directories -> {AKShare!Listing(n) : n \in Nat}]
         /\ call'.pc = "answered" /\ AKShare!AnswerIsWhole'
<1> DEFINE fetched == AKShare!Taken(AKShare!Listing(call.n), call.limit)
<1>1. call.n \in Nat
  BY SourcesAssumption DEF AKUnderWay
<1>2. /\ call' = [pc |-> "answered", request |-> call.request, n |-> call.n, none |-> call.none,
                  take |-> call.take, limit |-> call.limit, answer |-> AKShare!Taken(fetched, call.take)]
      /\ kept' = [name \in AKShare!Directories |->
                   IF name = call.request.directory /\ call.limit = 0 /\ fetched # <<>>
                   THEN fetched ELSE kept[name]]
  BY DEF AKShare!Answered
<1>3. call.limit = 0 => fetched = AKShare!Listing(call.n)
  BY DEF AKShare!Taken
<1> HIDE DEF fetched
<1>4. kept' \in [AKShare!Directories -> {AKShare!Listing(n) : n \in Nat}]
  BY <1>1, <1>2, <1>3 DEF AKKnown
<1>5. AKShare!AnswerIsWhole'
  BY <1>2 DEF AKShare!AnswerIsWhole, fetched
<1> QED BY <1>2, <1>4, <1>5

\* The SDK answers.
LEMMA AKSdkAnswers ==
  ASSUME AKInvariant, AKShare!SdkAnswers
  PROVE  AKInvariant'
<1>1. AKUnderWay(call)
  BY DEF AKInvariant, AKEntered, AKShare!SdkAnswers, AKShare!Asking
<1>2. AKShare!Answered(AKShare!Listing(call.n)) /\ preferred' = preferred
  BY DEF AKShare!SdkAnswers
<1>3. AKKnown
  BY DEF AKInvariant
<1>4. /\ kept' \in [AKShare!Directories -> {AKShare!Listing(n) : n \in Nat}]
      /\ call'.pc = "answered" /\ AKShare!AnswerIsWhole'
  BY <1>1, <1>2, <1>3, AKAnswered
<1> QED BY <1>2, <1>3, <1>4 DEF AKInvariant, AKKnown

\* The SDK refuses: the way is among those that have.
LEMMA AKSdkRefuses ==
  ASSUME AKInvariant, NEW error, AKShare!SdkRefuses(error)
  PROVE  AKInvariant'
<1> DEFINE c == [call EXCEPT !.refused = call.refused \union {<<Head(call.ways), "sdk">>}]
<1>1. AKUnderWay(call) /\ AKKnown
  BY DEF AKInvariant, AKEntered, AKShare!SdkRefuses, AKShare!Asking
<1>2. call' = AKShare!WayRefuses(c, error) /\ UNCHANGED <<proxied, preferred, kept>>
  BY DEF AKShare!SdkRefuses
<1>3. AKForm(call) /\ call.ways \in Seq(AKWayNames) /\ call.ways # <<>> /\ AKLeft(call, call.ways)
  BY <1>1 DEF AKUnderWay
<1>4. /\ AKForm(c) /\ c.request = call.request /\ c.n = call.n /\ c.ways = call.ways
      /\ c.refused = call.refused \union {<<Head(call.ways), "sdk">>}
  <2>1. c = [call EXCEPT !.refused = call.refused \union {<<Head(call.ways), "sdk">>}]
    OBVIOUS
  <2> HIDE DEF c
  <2>2. c.request = call.request /\ c.n = call.n /\ c.ways = call.ways
        /\ c.refused = call.refused \union {<<Head(call.ways), "sdk">>}
    BY <1>3, <2>1 DEF AKForm
  <2>3. AKForm(c)
    BY <1>3, <2>1 DEF AKForm
  <2> QED BY <2>2, <2>3
<1> HIDE DEF c
<1>5. AKLeft(c, c.ways)
  BY <1>3, <1>4, AKMonotone
<1>6. /\ \A way \in ToSet(call.ways) : way = Head(call.ways) \/ way \in ToSet(Tail(call.ways))
      /\ Head(call.ways) # "web"
  BY <1>3, AKHead DEF AKShare!SdkRefuses, AKShare!Web
<1>7. AKLeft(c, Tail(c.ways))
  BY <1>4, <1>5, <1>6 DEF AKLeft
<1>8. c.request \in AKShare!Requests /\ c.n \in 0..MaxItems
  BY <1>1, <1>4 DEF AKUnderWay
<1>9. AKEntered(AKShare!WayRefuses(c, error))
  BY <1>1, <1>3, <1>4, <1>5, <1>7, <1>8, AKRefusal
<1> QED BY <1>1, <1>2, <1>9, AKGoesOn

\* The refusal of an address leads to the next one, or is that of the way.
LEMMA AKAddressRefuses ==
  ASSUME AKKnown, AKUnderWay(call), AKShare!Web, NEW refused, NEW error,
         AKGone(Head(call.addresses), call.refused \union refused)
  PROVE  AKEntered(AKShare!AddressRefuses([call EXCEPT !.refused = call.refused \union refused], error))
<1> DEFINE c == [call EXCEPT !.refused = call.refused \union refused]
<1>1. /\ AKForm(call) /\ call.request \in AKShare!Requests /\ call.n \in 0..MaxItems
      /\ call.ways \in Seq(AKWayNames) /\ call.ways # <<>> /\ AKLeft(call, call.ways)
      /\ call.addresses \in Seq(AKAddresses) /\ call.addresses # <<>> /\ call.pc = "way"
  BY DEF AKUnderWay
<1>2. /\ AKForm(c) /\ c.request = call.request /\ c.n = call.n /\ c.ways = call.ways /\ c.pc = call.pc
      /\ c.addresses = call.addresses /\ c.refused = call.refused \union refused
  <2>1. c = [call EXCEPT !.refused = call.refused \union refused]
    OBVIOUS
  <2> HIDE DEF c
  <2>2. c.request = call.request /\ c.n = call.n /\ c.ways = call.ways /\ c.pc = call.pc
        /\ c.addresses = call.addresses /\ c.refused = call.refused \union refused
    BY <1>1, <2>1 DEF AKForm
  <2>3. AKForm(c)
    BY <1>1, <2>1 DEF AKForm
  <2> QED BY <2>2, <2>3
<1> HIDE DEF c
<1>3. Head(call.ways) = "web" /\ \A address \in AKAddresses : address \in ToSet(call.addresses)
                                                        \/ AKGone(address, call.refused)
  BY DEF AKShare!Web, AKUnderWay
<1>4. AKLeft(c, c.ways)
  BY <1>1, <1>2, AKMonotone
<1>5. /\ Tail(call.addresses) \in Seq(AKAddresses)
      /\ \A x \in ToSet(call.addresses) : x = Head(call.addresses) \/ x \in ToSet(Tail(call.addresses))
  BY <1>1, AKHead
<1>6. \A address \in AKAddresses : address \in ToSet(Tail(call.addresses)) \/ AKGone(address, c.refused)
  <2> SUFFICES ASSUME NEW address \in AKAddresses, address \notin ToSet(Tail(call.addresses))
               PROVE AKGone(address, c.refused)
    OBVIOUS
  <2>1. CASE address = Head(call.addresses)
    BY <1>2, <2>1
  <2>2. CASE AKGone(address, call.refused)
    BY <1>2, <2>2 DEF AKGone
  <2> QED BY <1>3, <1>5, <2>1, <2>2
<1>7. CASE Len(call.addresses) > 1
  <2> DEFINE d == [c EXCEPT !.addresses = Tail(c.addresses), !.rows = <<>>, !.page = 1]
  <2>1. /\ AKForm(d) /\ d.pc = c.pc /\ d.request = c.request /\ d.n = c.n /\ d.ways = c.ways
        /\ d.addresses = Tail(c.addresses) /\ d.rows = <<>> /\ d.page = 1 /\ d.refused = c.refused
    <3>1. d = [c EXCEPT !.addresses = Tail(c.addresses), !.rows = <<>>, !.page = 1]
      OBVIOUS
    <3> HIDE DEF d
    <3>2. d.pc = c.pc /\ d.request = c.request /\ d.n = c.n /\ d.ways = c.ways
          /\ d.addresses = Tail(c.addresses) /\ d.rows = <<>> /\ d.page = 1 /\ d.refused = c.refused
      BY <1>2, <3>1 DEF AKForm
    <3>3. AKForm(d)
      BY <1>2, <3>1 DEF AKForm
    <3> QED BY <3>2, <3>3
  <2>2. AKShare!AddressRefuses(c, error) = d
    BY <1>2, <1>7 DEF AKShare!AddressRefuses
  <2> HIDE DEF d
  <2>3. Tail(call.addresses) # <<>>
    <3>1. Len(Tail(call.addresses)) = Len(call.addresses) - 1
      BY <1>1
    <3>2. Len(call.addresses) \in Nat
      BY <1>1
    <3>3. Len(Tail(call.addresses)) # 0
      <4>1. \A k \in Nat : k > 1 => k - 1 # 0
        OBVIOUS
      <4> QED BY <1>7, <3>1, <3>2, <4>1
    <3>4. Len(<<>>) = 0
      OBVIOUS
    <3> QED BY <3>3, <3>4
  <2>4. MaxItems \in Nat /\ 1 \in 1..MaxPages
    BY SourcesAssumption
  <2>5. <<>> = AKShare!Listing(AKShare!Smaller(d.n, (1 - 1) * PageSize))
    <3>1. AKShare!Smaller(d.n, (1 - 1) * PageSize) = 0
      BY SourcesAssumption, <1>1, <1>2, <2>1, <2>4 DEF AKShare!Smaller
    <3> QED BY <3>1, AKListing
  <2>6. AKLeft(d, d.ways)
    BY <1>4, <2>1 DEF AKLeft
  <2>7. AKUnderWay(d)
    BY <1>1, <1>2, <1>5, <1>6, <2>1, <2>3, <2>4, <2>5, <2>6 DEF AKUnderWay
  <2> QED BY <2>2, <2>7 DEF AKEntered, c
<1>8. CASE ~(Len(call.addresses) > 1)
  <2>1. AKShare!AddressRefuses(c, error) = AKShare!WayRefuses(c, error)
    BY <1>2, <1>8 DEF AKShare!AddressRefuses
  <2>2. ToSet(Tail(call.addresses)) = {}
    <3>1. Len(Tail(call.addresses)) = Len(call.addresses) - 1 /\ Len(call.addresses) \in Nat \ {0}
      BY <1>1, EmptySeq
    <3>2. DOMAIN Tail(call.addresses) = 1..Len(Tail(call.addresses))
      BY <1>5
    <3> QED BY <1>8, <3>1, <3>2 DEF ToSet
  <2>3. \A address \in AKAddresses : AKGone(address, c.refused)
    BY <1>6, <2>2
  <2>4. \A way \in ToSet(call.ways) : way = "web" \/ way \in ToSet(Tail(call.ways))
    BY <1>1, <1>3, AKHead
  <2>5. AKLeft(c, Tail(c.ways))
    BY <1>2, <1>4, <2>3, <2>4 DEF AKLeft
  <2>6. AKEntered(AKShare!WayRefuses(c, error))
    BY <1>1, <1>2, <1>4, <2>5, AKRefusal
  <2> QED BY <2>1, <2>6 DEF c
<1> QED BY <1>7, <1>8

\* A page goes on with the listing, answers for good, or gives up the address.
LEMMA AKRequestPage ==
  ASSUME AKInvariant, NEW up \in SUBSET {"plain", "direct"}, NEW error, AKShare!RequestPage(up, error)
  PROVE  AKInvariant'
<1> DEFINE rows == call.rows \o (IF call.request.paged THEN AKShare!Page ELSE AKShare!Listing(call.n))
           whole == ~call.request.paged \/ AKShare!LastPage(rows)
           answers == up \intersect AKShare!Tried # {}
           refused == {Head(call.addresses)} \X (IF answers THEN {"empty"} ELSE AKShare!Tried)
           next == AKShare!AddressRefuses([call EXCEPT !.refused = call.refused \union refused],
                                          IF answers THEN "content" ELSE error)
<1>1. AKUnderWay(call) /\ AKKnown /\ AKShare!Web
  BY DEF AKInvariant, AKEntered, AKShare!RequestPage, AKShare!Asking
<1>2. /\ \/ /\ answers /\ ~whole
            /\ call' = [call EXCEPT !.rows = rows, !.page = call.page + 1]
            /\ UNCHANGED <<preferred, kept>>
         \/ /\ ~(answers /\ ~whole) /\ answers
            /\ AKShare!Answered(rows)
            /\ preferred' = [preferred EXCEPT ![call.request.paged] = Head(call.addresses)]
         \/ /\ call' = next
            /\ UNCHANGED <<preferred, kept>>
      /\ UNCHANGED proxied
  BY DEF AKShare!RequestPage
<1>3. call.request.paged \in BOOLEAN
  BY <1>1, AKRequests DEF AKUnderWay, AKTyped
<1>4. /\ call.n \in Nat /\ call.page \in 1..MaxPages /\ AKForm(call)
      /\ call.addresses \in Seq(AKAddresses) /\ call.addresses # <<>>
      /\ call.request \in AKShare!Requests /\ call.n \in 0..MaxItems
  BY <1>1, SourcesAssumption DEF AKUnderWay
<1>5. Head(call.addresses) \in AKAddresses
  BY <1>4, AKHead
<1>6. ~call.request.paged => rows = AKShare!Listing(call.n)
  <2> SUFFICES ASSUME ~call.request.paged PROVE rows = AKShare!Listing(call.n)
    OBVIOUS
  <2>1. call.page = 1 /\ call.rows = AKShare!Listing(AKShare!Smaller(call.n, (call.page - 1) * PageSize))
    BY <1>1 DEF AKUnderWay
  <2>2. AKShare!Smaller(call.n, (call.page - 1) * PageSize) = 0
    BY <1>4, <2>1, SourcesAssumption DEF AKShare!Smaller
  <2>3. call.rows = <<>>
    BY <2>1, <2>2, AKListing
  <2>4. AKShare!Listing(call.n) \in Seq(Nat)
    BY <1>4, AKListing
  <2>5. <<>> \o AKShare!Listing(call.n) = AKShare!Listing(call.n)
    BY <2>4, ConcatEmptySeq
  <2> QED BY <2>3, <2>5
<1>7. call.request.paged =>
         /\ rows = AKShare!Listing(AKShare!Smaller(call.n, call.page * PageSize))
         /\ whole => rows = AKShare!Listing(call.n)
  BY <1>1, AKPages
<1>8. ~whole => call.request.paged /\ call.page # MaxPages
  BY DEF AKShare!LastPage
<1> HIDE DEF rows, whole
<1>9. CASE /\ answers /\ ~whole
           /\ call' = [call EXCEPT !.rows = rows, !.page = call.page + 1]
           /\ UNCHANGED <<preferred, kept>>
  <2> DEFINE d == [call EXCEPT !.rows = rows, !.page = call.page + 1]
  <2>1. d = [call EXCEPT !.rows = rows, !.page = call.page + 1]
    OBVIOUS
  <2> HIDE DEF d
  <2>2. /\ d.pc = call.pc /\ d.request = call.request /\ d.n = call.n /\ d.ways = call.ways
        /\ d.addresses = call.addresses /\ d.rows = rows /\ d.page = call.page + 1
        /\ d.refused = call.refused
    BY <1>4, <2>1 DEF AKForm
  <2>3. AKForm(d)
    BY <1>4, <2>1 DEF AKForm
  <2>4. d.page \in 1..MaxPages /\ d.page - 1 = call.page
    <3>1. MaxPages \in Nat /\ call.page # MaxPages
      BY <1>8, <1>9, SourcesAssumption
    <3>2. \A p \in 1..MaxPages : p # MaxPages => p + 1 \in 1..MaxPages /\ p + 1 - 1 = p
      BY <3>1
    <3> QED BY <1>4, <2>2, <3>1, <3>2
  <2>5. d.rows = AKShare!Listing(AKShare!Smaller(d.n, (d.page - 1) * PageSize))
    BY <1>7, <1>8, <1>9, <2>2, <2>4
  <2>6. AKLeft(d, d.ways)
    BY <1>1, <2>2 DEF AKUnderWay, AKLeft
  <2>7. AKUnderWay(d)
    BY <1>1, <1>8, <1>9, <2>2, <2>3, <2>4, <2>5, <2>6 DEF AKUnderWay
  <2> QED BY <1>1, <1>2, <1>9, <2>1, <2>7, AKGoesOn DEF AKEntered
<1>10. CASE /\ answers /\ whole
            /\ AKShare!Answered(rows)
            /\ preferred' = [preferred EXCEPT ![call.request.paged] = Head(call.addresses)]
  <2>1. AKShare!Answered(AKShare!Listing(call.n))
    BY <1>3, <1>6, <1>7, <1>10
  <2>2. /\ kept' \in [AKShare!Directories -> {AKShare!Listing(n) : n \in Nat}]
        /\ call'.pc = "answered" /\ AKShare!AnswerIsWhole'
    BY <1>1, <2>1, AKAnswered
  <2>3. preferred' \in [BOOLEAN -> {"none"} \union AKAddresses]
    BY <1>1, <1>5, <1>10 DEF AKKnown
  <2> QED BY <2>2, <2>3 DEF AKInvariant, AKKnown
<1>11. CASE call' = next /\ UNCHANGED <<preferred, kept>>
  <2>1. AKGone(Head(call.addresses), call.refused \union refused)
    BY DEF AKGone, AKShare!Tried
  <2> HIDE DEF refused, answers
  <2>2. AKEntered(next)
    BY <1>1, <2>1, AKAddressRefuses
  <2> QED BY <1>1, <1>2, <1>11, <2>2, AKGoesOn
<1> QED BY <1>2, <1>9, <1>10, <1>11

\* A directory answers with what is kept, or the call begins.
LEMMA AKResolve ==
  ASSUME AKInvariant, NEW req \in AKShare!Requests, req.directory \in AKShare!Directories,
         NEW limit, NEW n \in 0..MaxItems, NEW counted, AKShare!Resolve(req, limit, n, counted)
  PROVE  AKInvariant'
<1> DEFINE known == kept[req.directory]
<1>1. AKKnown
  BY DEF AKInvariant
<1>2. PICK m \in Nat : known = AKShare!Listing(m)
  BY <1>1 DEF AKKnown
<1>3. CASE known = <<>>
  BY <1>1, <1>3, AKBegin DEF AKShare!Resolve
<1>4. CASE known # <<>>
  <2>1. /\ call' = [pc |-> "answered", request |-> req, n |-> Len(known), none |-> FALSE,
                    take |-> limit, limit |-> 0, answer |-> AKShare!Taken(known, limit)]
        /\ UNCHANGED <<preferred, kept>>
    BY <1>4 DEF AKShare!Resolve
  <2>2. Len(known) = m
    BY <1>2, AKListing
  <2>3. AKShare!Taken(AKShare!Listing(m), 0) = AKShare!Listing(m)
    BY DEF AKShare!Taken
  <2> HIDE DEF known
  <2>4. AKShare!AnswerIsWhole'
    BY <1>2, <2>1, <2>2, <2>3 DEF AKShare!AnswerIsWhole
  <2>5. AKKnown' /\ call'.pc = "answered"
    BY <1>1, <2>1 DEF AKKnown
  <2> QED BY <2>4, <2>5 DEF AKInvariant
<1> QED BY <1>3, <1>4

\* The invariant holds initially.
LEMMA AKInit == AKShare!Init => AKInvariant
<1> SUFFICES ASSUME AKShare!Init PROVE AKInvariant
  OBVIOUS
<1>1. call.pc = "idle"
  BY DEF AKShare!Init, AKShare!Idle
<1>2. preferred \in [BOOLEAN -> {"none"} \union AKAddresses]
  BY DEF AKShare!Init
<1>3. kept \in [AKShare!Directories -> {AKShare!Listing(n) : n \in Nat}]
  <2>1. AKShare!Listing(0) = <<>>
    BY AKListing
  <2> QED BY <2>1 DEF AKShare!Init, AKShare!Nothing
<1> QED BY <1>1, <1>2, <1>3 DEF AKInvariant, AKKnown, AKShare!AnswerIsWhole

\* Every step keeps the invariant.
LEMMA AKStep == AKInvariant /\ AKShare!Next => AKInvariant'
<1> SUFFICES ASSUME AKInvariant, AKShare!Next PROVE AKInvariant'
  OBVIOUS
<1>1. AKKnown
  BY DEF AKInvariant
<1>2. CASE \E limit \in {0, 1}, n \in 0..MaxItems, counted \in BOOLEAN :
              \/ \E req \in AKShare!Requests : AKShare!Start(req, limit, n, counted)
              \/ AKShare!ResolveUsSymbols(limit, n, counted)
              \/ AKShare!ResolveThsConcepts(limit, n, counted)
              \/ AKShare!ResolveEmConcepts(limit, n, counted)
  <2> SUFFICES ASSUME NEW limit \in {0, 1}, NEW n \in 0..MaxItems, NEW counted \in BOOLEAN,
              \/ \E req \in AKShare!Requests : AKShare!Start(req, limit, n, counted)
              \/ AKShare!ResolveUsSymbols(limit, n, counted)
              \/ AKShare!ResolveThsConcepts(limit, n, counted)
              \/ AKShare!ResolveEmConcepts(limit, n, counted)
               PROVE AKInvariant'
    BY <1>2
  <2>1. ASSUME NEW req \in AKShare!Requests, AKShare!Start(req, limit, n, counted)
        PROVE  AKInvariant'
    BY <1>1, <2>1, AKBegin DEF AKShare!Start
  <2>2. CASE AKShare!ResolveUsSymbols(limit, n, counted)
    <3>1. AKShare!FetchUsSpot \in AKShare!Requests
      BY DEF AKShare!Requests
    <3>2. AKShare!FetchUsSpot.directory \in AKShare!Directories
      BY DEF AKShare!FetchUsSpot, AKShare!FetchUsSpotRaw, AKShare!Plain, AKShare!Directories
    <3> QED BY <2>2, <3>1, <3>2, AKResolve DEF AKShare!ResolveUsSymbols
  <2>3. CASE AKShare!ResolveThsConcepts(limit, n, counted)
    <3>1. AKShare!FetchThsConceptNames \in AKShare!Requests
      BY DEF AKShare!Requests
    <3>2. AKShare!FetchThsConceptNames.directory \in AKShare!Directories
      BY DEF AKShare!FetchThsConceptNames, AKShare!Plain, AKShare!Directories
    <3> QED BY <2>3, <3>1, <3>2, AKResolve DEF AKShare!ResolveThsConcepts
  <2>4. CASE AKShare!ResolveEmConcepts(limit, n, counted)
    <3>1. AKShare!FetchEmConceptNames \in AKShare!Requests
      BY DEF AKShare!Requests
    <3>2. AKShare!FetchEmConceptNames.directory \in AKShare!Directories
      BY DEF AKShare!FetchEmConceptNames, AKShare!FetchEmConceptConstituents,
             AKShare!FetchEmConceptHistory, AKShare!Plain, AKShare!Directories
    <3> QED BY <2>4, <3>1, <3>2, AKResolve DEF AKShare!ResolveEmConcepts
  <2> QED BY <2>1, <2>2, <2>3, <2>4
<1>3. CASE AKShare!SdkAnswers
  BY <1>3, AKSdkAnswers
<1>4. ASSUME NEW error \in {"connection", "content", "no data"}, AKShare!SdkRefuses(error)
      PROVE  AKInvariant'
  BY <1>4, AKSdkRefuses
<1>5. CASE AKShare!OptionalCallHasNoData
  <2>1. /\ call'.pc = "answered" /\ call'.none = TRUE /\ UNCHANGED <<preferred, kept>>
    BY <1>5 DEF AKShare!OptionalCallHasNoData
  <2> QED BY <1>1, <2>1 DEF AKInvariant, AKKnown, AKShare!AnswerIsWhole
<1>6. ASSUME NEW up \in SUBSET {"plain", "direct"}, NEW error \in {"connection", "content"},
             AKShare!RequestPage(up, error)
      PROVE  AKInvariant'
  BY <1>6, AKRequestPage
<1>7. CASE AKShare!Return
  <2>1. call'.pc = "idle" /\ UNCHANGED <<preferred, kept>>
    BY <1>7 DEF AKShare!Return, AKShare!Idle
  <2> QED BY <1>1, <2>1 DEF AKInvariant, AKKnown, AKShare!AnswerIsWhole
<1>8. CASE AKShare!Close
  <2>1. call' = call /\ call.pc = "idle" /\ UNCHANGED preferred /\ kept' = AKShare!Nothing
    BY <1>8 DEF AKShare!Close
  <2>2. AKShare!Listing(0) = <<>>
    BY AKListing
  <2>3. AKKnown'
    BY <1>1, <2>1, <2>2 DEF AKKnown, AKShare!Nothing
  <2> QED BY <2>1, <2>3 DEF AKInvariant, AKShare!AnswerIsWhole
<1> QED BY <1>2, <1>3, <1>4, <1>5, <1>6, <1>7, <1>8 DEF AKShare!Next

\* So does a step of nothing.
LEMMA AKStutter == AKInvariant /\ UNCHANGED <<call, calls, akshareVars>> => AKInvariant'
<1> SUFFICES ASSUME AKInvariant, UNCHANGED <<call, calls, akshareVars>> PROVE AKInvariant'
  OBVIOUS
<1>1. UNCHANGED <<call, preferred, kept, proxied>>
  BY DEF akshareVars
<1>2. AKKnown /\ AKKnown'
  BY <1>1 DEF AKInvariant, AKKnown
<1>3. CASE call.pc \in {"idle", "answered"}
  BY <1>1, <1>2, <1>3 DEF AKInvariant, AKShare!AnswerIsWhole
<1>4. CASE AKEntered(call)
  BY <1>1, <1>2, <1>4, AKGoesOn
<1> QED BY <1>3, <1>4 DEF AKInvariant

\* What the invariant says of a refusal.
LEMMA AKRefusedOnlyByAll == AKInvariant => AKShare!RefusedOnlyByAll
<1> SUFFICES ASSUME AKInvariant, call.pc = "refused"
             PROVE  /\ (ToSet(call.request.ways) \ {"web"}) \X {"sdk"} \subseteq call.refused
                    /\ "web" \in ToSet(call.request.ways) =>
                          \A address \in ToSet(Addresses) :
                              \/ <<address, "empty">> \in call.refused
                              \/ {address} \X AKShare!Routes \subseteq call.refused
  BY AKSets DEF AKShare!RefusedOnlyByAll
<1>1. AKLeft(call, <<>>)
  BY DEF AKInvariant, AKEntered, AKUnderWay
<1>2. ToSet(<<>>) = {}
  BY DEF ToSet
<1> QED BY <1>1, <1>2 DEF AKLeft, AKGone, AKAddresses

--------------------------------------------------------------------------------
(* The source of yfinance. *)

\* The forms of a fetch and of a task, whatever is in their fields.
YSFetch(c) ==
    c = [pc |-> c.pc, request |-> c.request, symbol |-> c.symbol, todo |-> c.todo,
         attempts |-> c.attempts, rows |-> c.rows, lost |-> c.lost]
YSTask(r) ==
    r = [pc |-> r.pc, todo |-> r.todo, request |-> r.request, lost |-> r.lost, failed |-> r.failed,
         fundamental |-> r.fundamental]

\* A fetch is under way as long as a task runs.
YSForms ==
    \/ /\ run.pc = "running" /\ YSTask(run)
       /\ call.pc \in {"asking", "answered", "refused"} /\ YSFetch(call)
    \/ /\ run.pc = "ended" /\ YSTask(run)
       /\ call.pc = "idle"
    \/ /\ run.pc \in {"idle", "told"}
       /\ call.pc = "idle"

\* The diagnostics are those of the task under way, and miss no part that it went without.
YSNoted ==
    /\ \A x \in diagnostics : x[1] = calls
    /\ run.pc = "running" => \A p \in call.lost : <<calls, call.symbol, p>> \in diagnostics
    /\ run.pc \in {"running", "ended"} =>
          \A x \in run.lost :
              \/ <<calls, x[1], x[2]>> \in diagnostics
              \/ run.failed /\ ~run.fundamental /\ x[2] = "all"

YSInvariant == YSForms /\ YSNoted /\ Yahoo!LossIsReported

\* The place of a call that is none.
LEMMA YSIdle == Yahoo!Idle.pc = "idle"
BY DEF Yahoo!Idle

\* The invariant holds initially.
LEMMA YSInit ==
  ASSUME Yahoo!Init
  PROVE  YSInvariant
<1>1. diagnostics = {} /\ call.pc = "idle" /\ run.pc = "idle"
  BY YSIdle DEF Yahoo!Init
<1> QED BY <1>1 DEF YSInvariant, YSForms, YSNoted, Yahoo!LossIsReported

\* A task starts with no diagnostics.
LEMMA YSStarts ==
  ASSUME YSInvariant, NEW req, NEW symbols, Yahoo!StartTask(req, symbols)
  PROVE  YSInvariant'
<1>1. /\ diagnostics' = {}
      /\ run' = [pc |-> "running", todo |-> symbols, request |-> req, lost |-> {}, failed |-> FALSE,
                 fundamental |-> req \in Yahoo!FundamentalTasks]
      /\ call' = [pc |-> "asking", request |-> req, symbol |-> Head(symbols), todo |-> req.parts,
                  attempts |-> 0, rows |-> {}, lost |-> {}]
  BY DEF Yahoo!StartTask, Yahoo!Begin
<1>2. run'.pc = "running" /\ run'.lost = {} /\ call'.pc = "asking" /\ call'.lost = {}
  BY <1>1
<1>3. YSTask(run)' /\ YSFetch(call)'
  BY <1>1 DEF YSTask, YSFetch
<1> QED BY <1>1, <1>2, <1>3 DEF YSInvariant, YSForms, YSNoted, Yahoo!LossIsReported

\* A fetch goes on, or ends; what it newly goes without is noted.
LEMMA YSFetches ==
  ASSUME YSInvariant, run.pc = "running", UNCHANGED <<run, calls>>, NEW parts,
         diagnostics' = diagnostics \union ({calls} \X {call.symbol} \X parts),
         YSFetch(call'), call'.pc \in {"asking", "answered", "refused"},
         call'.symbol = call.symbol, call'.lost \subseteq call.lost \union parts
  PROVE  YSInvariant'
<1>1. YSForms'
  BY DEF YSInvariant, YSForms
<1>2. \A x \in diagnostics' : x[1] = calls
  BY DEF YSInvariant, YSNoted
<1>3. \A p \in call'.lost : <<calls, call.symbol, p>> \in diagnostics'
  BY DEF YSInvariant, YSNoted
<1>4. YSNoted'
  BY <1>2, <1>3 DEF YSInvariant, YSNoted
<1> QED BY <1>1, <1>4 DEF YSInvariant, Yahoo!LossIsReported

\* The parts of a fetch, one after another.
LEMMA YSParts ==
  ASSUME YSInvariant,
         \/ \E some \in BOOLEAN : Yahoo!PartAnswers(some)
         \/ Yahoo!ReadCache
         \/ \E error \in Yahoo!Errors : Yahoo!PartFails(error)
  PROVE  YSInvariant'
<1>1. run.pc = "running" /\ YSFetch(call) /\ call.pc = "asking" /\ UNCHANGED <<run, calls>>
  BY DEF YSInvariant, YSForms, Yahoo!PartAnswers, Yahoo!ReadCache, Yahoo!PartFails, Yahoo!Asking
<1>2. ASSUME NEW rows, NEW lost, call' = Yahoo!PartDone(rows, lost)
      PROVE  /\ YSFetch(call') /\ call'.pc = "asking" /\ call'.symbol = call.symbol
             /\ call'.lost = call.lost \union lost
  <2>1. call' = [pc |-> "asking", request |-> call.request, symbol |-> call.symbol, todo |-> Tail(call.todo),
                 attempts |-> 0, rows |-> call.rows \union rows, lost |-> call.lost \union lost]
    BY <1>1, <1>2 DEF Yahoo!PartDone, YSFetch
  <2> QED BY <2>1 DEF YSFetch
<1>3. CASE \E some \in BOOLEAN : Yahoo!PartAnswers(some)
  <2>1. PICK some \in BOOLEAN : Yahoo!PartAnswers(some)
    BY <1>3
  <2>2. PICK rows, lost : call' = Yahoo!PartDone(rows, lost) /\ Yahoo!Note(lost)
    BY <2>1 DEF Yahoo!PartAnswers
  <2>3. diagnostics' = diagnostics \union ({calls} \X {call.symbol} \X lost)
    BY <2>2 DEF Yahoo!Note
  <2>4. /\ YSFetch(call') /\ call'.pc \in {"asking", "answered", "refused"} /\ call'.symbol = call.symbol
        /\ call'.lost \subseteq call.lost \union lost
    BY <1>2, <2>2
  <2> QED BY <1>1, <2>3, <2>4, YSFetches
<1>4. CASE Yahoo!ReadCache
  <2>1. PICK rows : call' = Yahoo!PartDone(rows, {}) /\ diagnostics' = diagnostics
    BY <1>4 DEF Yahoo!ReadCache
  <2>2. diagnostics' = diagnostics \union ({calls} \X {call.symbol} \X {})
    BY <2>1
  <2>3. /\ YSFetch(call') /\ call'.pc \in {"asking", "answered", "refused"} /\ call'.symbol = call.symbol
        /\ call'.lost \subseteq call.lost \union {}
    BY <1>2, <2>1
  <2> QED BY <1>1, <2>2, <2>3, YSFetches
<1>5. CASE \E error \in Yahoo!Errors : Yahoo!PartFails(error)
  <2>1. PICK error \in Yahoo!Errors : Yahoo!PartFails(error)
    BY <1>5
  <2>2. \/ call' = [call EXCEPT !.attempts = @ + 1] /\ diagnostics' = diagnostics
        \/ call' = Yahoo!PartDone({}, {Yahoo!Part}) /\ Yahoo!Note({Yahoo!Part})
        \/ call' = [call EXCEPT !.pc = "refused"] /\ diagnostics' = diagnostics
    BY <2>1 DEF Yahoo!PartFails
  <2>3. CASE call' = [call EXCEPT !.attempts = @ + 1] /\ diagnostics' = diagnostics
    <3>1. call' = [pc |-> "asking", request |-> call.request, symbol |-> call.symbol, todo |-> call.todo,
                   attempts |-> call.attempts + 1, rows |-> call.rows, lost |-> call.lost]
      BY <1>1, <2>3 DEF YSFetch
    <3>2. /\ YSFetch(call') /\ call'.pc = "asking" /\ call'.symbol = call.symbol
          /\ call'.lost = call.lost
      BY <3>1 DEF YSFetch
    <3>3. diagnostics' = diagnostics \union ({calls} \X {call.symbol} \X {})
      BY <2>3
    <3> QED BY <1>1, <3>2, <3>3, YSFetches
  <2>4. CASE call' = Yahoo!PartDone({}, {Yahoo!Part}) /\ Yahoo!Note({Yahoo!Part})
    <3>1. diagnostics' = diagnostics \union ({calls} \X {call.symbol} \X {Yahoo!Part})
      BY <2>4 DEF Yahoo!Note
    <3>2. /\ YSFetch(call') /\ call'.pc \in {"asking", "answered", "refused"} /\ call'.symbol = call.symbol
          /\ call'.lost \subseteq call.lost \union {Yahoo!Part}
      BY <1>2, <2>4
    <3> QED BY <1>1, <3>1, <3>2, YSFetches
  <2>5. CASE call' = [call EXCEPT !.pc = "refused"] /\ diagnostics' = diagnostics
    <3>1. call' = [pc |-> "refused", request |-> call.request, symbol |-> call.symbol, todo |-> call.todo,
                   attempts |-> call.attempts, rows |-> call.rows, lost |-> call.lost]
      BY <1>1, <2>5 DEF YSFetch
    <3>2. /\ YSFetch(call') /\ call'.pc = "refused" /\ call'.symbol = call.symbol
          /\ call'.lost = call.lost
      BY <3>1 DEF YSFetch
    <3>3. diagnostics' = diagnostics \union ({calls} \X {call.symbol} \X {})
      BY <2>5
    <3> QED BY <1>1, <3>2, <3>3, YSFetches
  <2> QED BY <2>2, <2>3, <2>4, <2>5
<1> QED BY <1>3, <1>4, <1>5

\* A fetch is put together.
LEMMA YSPutTogether ==
  ASSUME YSInvariant, Yahoo!PutTogether
  PROVE  YSInvariant'
<1>1. run.pc = "running" /\ YSFetch(call) /\ UNCHANGED <<run, calls, diagnostics>>
      /\ call' = [call EXCEPT !.pc = Yahoo!Outcome(call)]
  BY DEF YSInvariant, YSForms, Yahoo!PutTogether
<1>2. call' = [pc |-> Yahoo!Outcome(call), request |-> call.request, symbol |-> call.symbol,
               todo |-> call.todo, attempts |-> call.attempts, rows |-> call.rows, lost |-> call.lost]
  BY <1>1 DEF YSFetch
<1>3. /\ YSFetch(call') /\ call'.pc = Yahoo!Outcome(call) /\ call'.symbol = call.symbol
      /\ call'.lost = call.lost /\ call'.rows = call.rows /\ call'.request = call.request
  BY <1>2 DEF YSFetch
<1>4. Yahoo!Outcome(call) \in {"answered", "refused"}
  BY DEF Yahoo!Outcome
<1>5. diagnostics' = diagnostics \union ({calls} \X {call.symbol} \X {})
  BY <1>1
<1> QED BY <1>1, <1>3, <1>4, <1>5, YSFetches

\* The task goes on with the next symbol, or ends.
LEMMA YSDone ==
  ASSUME YSInvariant, Yahoo!FetchDone
  PROVE  YSInvariant'
<1> DEFINE refused == call.pc = "refused"
           goesOn == Len(run.todo) > 1 /\ (run.fundamental \/ ~refused)
           notes == IF run.fundamental /\ refused THEN {"all"} ELSE {}
           lost == call.lost \union IF refused THEN {"all"} ELSE {}
<1>1. run.pc = "running" /\ YSFetch(call) /\ YSTask(run)
  BY DEF YSInvariant, YSForms, Yahoo!FetchDone
<1>2. /\ run' = [run EXCEPT !.pc = IF goesOn THEN "running" ELSE "ended", !.todo = Tail(@),
                            !.failed = @ \/ refused, !.lost = @ \union ({call.symbol} \X lost)]
      /\ call' = IF goesOn THEN Yahoo!Begin(run.request, run.todo[2]) ELSE Yahoo!Idle
      /\ diagnostics' = diagnostics \union ({calls} \X {call.symbol} \X notes)
      /\ calls' = calls
  BY DEF Yahoo!FetchDone, Yahoo!Note
<1>3. run' = [pc |-> IF goesOn THEN "running" ELSE "ended", todo |-> Tail(run.todo), request |-> run.request,
              lost |-> run.lost \union ({call.symbol} \X lost), failed |-> run.failed \/ refused,
              fundamental |-> run.fundamental]
  BY <1>1, <1>2 DEF YSTask
<1>4. /\ YSTask(run') /\ run'.pc = (IF goesOn THEN "running" ELSE "ended")
      /\ run'.lost = run.lost \union ({call.symbol} \X lost)
      /\ run'.fundamental = run.fundamental
  BY <1>3 DEF YSTask
<1>5. run'.failed <=> run.failed \/ refused
  BY <1>3
<1>6. goesOn => call'.pc = "asking" /\ YSFetch(call') /\ call'.lost = {}
  BY <1>2 DEF Yahoo!Begin, YSFetch
<1>7. ~goesOn => call'.pc = "idle"
  BY <1>2, YSIdle
<1>8. YSForms'
  <2> HIDE DEF goesOn
  <2> QED BY <1>4, <1>6, <1>7 DEF YSForms
<1>9. \A x \in diagnostics' : x[1] = calls
  BY <1>2 DEF YSInvariant, YSNoted
<1>10. ASSUME NEW x \in run'.lost
       PROVE  <<calls, x[1], x[2]>> \in diagnostics' \/ (run'.failed /\ ~run'.fundamental /\ x[2] = "all")
  <2>1. CASE x \in run.lost
    <3>1. <<calls, x[1], x[2]>> \in diagnostics \/ (run.failed /\ ~run.fundamental /\ x[2] = "all")
      BY <1>1, <2>1 DEF YSInvariant, YSNoted
    <3> QED BY <1>2, <1>4, <1>5, <3>1
  <2>2. CASE x \in {call.symbol} \X lost
    <3>1. x[1] = call.symbol /\ x[2] \in lost
      BY <2>2
    <3>2. CASE x[2] \in call.lost
      <4>1. <<calls, call.symbol, x[2]>> \in diagnostics
        BY <1>1, <3>2 DEF YSInvariant, YSNoted
      <4> QED BY <1>2, <3>1, <4>1
    <3>3. CASE x[2] \notin call.lost
      <4>1. refused /\ x[2] = "all"
        BY <3>1, <3>3
      <4>2. CASE run.fundamental
        <5>1. x[2] \in notes
          BY <4>1, <4>2
        <5>2. <<calls, call.symbol, x[2]>> \in {calls} \X {call.symbol} \X notes
          BY <5>1
        <5> QED BY <1>2, <3>1, <5>2
      <4>3. CASE ~run.fundamental
        BY <1>4, <1>5, <4>1, <4>3
      <4> QED BY <4>2, <4>3
    <3> QED BY <3>2, <3>3
  <2> QED BY <1>4, <2>1, <2>2
<1>11. YSNoted'
  <2>1. run'.pc = "running" => call'.lost = {}
    <3> HIDE DEF goesOn
    <3> QED BY <1>4, <1>6
  <2> HIDE DEF goesOn, refused, notes, lost
  <2> QED BY <1>2, <1>9, <1>10, <2>1 DEF YSNoted
<1>12. call'.pc # "answered" /\ run'.pc # "told"
  <2> HIDE DEF goesOn
  <2> QED BY <1>4, <1>6, <1>7
<1> QED BY <1>8, <1>11, <1>12 DEF YSInvariant, Yahoo!LossIsReported

\* The diagnostics are told with the outcome of the task.
LEMMA YSEnds ==
  ASSUME YSInvariant, Yahoo!EndTask \/ Yahoo!NextTask
  PROVE  YSInvariant'
<1>1. call.pc = "idle" /\ call' = call /\ calls' = calls
  BY DEF YSInvariant, YSForms, Yahoo!EndTask, Yahoo!NextTask
<1>2. CASE Yahoo!EndTask
  <2>1. /\ run.pc = "ended" /\ diagnostics' = {}
        /\ run' = [pc |-> "told", failed |-> run.failed, lost |-> run.lost, fundamental |-> run.fundamental,
                   told |-> diagnostics]
    BY <1>2 DEF Yahoo!EndTask, Yahoo!Reported
  <2>2. /\ run'.pc = "told" /\ run'.lost = run.lost /\ run'.told = diagnostics
        /\ run'.failed = run.failed /\ run'.fundamental = run.fundamental
    BY <2>1
  <2>3. Yahoo!LossIsReported'
    BY <1>1, <2>1, <2>2 DEF YSInvariant, YSNoted, Yahoo!LossIsReported
  <2> QED BY <1>1, <2>1, <2>2, <2>3 DEF YSInvariant, YSForms, YSNoted
<1>3. CASE Yahoo!NextTask
  <2>1. run'.pc = "idle" /\ diagnostics' = diagnostics
    BY <1>3, YSIdle DEF Yahoo!NextTask
  <2> QED BY <1>1, <2>1 DEF YSInvariant, YSForms, YSNoted, Yahoo!LossIsReported
<1> QED BY <1>2, <1>3

\* Every step keeps the invariant.
LEMMA YSStep ==
  ASSUME YSInvariant, Yahoo!Next
  PROVE  YSInvariant'
BY YSStarts, YSParts, YSPutTogether, YSDone, YSEnds DEF Yahoo!Next

\* So does a step of nothing.
LEMMA YSStutter ==
  ASSUME YSInvariant, UNCHANGED <<diagnostics, call, run, calls>>
  PROVE  YSInvariant'
BY DEF YSInvariant, YSForms, YSFetch, YSTask, YSNoted, Yahoo!LossIsReported

--------------------------------------------------------------------------------
(* The session of AmazingData. *)

\* A call between its start and its end.
SEUnderWay ==
    [pc : {"connect", "client", "invoke"}, client : Session!Clients, again : BOOLEAN,
     nested : BOOLEAN, nestedAgain : BOOLEAN, repair : BOOLEAN, expired : Nat, spoilt : Nat]
SERefused == [pc : {"refused"}, error : {"login", "other", "stale", "broken"}, expired : Nat, spoilt : Nat]
SEEnded == {Session!Idle} \union [pc : {"answered"}] \union SERefused

\* The types of the state.
SETyped ==
    /\ live \in Nat /\ logins \in Nat /\ connected \in BOOLEAN
    /\ client \in [Session!Clients -> Nat]
    /\ file \in {"good", "broken"}
    /\ call \in SEUnderWay \union SEEnded

\* The clients are of the session that the process believes in, and so is the one the server knows.
SEClients ==
    /\ connected => client["info"] = client["base"] /\ client["base"] # 0
    /\ ~connected => client["info"] = 0 /\ client["base"] = 0
    /\ client["market"] \in {0, client["base"]}
    /\ live \in {0, client["base"]}

\* A fault that stands has been counted, and so has the one that an attempt was spent on.
SECounted(c) ==
    /\ c.pc # "connect" => connected
    /\ c.pc = "invoke" => client[IF c.nested THEN "base" ELSE c.client] # 0
    /\ connected /\ live = 0 => c.expired > 0
    /\ ~c.again => c.expired > 0
    /\ ~c.again /\ connected /\ live = 0 => c.expired > 1
    /\ file = "broken" => c.spoilt > 0
    /\ c.client = "info" /\ ~c.repair => c.spoilt > 0 /\ (file = "broken" => c.spoilt > 1)

SEInvariant ==
    /\ SETyped /\ SEClients
    /\ call \in SEUnderWay => SECounted(call)
    /\ Session!OneFaultIsRepaired

\* The forms of a call.
LEMMA SEForms ==
  /\ \A c \in SEUnderWay : c.pc \in {"connect", "client", "invoke"} /\ c \notin SEEnded
  /\ \A c \in SEEnded : c.pc \in {"idle", "answered", "refused"} /\ c \notin SEUnderWay
  /\ \A c \in SEEnded : c.pc = "refused" => c \in SERefused
<1>1. \A c \in SEUnderWay : c.pc \in {"connect", "client", "invoke"}
  BY DEF SEUnderWay
<1>2. \A c \in SEEnded : c.pc \in {"idle", "answered", "refused"} /\ (c.pc = "refused" => c \in SERefused)
  BY DEF SEEnded, SERefused, Session!Idle
<1> QED BY <1>1, <1>2

\* The invariant holds initially.
LEMMA SEInit ==
  ASSUME Session!Init
  PROVE  SEInvariant
<1>1. SETyped
  BY DEF Session!Init, SETyped, SEEnded, Session!NoClient, Session!Clients
<1>2. SEClients
  BY DEF Session!Init, SEClients, Session!NoClient, Session!Clients
<1>3. call \in SEEnded /\ call.pc = "idle"
  BY DEF Session!Init, SEEnded, Session!Idle
<1> QED BY <1>1, <1>2, <1>3, SEForms DEF SEInvariant, Session!OneFaultIsRepaired

\* A call that has ended is counted no more.
LEMMA SEEnds ==
  ASSUME SETyped', SEClients', call' \in SEEnded,
         call'.pc = "refused" => /\ call'.error = "stale" => call'.expired > 1
                                 /\ call'.error = "broken" => call'.spoilt > 1
  PROVE  SEInvariant'
BY SEForms DEF SEInvariant, Session!OneFaultIsRepaired

\* A call that goes on.
LEMMA SEGoesOn ==
  ASSUME SETyped', SEClients', call' \in SEUnderWay, SECounted(call)'
  PROVE  SEInvariant'
<1>1. call'.pc # "refused"
  BY SEForms
<1> QED BY <1>1 DEF SEInvariant, Session!OneFaultIsRepaired

\* A call starts.
LEMMA SEStarts ==
  ASSUME SEInvariant, NEW c \in Session!Clients, Session!StartCall(c)
  PROVE  SEInvariant'
<1>1. /\ call' = [pc |-> "connect", client |-> c, again |-> TRUE, nested |-> FALSE, nestedAgain |-> TRUE,
                  repair |-> c = "info", expired |-> IF connected /\ live = 0 THEN 1 ELSE 0,
                  spoilt |-> IF file = "broken" THEN 1 ELSE 0]
      /\ UNCHANGED <<live, logins, connected, client, file>>
  BY DEF Session!StartCall
<1>2. call' \in SEUnderWay
  BY <1>1 DEF SEUnderWay
<1>3. SETyped' /\ SEClients'
  BY <1>1, <1>2 DEF SEInvariant, SETyped, SEClients
<1>4. /\ call'.pc = "connect" /\ call'.again /\ call'.client = c
      /\ connected /\ live = 0 => call'.expired = 1
      /\ file = "broken" => call'.spoilt = 1
  BY <1>1
<1>5. call'.client = "info" => call'.repair
  BY <1>1
<1>6. SECounted(call)'
  BY <1>1, <1>4, <1>5 DEF SECounted
<1> QED BY <1>2, <1>3, <1>6, SEGoesOn

\* One field of a call after another.
LEMMA SEFields ==
  ASSUME NEW c \in SEUnderWay
  PROVE  /\ \A pc \in {"connect", "client", "invoke"} :
               /\ [c EXCEPT !.pc = pc] \in SEUnderWay
               /\ [c EXCEPT !.nested = FALSE, !.pc = pc] \in SEUnderWay
               /\ [c EXCEPT !.pc = pc, !.nestedAgain = FALSE] \in SEUnderWay
               /\ [c EXCEPT !.pc = pc, !.again = FALSE] \in SEUnderWay
               /\ [c EXCEPT !.pc = pc, !.repair = FALSE, !.again = TRUE] \in SEUnderWay
         /\ [c EXCEPT !.nested = TRUE, !.nestedAgain = TRUE] \in SEUnderWay
         /\ \A n \in Nat : [c EXCEPT !.expired = n] \in SEUnderWay /\ [c EXCEPT !.spoilt = n] \in SEUnderWay
BY ZenonT(60) DEF SEUnderWay

\* The steps of a call.
LEMMA SECalls ==
  ASSUME SEInvariant, call \in SEUnderWay,
         \/ Session!Connected \/ Session!ClientAtHand \/ Session!AskCalendar
         \/ Session!BuildMarketClient \/ Session!Reconnect \/ Session!Quarantine \/ Session!Login
  PROVE  SEInvariant'
<1>1. SETyped /\ SEClients /\ SECounted(call)
  BY DEF SEInvariant
<1>2. CASE Session!Connected
  <2>1. call' = [call EXCEPT !.pc = "client"] /\ connected /\ UNCHANGED <<live, logins, connected, client, file>>
    BY <1>2 DEF Session!Connected
  <2>2. call' \in SEUnderWay
    BY <2>1, SEFields
  <2>3. SETyped' /\ SEClients'
    BY <1>1, <2>1, <2>2 DEF SETyped, SEClients
  <2>4. SECounted(call)'
    BY <1>1, <2>1 DEF SECounted, SEUnderWay
  <2> QED BY <2>2, <2>3, <2>4, SEGoesOn
<1>3. CASE Session!ClientAtHand
  <2>1. /\ call' = [call EXCEPT !.pc = "invoke"] /\ call.pc = "client"
        /\ client[IF call.nested THEN "base" ELSE call.client] # 0
        /\ UNCHANGED <<live, logins, connected, client, file>>
    BY <1>3 DEF Session!ClientAtHand, Session!Target
  <2>2. call' \in SEUnderWay
    BY <2>1, SEFields
  <2>3. SETyped' /\ SEClients'
    BY <1>1, <2>1, <2>2 DEF SETyped, SEClients
  <2>4. SECounted(call)'
    BY <1>1, <2>1 DEF SECounted, SEUnderWay
  <2> QED BY <2>2, <2>3, <2>4, SEGoesOn
<1>4. CASE Session!AskCalendar
  <2>1. /\ call' = [call EXCEPT !.nested = TRUE, !.nestedAgain = TRUE] /\ call.pc = "client"
        /\ UNCHANGED <<live, logins, connected, client, file>>
    BY <1>4 DEF Session!AskCalendar
  <2>2. call' \in SEUnderWay
    BY <2>1, SEFields
  <2>3. SETyped' /\ SEClients'
    BY <1>1, <2>1, <2>2 DEF SETyped, SEClients
  <2>4. SECounted(call)'
    BY <1>1, <2>1 DEF SECounted, SEUnderWay
  <2> QED BY <2>2, <2>3, <2>4, SEGoesOn
<1>5. CASE Session!BuildMarketClient
  <2>1. /\ client' = [client EXCEPT !["market"] = client["base"]] /\ call.pc = "client"
        /\ UNCHANGED <<live, logins, connected, call, file>>
    BY <1>5 DEF Session!BuildMarketClient
  <2>2. client' \in [Session!Clients -> Nat] /\ client'["base"] = client["base"]
        /\ client'["info"] = client["info"]
        /\ client'["market"] = client["base"]
    BY <1>1, <2>1 DEF SETyped, Session!Clients
  <2>3. SETyped' /\ SEClients'
    BY <1>1, <2>1, <2>2 DEF SETyped, SEClients
  <2>4. SECounted(call)'
    BY <1>1, <2>1 DEF SECounted
  <2> QED BY <2>1, <2>3, <2>4, SEGoesOn
<1>6. CASE Session!Reconnect
  <2>1. /\ call.pc = "invoke" /\ client[IF call.nested THEN "base" ELSE call.client] # live
        /\ live' = 0 /\ connected' = FALSE /\ client' = [c \in Session!Clients |-> 0]
        /\ call' = IF call.nested THEN [call EXCEPT !.pc = "connect", !.nestedAgain = FALSE]
                   ELSE [call EXCEPT !.pc = "connect", !.again = FALSE]
        /\ UNCHANGED <<logins, file>>
    BY <1>6 DEF Session!Reconnect, Session!Stale, Session!Target, Session!Close, Session!NoClient
  <2>2. call' \in SEUnderWay
    BY <2>1, SEFields
  <2>3. SETyped' /\ SEClients'
    BY <1>1, <2>1, <2>2 DEF SETyped, SEClients, Session!Clients
  <2>4. connected /\ live = 0
    <3>1. call.client \in {"base", "info", "market"}
      BY DEF SEUnderWay, Session!Clients
    <3> QED BY <1>1, <2>1, <3>1 DEF SECounted, SEClients
  <2>5. call.expired > 0
    BY <1>1, <2>4 DEF SECounted
  <2>6. call'.expired = call.expired /\ call'.spoilt = call.spoilt /\ call'.repair = call.repair
        /\ call'.client = call.client /\ call'.pc = "connect"
    BY <2>1 DEF SEUnderWay
  <2>7. SECounted(call)'
    BY <1>1, <2>1, <2>5, <2>6 DEF SECounted
  <2> QED BY <2>2, <2>3, <2>7, SEGoesOn
<1>7. CASE Session!Quarantine
  <2>1. /\ call.pc = "invoke" /\ file = "broken" /\ call.repair /\ file' = "good"
        /\ call' = [call EXCEPT !.pc = "connect", !.repair = FALSE, !.again = TRUE]
        /\ UNCHANGED <<live, logins, connected, client>>
    BY <1>7 DEF Session!Quarantine, Session!Broken
  <2>2. call' \in SEUnderWay
    BY <2>1, SEFields
  <2>3. SETyped' /\ SEClients'
    BY <1>1, <2>1, <2>2 DEF SETyped, SEClients
  <2>4. call'.expired = call.expired /\ call'.spoilt = call.spoilt /\ call'.pc = "connect" /\ call'.again
    BY <2>1 DEF SEUnderWay
  <2>5. SECounted(call)'
    BY <1>1, <2>1, <2>4 DEF SECounted
  <2> QED BY <2>2, <2>3, <2>5, SEGoesOn
<1>8. CASE Session!Login
  <2>1. /\ ~connected /\ logins' = logins + 1 /\ live' = logins + 1 /\ connected' = TRUE
        /\ client' = [c \in Session!Clients |-> IF c = "market" THEN client[c] ELSE logins + 1]
        /\ call' = [call EXCEPT !.pc = "client"] /\ file' = file
    BY <1>8 DEF Session!Login
  <2>2. call' \in SEUnderWay
    BY <2>1, SEFields
  <2>3. logins \in Nat /\ client \in [Session!Clients -> Nat] /\ client["market"] = 0
    BY <1>1, <2>1 DEF SETyped, SEClients
  <2>4. client' \in [Session!Clients -> Nat] /\ client'["base"] = logins + 1 /\ client'["info"] = logins + 1
        /\ client'["market"] = 0
    BY <2>1, <2>3 DEF Session!Clients
  <2>5. SETyped'
    BY <1>1, <2>1, <2>2, <2>3, <2>4 DEF SETyped
  <2>6. SEClients'
    BY <2>1, <2>3, <2>4 DEF SEClients
  <2>7. SECounted(call)'
    BY <1>1, <2>1, <2>3 DEF SECounted, SEUnderWay
  <2> QED BY <2>2, <2>5, <2>6, <2>7, SEGoesOn
<1> QED BY <1>2, <1>3, <1>4, <1>5, <1>6, <1>7, <1>8

\* A call that is answered, or told that there is no calendar.
LEMMA SEAnswers ==
  ASSUME SEInvariant, call \in SEUnderWay,
         \/ Session!LoginFails \/ Session!BuildFails \/ Session!Answers \/ Session!AnswersWithError
         \/ Session!StaleAgain \/ Session!QuarantineFails \/ Session!BrokenAgain
  PROVE  SEInvariant'
<1>1. SETyped /\ SEClients /\ SECounted(call)
  BY DEF SEInvariant
<1>2. UNCHANGED <<live, logins, connected, client, file>>
  BY DEF Session!LoginFails, Session!BuildFails, Session!Answers, Session!AnswersWithError,
         Session!StaleAgain, Session!QuarantineFails, Session!BrokenAgain
<1>3. SEClients'
  BY <1>1, <1>2 DEF SEClients
<1>4. CASE \E error \in {"login", "other", "stale", "broken"} :
              /\ Session!Refuse(error)
              /\ error = "stale" => call.expired > 1
              /\ error = "broken" => call.spoilt > 1
  <2>1. PICK error \in {"login", "other", "stale", "broken"} :
           /\ Session!Refuse(error)
           /\ error = "stale" => call.expired > 1
           /\ error = "broken" => call.spoilt > 1
    BY <1>4
  <2>2. call' = [pc |-> "refused", error |-> error, expired |-> call.expired, spoilt |-> call.spoilt]
    BY <2>1 DEF Session!Refuse
  <2>3. call' \in SERefused
    BY <2>2 DEF SERefused, SEUnderWay
  <2>4. SETyped'
    BY <1>1, <1>2, <2>3 DEF SETyped, SEEnded
  <2> QED BY <1>3, <2>1, <2>2, <2>3, <2>4, SEEnds DEF SEEnded
<1>5. CASE call' = [pc |-> "answered"]
  <2>1. call' \in SEEnded /\ call'.pc = "answered"
    BY <1>5 DEF SEEnded
  <2>2. SETyped'
    BY <1>1, <1>2, <2>1 DEF SETyped
  <2> QED BY <1>3, <2>1, <2>2, SEEnds
<1>6. CASE call' = [call EXCEPT !.nested = FALSE, !.pc = "client"] /\ call.pc = "invoke"
  <2>1. call' \in SEUnderWay
    BY <1>6, SEFields
  <2>2. SETyped'
    BY <1>1, <1>2, <2>1 DEF SETyped
  <2>3. SECounted(call)'
    BY <1>1, <1>2, <1>6 DEF SECounted, SEUnderWay
  <2> QED BY <1>3, <2>1, <2>2, <2>3, SEGoesOn
<1>7. CASE Session!LoginFails \/ Session!BuildFails \/ Session!QuarantineFails
  BY <1>4, <1>7 DEF Session!LoginFails, Session!BuildFails, Session!QuarantineFails
<1>8. CASE Session!Answers \/ Session!AnswersWithError
  BY <1>4, <1>5, <1>6, <1>8 DEF Session!Answers, Session!AnswersWithError, Session!CalendarIs
<1>9. CASE Session!StaleAgain
  <2>1. CASE call.nested
    BY <1>6, <1>9, <2>1 DEF Session!StaleAgain, Session!CalendarIs
  <2>2. CASE ~call.nested
    <3>1. call.pc = "invoke" /\ client[call.client] # live /\ ~call.again /\ Session!Refuse("stale")
      BY <1>9, <2>2 DEF Session!StaleAgain, Session!Stale, Session!Target
    <3>2. call.client \in {"base", "info", "market"}
      BY DEF SEUnderWay, Session!Clients
    <3>3. connected /\ live = 0
      BY <1>1, <2>2, <3>1, <3>2 DEF SECounted, SEClients
    <3>4. call.expired > 1
      BY <1>1, <3>1, <3>3 DEF SECounted
    <3> QED BY <1>4, <3>1, <3>4
  <2> QED BY <2>1, <2>2
<1>10. CASE Session!BrokenAgain
  <2>1. call.client = "info" /\ file = "broken" /\ ~call.repair /\ Session!Refuse("broken")
    BY <1>10 DEF Session!BrokenAgain, Session!Broken
  <2>2. call.spoilt > 1
    BY <1>1, <2>1 DEF SECounted
  <2> QED BY <1>4, <2>1, <2>2
<1> QED BY <1>7, <1>8, <1>9, <1>10

\* What happens to the session, or its file, at any time.
LEMMA SEFaults ==
  ASSUME SEInvariant, Session!Expire \/ Session!Spoil
  PROVE  SEInvariant'
<1>1. SETyped /\ SEClients /\ (call \in SEUnderWay => SECounted(call))
  BY DEF SEInvariant
<1>2. call \in SEUnderWay \union SEEnded
  BY <1>1 DEF SETyped
<1>3. UNCHANGED <<logins, connected, client>> /\ live' \in {0, live} /\ file' \in {"good", "broken"}
  BY <1>1 DEF Session!Expire, Session!Spoil, SETyped
<1>4. SEClients'
  BY <1>1, <1>3 DEF SEClients
<1>5. call' \in SEUnderWay \union SEEnded => SETyped'
  BY <1>1, <1>3 DEF SETyped
<1>6. CASE call \in SEEnded
  <2>1. call' = call
    BY <1>6, SEForms DEF Session!Expire, Session!Spoil, Session!UnderWay
  <2> QED BY <1>4, <1>5, <1>6, <2>1, SEEnds DEF SEInvariant, Session!OneFaultIsRepaired
<1>7. CASE call \in SEUnderWay
  <2>1. Session!UnderWay /\ SECounted(call)
    BY <1>1, <1>7, SEForms DEF Session!UnderWay
  <2>2. CASE Session!Expire
    <3>1. call' = [call EXCEPT !.expired = call.expired + 1] /\ live' = 0 /\ file' = file
      BY <2>1, <2>2 DEF Session!Expire
    <3>2. call.expired + 1 \in Nat
      BY <1>7 DEF SEUnderWay
    <3>3. call' \in SEUnderWay
      BY <1>7, <3>1, <3>2, SEFields
    <3>4. /\ call'.pc = call.pc /\ call'.client = call.client /\ call'.nested = call.nested
          /\ call'.again = call.again /\ call'.repair = call.repair /\ call'.spoilt = call.spoilt
          /\ call'.expired = call.expired + 1 /\ call.expired \in Nat
      BY <1>7, <3>1 DEF SEUnderWay
    <3>5. SECounted(call)'
      BY <1>3, <2>1, <3>1, <3>4 DEF SECounted
    <3> QED BY <1>4, <1>5, <3>3, <3>5, SEGoesOn
  <2>3. CASE Session!Spoil
    <3>1. call' = [call EXCEPT !.spoilt = call.spoilt + 1] /\ live' = live /\ file = "good" /\ file' = "broken"
      BY <2>1, <2>3 DEF Session!Spoil
    <3>2. call.spoilt + 1 \in Nat
      BY <1>7 DEF SEUnderWay
    <3>3. call' \in SEUnderWay
      BY <1>7, <3>1, <3>2, SEFields
    <3>4. /\ call'.pc = call.pc /\ call'.client = call.client /\ call'.nested = call.nested
          /\ call'.again = call.again /\ call'.repair = call.repair /\ call'.expired = call.expired
          /\ call'.spoilt = call.spoilt + 1 /\ call.spoilt \in Nat
      BY <1>7, <3>1 DEF SEUnderWay
    <3>5. SECounted(call)'
      BY <1>3, <2>1, <3>1, <3>4 DEF SECounted
    <3> QED BY <1>4, <1>5, <3>3, <3>5, SEGoesOn
  <2> QED BY <2>2, <2>3
<1> QED BY <1>2, <1>6, <1>7

\* A session closed between two calls, and a call that returns.
LEMMA SEIdles ==
  ASSUME SEInvariant, Session!CloseSession \/ Session!Return
  PROVE  SEInvariant'
<1>1. SETyped /\ SEClients
  BY DEF SEInvariant
<1>2. call' \in SEEnded /\ call'.pc = "idle"
  <2>1. CASE Session!Return
    BY <2>1 DEF Session!Return, SEEnded, Session!Idle
  <2>2. CASE Session!CloseSession
    <3>1. call' = call /\ call.pc = "idle"
      BY <2>2 DEF Session!CloseSession
    <3> QED BY <1>1, <3>1, SEForms DEF SETyped
  <2> QED BY <2>1, <2>2
<1>3. CASE Session!Return
  <2>1. UNCHANGED <<live, logins, connected, client, file>>
    BY <1>3 DEF Session!Return
  <2>2. SETyped' /\ SEClients'
    BY <1>1, <1>2, <2>1 DEF SETyped, SEClients
  <2> QED BY <1>2, <2>2, SEEnds
<1>4. CASE Session!CloseSession
  <2>1. /\ live' = 0 /\ connected' = FALSE /\ client' = [c \in Session!Clients |-> 0]
        /\ UNCHANGED <<logins, file>>
    BY <1>4 DEF Session!CloseSession, Session!Close, Session!NoClient
  <2>2. SETyped' /\ SEClients'
    BY <1>1, <1>2, <2>1 DEF SETyped, SEClients, Session!Clients
  <2> QED BY <1>2, <2>2, SEEnds
<1> QED BY <1>3, <1>4

\* Every step keeps the invariant.
LEMMA SEStep ==
  ASSUME SEInvariant, Session!Next
  PROVE  SEInvariant'
<1>1. call \in SEUnderWay \union SEEnded
  BY DEF SEInvariant, SETyped
<1>2. CASE \/ Session!Connected \/ Session!Login \/ Session!LoginFails \/ Session!ClientAtHand
           \/ Session!AskCalendar \/ Session!BuildMarketClient \/ Session!BuildFails \/ Session!Answers
           \/ Session!AnswersWithError \/ Session!Reconnect \/ Session!StaleAgain \/ Session!Quarantine
           \/ Session!QuarantineFails \/ Session!BrokenAgain
  <2>1. call.pc \in {"connect", "client", "invoke"}
    BY <1>2 DEF Session!Connected, Session!Login, Session!LoginFails, Session!ClientAtHand,
                Session!AskCalendar, Session!BuildMarketClient, Session!BuildFails, Session!Answers,
                Session!AnswersWithError, Session!Reconnect, Session!StaleAgain, Session!Quarantine,
                Session!QuarantineFails, Session!BrokenAgain
  <2>2. call \in SEUnderWay
    BY <1>1, <2>1, SEForms
  <2> QED BY <1>2, <2>2, SECalls, SEAnswers
<1> QED BY <1>2, SEStarts, SEFaults, SEIdles DEF Session!Next

\* So does a step of nothing.
LEMMA SEStutter ==
  ASSUME SEInvariant, UNCHANGED <<live, logins, connected, client, file, call>>
  PROVE  SEInvariant'
BY DEF SEInvariant, SETyped, SEClients, SECounted, Session!OneFaultIsRepaired

\* The clients are those of one login.
LEMMA SEClientsAgree == SEInvariant => Session!ClientsOfOneSession
BY DEF SEInvariant, SEClients, Session!ClientsOfOneSession

--------------------------------------------------------------------------------
(* The lists of codes of AmazingData. *)

UNDays == 1..Len(Listed)
UNCodes == Universe!Codes
UNNames == UNCodes \union {NewName[c] : c \in DOMAIN NewName}

\* A call between its start and its return.
UNCalls ==
    [pc : {"log", "refresh", "build", "days", "window", "aliases", "answered", "refused"},
     what : Universe!Asked, limit : {0, 1}, forced : BOOLEAN, failed : BOOLEAN,
     begin : UNDays, end : UNDays, known : BOOLEAN,
     current : SUBSET UNNames, answer : SUBSET UNNames]

UNTyped ==
    /\ today \in UNDays
    /\ master \in SUBSET UNCodes
    /\ history \in SUBSET (UNCodes \X UNDays)
    /\ call \in UNCalls \union {Universe!Idle}

\* A day of the history was read whole, or has been passed over.
UNHas(d) == d \in passed \/ Listed[d] \X {d} \subseteq history

\* Nothing is missing before the newest day, and a list of a day has the codes of that day.
UNLists ==
    /\ \A d \in UNDays : d <= Universe!Newest => UNHas(d)
    /\ \A d \in refreshed \intersect UNDays : Listed[d] \subseteq master
    /\ \A d \in built \intersect UNDays : d \in unread \/ Listed[d] \subseteq master

\* What a call has found out when it comes to its next step.
UNFound(c) ==
    /\ c.begin <= c.end /\ c.end <= today
    /\ c.pc # "answered" => ~c.known
    /\ c.pc \in {"log", "refresh", "build"} => c.what \in {"current", "historical"}
    /\ c.pc \in {"days", "window"} => c.what \in {"window", "given", "historical bars"}
    /\ c.pc = "build" => today \in unread \/ Listed[today] \subseteq master
    /\ c.pc = "window" => \A d \in c.begin..c.end : UNHas(d)
    /\ c.pc = "aliases" =>
          /\ c.what \in {"missing", "historical", "historical bars"}
          /\ c.what = "historical" => today \in unread \/ Listed[today] \subseteq c.current
          /\ c.what = "historical bars" => \A d \in c.begin..c.end : UNHas(d)

UNInvariant ==
    /\ UNTyped /\ UNLists
    /\ call.pc # "idle" => UNFound(call)
    /\ Universe!UniverseIsWhole /\ Universe!MissingHaveNoRows

\* The forms of a call.
LEMMA UNForms ==
  /\ \A c \in UNCalls : c.pc # "idle" /\ c # Universe!Idle
  /\ Universe!Idle.pc = "idle"
<1>1. \A c \in UNCalls : c.pc # "idle"
  BY DEF UNCalls
<1>2. Universe!Idle.pc = "idle"
  BY DEF Universe!Idle
<1> QED BY <1>1, <1>2

\* Days and codes of the instance.
LEMMA UNDayCodes ==
  /\ UNDays = DOMAIN Listed /\ 1 \in UNDays
  /\ \A d \in UNDays : Listed[d] \subseteq UNCodes
  /\ Len(Listed) \in Nat
<1>1. Listed \in Seq(SUBSET Nat) /\ Listed # <<>>
  BY SourcesAssumption
<1>2. Len(Listed) \in Nat \ {0} /\ DOMAIN Listed = 1..Len(Listed)
  BY <1>1
<1>3. UNDays = DOMAIN Listed /\ 1 \in UNDays
  BY <1>2 DEF UNDays
<1>4. \A d \in UNDays : Listed[d] \subseteq UNCodes
  BY <1>3 DEF UNCodes, Universe!Codes, Universe!Days
<1> QED BY <1>2, <1>3, <1>4

\* A set of days has a last one.
LEMMA UNLast ==
  ASSUME NEW n \in Nat, NEW S \in SUBSET (1..n), S # {}
  PROVE  \E d \in S : \A e \in S : e <= d
<1> DEFINE U == {n - d : d \in S}
<1>1. IsWellFoundedOn(OpToRel(<, Nat), Nat)
  BY NatLessThanWellFounded
<1>2. U \in SUBSET Nat /\ U # {}
  <2>1. \A d \in S : n - d \in Nat
    OBVIOUS
  <2> QED BY <2>1
<1> HIDE DEF U
<1>3. PICK x \in U : \A y \in U : ~(<<y, x>> \in OpToRel(<, Nat))
  BY <1>1, <1>2, WFMin
<1>4. \A y \in U : ~(y < x)
  BY <1>2, <1>3 DEF OpToRel
<1>5. PICK d \in S : x = n - d
  BY DEF U
<1>6. ASSUME NEW e \in S PROVE e <= d
  <2>1. n - e \in U
    BY DEF U
  <2>2. ~(n - e < n - d)
    BY <1>4, <1>5, <2>1
  <2>3. e \in Nat /\ d \in Nat
    OBVIOUS
  <2> QED BY <2>2, <2>3
<1> QED BY <1>6

\* The newest day of the history.
LEMMA UNNewest ==
  ASSUME NEW h \in SUBSET (UNCodes \X UNDays)
  PROVE  LET days == {x[2] : x \in h}
             newest == IF days = {} THEN 0 ELSE CHOOSE d \in days : \A e \in days : e <= d
         IN  /\ newest \in 0..Len(Listed)
             /\ days = {} => newest = 0
             /\ days # {} => newest \in days
             /\ \A e \in days : e <= newest
<1> DEFINE days == {x[2] : x \in h}
           newest == IF days = {} THEN 0 ELSE CHOOSE d \in days : \A e \in days : e <= d
<1>1. days \in SUBSET (1..Len(Listed)) /\ Len(Listed) \in Nat
  BY UNDayCodes DEF UNDays
<1> HIDE DEF days
<1>2. days # {} => \E d \in days : \A e \in days : e <= d
  BY <1>1, UNLast
<1>3. days # {} => newest \in days /\ \A e \in days : e <= newest
  BY <1>2
<1>4. days = {} => newest = 0
  OBVIOUS
<1>5. newest \in 0..Len(Listed)
  <2>1. days # {} => newest \in 1..Len(Listed)
    BY <1>1, <1>3
  <2> HIDE DEF newest
  <2>2. 0 \in 0..Len(Listed) /\ 1..Len(Listed) \subseteq 0..Len(Listed)
    BY <1>1
  <2> QED BY <1>4, <2>1, <2>2
<1> QED BY <1>3, <1>4, <1>5 DEF days

\* Names of now.
LEMMA UNCanonical ==
  /\ \A S : Universe!Canonical(S, FALSE) = S
  /\ \A S, T, known : S \subseteq T => Universe!Canonical(S, known) \subseteq Universe!Canonical(T, known)
  /\ \A S \in SUBSET UNCodes : \A known : Universe!Canonical(S, known) \in SUBSET UNNames
BY DEF Universe!Canonical, UNNames

\* A limit only leaves codes out.
LEMMA UNTaken ==
  ASSUME NEW S, NEW limit
  PROVE  Universe!Taken(S, limit) \subseteq S /\ Universe!Taken(S, 0) = S
BY DEF Universe!Taken

\* The invariant holds initially.
LEMMA UNInit ==
  ASSUME Universe!Init
  PROVE  UNInvariant
<1>1. /\ today = 1 /\ master = {} /\ refreshed = {} /\ built = {} /\ history = {}
      /\ call = Universe!Idle
  BY DEF Universe!Init
<1>2. UNTyped
  BY <1>1, UNDayCodes DEF UNTyped
<1>3. Universe!Newest = 0
  BY <1>1 DEF Universe!Newest, Universe!Synced
<1>4. UNLists
  BY <1>1, <1>3, UNDayCodes DEF UNLists, UNDays
<1> QED BY <1>1, <1>2, <1>4, UNForms DEF UNInvariant, Universe!UniverseIsWhole,
           Universe!MissingHaveNoRows, Universe!Whole

\* A call that goes on, or has been refused.
LEMMA UNGoesOn ==
  ASSUME UNTyped', UNLists', call' \in UNCalls, call'.pc # "answered", UNFound(call)'
  PROVE  UNInvariant'
BY DEF UNInvariant, Universe!UniverseIsWhole, Universe!MissingHaveNoRows, Universe!Whole

\* A call that has returned, or not begun.
LEMMA UNIdles ==
  ASSUME UNTyped', UNLists', call'.pc = "idle"
  PROVE  UNInvariant'
BY DEF UNInvariant, Universe!UniverseIsWhole, Universe!MissingHaveNoRows, Universe!Whole

\* One field of a call after another.
LEMMA UNFields ==
  ASSUME NEW c \in UNCalls
  PROVE  /\ \A pc \in {"log", "refresh", "build", "days", "window", "aliases", "answered", "refused"} :
               /\ [c EXCEPT !.pc = pc] \in UNCalls
               /\ [c EXCEPT !.pc = pc, !.failed = TRUE] \in UNCalls
               /\ [c EXCEPT !.pc = pc, !.forced = TRUE] \in UNCalls
               /\ \A codes \in SUBSET UNNames :
                     /\ [c EXCEPT !.pc = pc, !.answer = codes] \in UNCalls
                     /\ [c EXCEPT !.pc = pc, !.current = codes] \in UNCalls
                     /\ \A known \in BOOLEAN : [c EXCEPT !.pc = pc, !.known = known, !.answer = codes] \in UNCalls
BY ZenonT(60) DEF UNCalls

\* The fields that a step of a call leaves alone.
UNSame(c, d) ==
    c.what = d.what /\ c.limit = d.limit /\ c.begin = d.begin /\ c.end = d.end

\* An answer that is a list as it is.
LEMMA UNAnswers ==
  ASSUME UNTyped', UNLists', call \in UNCalls, UNFound(call), call.pc # "answered",
         UNCHANGED <<today, history, mapped, passed>>,
         NEW codes \in SUBSET UNCodes, Universe!Answer(codes), call.what # "missing",
         call.what \in {"current", "historical"} => today \in unread' \/ Listed[today] \subseteq codes,
         call.what \notin {"current", "historical"} =>
            \A d \in call.begin..call.end : d \in passed \/ Listed[d] \subseteq codes
  PROVE  UNInvariant'
<1>1. codes \in SUBSET UNNames
  BY DEF UNNames
<1>2. CASE codes = {}
  <2>1. call' = [call EXCEPT !.pc = "refused"]
    BY <1>2 DEF Universe!Answer
  <2>2. /\ call' \in UNCalls
        /\ UNSame(call', call) /\ call'.pc = "refused" /\ call'.known = call.known
    <3>1. call' \in UNCalls
      BY <2>1, UNFields
    <3>2. UNSame(call', call) /\ call'.pc = "refused" /\ call'.known = call.known
      BY <2>1 DEF UNCalls, UNSame
    <3> QED BY <3>1, <3>2
  <2>3. UNFound(call)'
    BY <2>2 DEF UNFound, UNSame
  <2> QED BY <2>2, <2>3, UNGoesOn
<1>3. CASE codes # {}
  <2>1. call' = [call EXCEPT !.pc = "answered", !.answer = Universe!Taken(codes, call.limit)]
    BY <1>3 DEF Universe!Answer
  <2>2. Universe!Taken(codes, call.limit) \in SUBSET UNNames
    BY <1>1, UNTaken
  <2>3. /\ call' \in UNCalls
        /\ UNSame(call', call) /\ call'.pc = "answered" /\ call'.known = call.known
        /\ call'.answer = Universe!Taken(codes, call.limit)
    <3>1. call' \in UNCalls
      BY <2>1, <2>2, UNFields
    <3>2. UNSame(call', call) /\ call'.pc = "answered" /\ call'.known = call.known
      BY <2>1 DEF UNCalls, UNSame
    <3>3. call'.answer = Universe!Taken(codes, call.limit)
      BY <2>1 DEF UNCalls
    <3> QED BY <3>1, <3>2, <3>3
  <2>4. ~call'.known
    BY <2>3 DEF UNFound
  <2>5. UNFound(call)'
    BY <2>3 DEF UNFound, UNSame
  <2>6. call'.limit = 0 => call'.answer = codes
    BY <2>3, UNTaken DEF UNSame
  <2>7. \A S : Universe!Canonical(S, call.known)' = S
    BY <2>4, <2>3 DEF Universe!Canonical
  <2>8. Universe!UniverseIsWhole'
    <3>1. Universe!Read' = {d \in call.begin..call.end : d \notin passed}
      BY <2>3 DEF Universe!Read, UNSame
    <3>2. \A d \in {e \in call.begin..call.end : e \notin passed} :
             call.what \notin {"current", "historical"} => Listed[d] \subseteq codes
      OBVIOUS
    <3> QED BY <2>3, <2>6, <2>7, <3>1, <3>2 DEF Universe!UniverseIsWhole, Universe!Whole, UNSame
  <2>9. Universe!MissingHaveNoRows'
    BY <2>3 DEF Universe!MissingHaveNoRows, UNSame
  <2> QED BY <2>5, <2>8, <2>9 DEF UNInvariant
<1> QED BY <1>2, <1>3

\* A call that has got a list.
LEMMA UNListCall ==
  ASSUME call \in UNCalls, NEW codes \in SUBSET UNCodes, Universe!ListIs(codes) \/ Universe!Answer(codes)
  PROVE  call' \in UNCalls
<1>1. codes \in SUBSET UNNames /\ Universe!Taken(codes, call.limit) \in SUBSET UNNames
  BY UNTaken DEF UNNames
<1>2. \/ call' = [call EXCEPT !.pc = "aliases", !.current = codes]
      \/ call' = [call EXCEPT !.pc = "refused"]
      \/ call' = [call EXCEPT !.pc = "answered", !.answer = Universe!Taken(codes, call.limit)]
  BY DEF Universe!ListIs, Universe!Answer
<1>3. CASE call' = [call EXCEPT !.pc = "aliases", !.current = codes]
  BY <1>1, <1>3, UNFields
<1>4. CASE call' = [call EXCEPT !.pc = "refused"]
  BY <1>4, UNFields
<1>5. CASE call' = [call EXCEPT !.pc = "answered", !.answer = Universe!Taken(codes, call.limit)]
  BY <1>1, <1>5, UNFields
<1> QED BY <1>2, <1>3, <1>4, <1>5

\* The list that ensure_code_list has found.
LEMMA UNListIs ==
  ASSUME UNTyped', UNLists', call \in UNCalls, UNFound(call), call.what \in {"current", "historical"},
         call.pc # "answered", UNCHANGED <<today, history, mapped, passed, unread>>,
         NEW codes \in SUBSET UNCodes, Universe!ListIs(codes),
         today \in unread \/ Listed[today] \subseteq codes
  PROVE  UNInvariant'
<1>1. CASE call.what = "historical" /\ codes # {}
  <2>1. call' = [call EXCEPT !.pc = "aliases", !.current = codes]
    BY <1>1 DEF Universe!ListIs
  <2>2. codes \in SUBSET UNNames
    BY DEF UNNames
  <2>3. call' \in UNCalls
    BY <2>1, <2>2, UNFields
  <2>4. UNSame(call', call) /\ call'.pc = "aliases" /\ call'.known = call.known
    BY <2>1 DEF UNCalls, UNSame
  <2>5. call'.current = codes
    BY <2>1 DEF UNCalls
  <2>6. UNFound(call)'
    BY <1>1, <2>4, <2>5 DEF UNFound, UNSame
  <2> QED BY <2>3, <2>4, <2>6, UNGoesOn
<1>2. CASE ~(call.what = "historical" /\ codes # {})
  <2>1. Universe!Answer(codes)
    BY <1>2 DEF Universe!ListIs
  <2>2. call.what # "missing"
    OBVIOUS
  <2> QED BY <2>1, <2>2, UNAnswers
<1> QED BY <1>1, <1>2

\* A call begins.
LEMMA UNStarts ==
  ASSUME UNInvariant, NEW what \in Universe!Asked, NEW begin \in UNDays, NEW end \in UNDays,
         NEW limit \in {0, 1}, Universe!ResolveCodeList(what, begin, end, limit)
  PROVE  UNInvariant'
<1>1. /\ begin <= end /\ end <= today
      /\ call' = [pc |-> Universe!FirstStep(what), what |-> what, limit |-> limit, forced |-> FALSE,
                  failed |-> FALSE, begin |-> IF what = "given" THEN 1 ELSE begin, end |-> end,
                  known |-> FALSE, current |-> {}, answer |-> {}]
      /\ UNCHANGED <<today, master, refreshed, built, history, unread, passed>>
  BY DEF Universe!ResolveCodeList
<1>2. /\ Universe!FirstStep(what) \in {"log", "days", "aliases"}
      /\ Universe!FirstStep(what) = "log" => what \in {"current", "historical"}
      /\ Universe!FirstStep(what) = "days" => what \in {"window", "given", "historical bars"}
      /\ Universe!FirstStep(what) = "aliases" => what = "missing"
  BY DEF Universe!FirstStep, Universe!Asked
<1>3. 1 \in UNDays /\ begin \in Nat /\ end \in Nat /\ 1 <= end
  BY UNDayCodes DEF UNDays
<1>4. call' \in UNCalls
  <2>1. Universe!FirstStep(what) \in {"log", "refresh", "build", "days", "window", "aliases", "answered", "refused"}
    BY <1>2
  <2>2. (IF what = "given" THEN 1 ELSE begin) \in UNDays
    BY <1>3
  <2> QED BY <1>1, <2>1, <2>2, ZenonT(60) DEF UNCalls
<1>5. UNTyped' /\ UNLists'
  BY <1>1, <1>4 DEF UNInvariant, UNTyped, UNLists, UNHas, Universe!Newest, Universe!Synced
<1>6. UNFound(call)' /\ call'.pc # "answered"
  <2>1. /\ call'.pc = Universe!FirstStep(what) /\ call'.what = what /\ call'.end = end
        /\ call'.begin = (IF what = "given" THEN 1 ELSE begin)
    BY <1>1
  <2>2. ~call'.known
    BY <1>1
  <2> QED BY <1>1, <1>2, <1>3, <2>1, <2>2 DEF UNFound
<1> QED BY <1>4, <1>5, <1>6, UNGoesOn

\* A step of a call that leaves the history alone, to another step.
LEMMA UNMoves ==
  ASSUME UNTyped', UNLists', call \in UNCalls, UNFound(call), UNCHANGED <<today, history, passed>>,
         NEW pc \in {"build", "refresh", "refused"}, call' \in UNCalls, call'.pc = pc, UNSame(call', call),
         ~call'.known, pc # "refused" => call.pc \in {"log", "refresh", "build"},
         pc = "build" => today \in unread' \/ Listed[today] \subseteq master'
  PROVE  UNInvariant'
<1>1. UNFound(call)'
  BY DEF UNFound, UNSame
<1> QED BY <1>1, UNGoesOn

\* ensure_code_list.
LEMMA UNEnsures ==
  ASSUME UNInvariant,
         \/ Universe!ListBuiltToday \/ Universe!ReuseMaster \/ Universe!BuildList
         \/ \E rows \in {{}, Listed[today]} : Universe!SyncCodeInfo(rows) \/ Universe!SyncCodeInfoFails(rows)
  PROVE  UNInvariant'
<1>1. /\ UNTyped /\ UNLists /\ today \in UNDays /\ master \in SUBSET UNCodes
      /\ Listed[today] \subseteq UNCodes
  BY UNDayCodes DEF UNInvariant, UNTyped
<1>2. call.pc \in {"log", "refresh", "build"} /\ UNCHANGED <<today, history, mapped, target, passed>>
  BY DEF Universe!ListBuiltToday, Universe!ReuseMaster, Universe!BuildList, Universe!SyncCodeInfo,
         Universe!SyncCodeInfoFails, Universe!Refreshing
<1>3. call \in UNCalls
  BY <1>1, <1>2, UNForms DEF UNTyped
<1>4. UNFound(call) /\ ~call.known /\ call.what \in {"current", "historical"} /\ call.pc # "answered"
  BY <1>2 DEF UNInvariant, UNFound
<1>5. Universe!Newest' = Universe!Newest
  BY <1>2 DEF Universe!Newest, Universe!Synced
<1>6. ASSUME call' \in UNCalls, master' \in SUBSET UNCodes, master \subseteq master', unread \subseteq unread',
             \A d \in refreshed' : d \in refreshed \/ (d = today /\ Listed[today] \subseteq master'),
             \A d \in built' : d \in built \/ (d = today /\ (today \in unread' \/ Listed[today] \subseteq master'))
      PROVE  UNTyped' /\ UNLists'
  <2>1. UNTyped'
    BY <1>1, <1>2, <1>6 DEF UNTyped
  <2>2. \A d \in UNDays : d <= Universe!Newest' => UNHas(d)'
    BY <1>1, <1>2, <1>5 DEF UNLists, UNHas
  <2>3. \A d \in refreshed' \intersect UNDays : Listed[d] \subseteq master'
    BY <1>1, <1>6 DEF UNLists
  <2>4. \A d \in built' \intersect UNDays : d \in unread' \/ Listed[d] \subseteq master'
    BY <1>1, <1>6 DEF UNLists
  <2> QED BY <2>1, <2>2, <2>3, <2>4 DEF UNLists
<1>7. CASE Universe!ListBuiltToday
  <2>1. today \in built /\ Universe!ListIs(master) /\ UNCHANGED <<master, refreshed, built, unread>>
    BY <1>7 DEF Universe!ListBuiltToday
  <2>2. today \in unread \/ Listed[today] \subseteq master
    BY <1>1, <2>1 DEF UNLists
  <2>3. call' \in UNCalls => UNTyped' /\ UNLists'
    BY <1>1, <1>6, <2>1
  <2>4. call' \in UNCalls
    BY <1>1, <1>3, <2>1, UNListCall
  <2> QED BY <1>1, <1>2, <1>3, <1>4, <2>1, <2>2, <2>3, <2>4, UNListIs
<1>8. CASE Universe!ReuseMaster
  <2>1. /\ today \in refreshed /\ call' = [call EXCEPT !.pc = "build"]
        /\ UNCHANGED <<master, refreshed, built, unread>>
    BY <1>8 DEF Universe!ReuseMaster
  <2>2. Listed[today] \subseteq master
    BY <1>1, <2>1 DEF UNLists
  <2>3. call' \in UNCalls
    BY <1>3, <2>1, UNFields
  <2>4. call'.pc = "build" /\ UNSame(call', call) /\ ~call'.known
    BY <1>3, <1>4, <2>1 DEF UNCalls, UNSame
  <2>5. UNTyped' /\ UNLists'
    BY <1>1, <1>6, <2>1, <2>3
  <2> QED BY <1>2, <1>3, <1>4, <2>1, <2>2, <2>3, <2>4, <2>5, UNMoves
<1>9. CASE \E rows \in {{}, Listed[today]} : Universe!SyncCodeInfo(rows)
  <2>1. PICK rows \in {{}, Listed[today]} : Universe!SyncCodeInfo(rows)
    BY <1>9
  <2>2. /\ master' = master \union rows /\ call' = [call EXCEPT !.pc = "build"] /\ built' = built
        /\ refreshed' = IF rows = {} THEN refreshed ELSE refreshed \union {today}
        /\ unread' = IF rows = {} THEN unread \union {today} ELSE unread
    BY <2>1 DEF Universe!SyncCodeInfo
  <2>3. call' \in UNCalls
    BY <1>3, <2>2, UNFields
  <2>4. call'.pc = "build" /\ UNSame(call', call) /\ ~call'.known
    BY <1>3, <1>4, <2>2 DEF UNCalls, UNSame
  <2>5. rows # {} => Listed[today] \subseteq master'
    BY <2>2
  <2>6. today \in unread' \/ Listed[today] \subseteq master'
    BY <2>2, <2>5
  <2>7. master' \in SUBSET UNCodes /\ master \subseteq master' /\ unread \subseteq unread'
    BY <1>1, <2>2
  <2>8. \A d \in refreshed' : d \in refreshed \/ (d = today /\ Listed[today] \subseteq master')
    BY <2>2, <2>5
  <2>9. UNTyped' /\ UNLists'
    BY <1>6, <2>2, <2>3, <2>7, <2>8
  <2> QED BY <1>2, <1>3, <1>4, <2>3, <2>4, <2>6, <2>9, UNMoves
<1>10. CASE \E rows \in {{}, Listed[today]} : Universe!SyncCodeInfoFails(rows)
  <2>1. PICK rows \in {{}, Listed[today]} : Universe!SyncCodeInfoFails(rows)
    BY <1>10
  <2>2. /\ master' = master \union rows /\ built' = built /\ refreshed' = refreshed
        /\ unread' = unread \union {today}
        /\ \/ call' = [call EXCEPT !.pc = "refused"]
           \/ call' = [call EXCEPT !.pc = "build", !.failed = TRUE]
    BY <2>1 DEF Universe!SyncCodeInfoFails
  <2>3. call' \in UNCalls
    BY <1>3, <2>2, UNFields
  <2>4. call'.pc \in {"build", "refused"} /\ UNSame(call', call) /\ ~call'.known
    BY <1>3, <1>4, <2>2 DEF UNCalls, UNSame
  <2>5. master' \in SUBSET UNCodes /\ master \subseteq master' /\ unread \subseteq unread'
        /\ today \in unread'
    BY <1>1, <2>2
  <2>6. UNTyped' /\ UNLists'
    BY <1>6, <2>2, <2>3, <2>5
  <2> QED BY <1>2, <1>3, <1>4, <2>3, <2>4, <2>5, <2>6, UNMoves
<1>11. CASE Universe!BuildList
  <2>1. call.pc = "build" /\ UNCHANGED <<master, refreshed, unread>>
    BY <1>11 DEF Universe!BuildList
  <2>2. today \in unread \/ Listed[today] \subseteq master
    BY <1>4, <2>1 DEF UNFound
  <2>3. CASE call' = [call EXCEPT !.pc = "refresh", !.forced = TRUE] /\ built' = built
    <3>1. call' \in UNCalls
      BY <1>3, <2>3, UNFields
    <3>2. call'.pc = "refresh" /\ UNSame(call', call) /\ ~call'.known
      BY <1>3, <1>4, <2>3 DEF UNCalls, UNSame
    <3>3. UNTyped' /\ UNLists'
      BY <1>1, <1>6, <2>1, <2>3, <3>1
    <3> QED BY <1>2, <1>3, <1>4, <3>1, <3>2, <3>3, UNMoves
  <2>4. CASE Universe!ListIs(master) /\ built' = IF master = {} THEN built ELSE built \union {today}
    <3>1. call' \in UNCalls
      BY <1>1, <1>3, <2>4, UNListCall
    <3>2. \A d \in built' : d \in built \/ (d = today /\ (today \in unread' \/ Listed[today] \subseteq master'))
      BY <2>1, <2>2, <2>4
    <3>3. UNTyped' /\ UNLists'
      BY <1>1, <1>6, <2>1, <3>1, <3>2
    <3> QED BY <1>1, <1>2, <1>3, <1>4, <2>1, <2>2, <2>4, <3>3, UNListIs
  <2> QED BY <1>11, <2>3, <2>4 DEF Universe!BuildList
<1> QED BY <1>7, <1>8, <1>9, <1>10, <1>11

\* get_hist_code_list: what is read extends the history, what is not is passed over.
LEMMA UNReads ==
  ASSUME UNInvariant, NEW failing, Universe!SyncHistCodeList(failing)
  PROVE  UNInvariant'
<1> DEFINE days == Universe!SyncStart..call.end
           read == days \ failing
           new == UNION {Listed[d] \X {d} : d \in read}
<1>1. /\ call.pc = "days" /\ failing \subseteq days
      /\ history' = history \union new
      /\ passed' = passed \union failing
                   \union (IF read = {} THEN {} ELSE Universe!Newest + 1..Universe!SyncStart - 1)
      /\ call' = [call EXCEPT !.pc = "window"]
      /\ UNCHANGED <<today, master, refreshed, built, unread>>
  BY DEF Universe!SyncHistCodeList
<1>2. UNTyped /\ UNLists /\ call \in UNCalls /\ UNFound(call)
  BY <1>1, UNForms DEF UNInvariant, UNTyped
<1>3. call.begin \in UNDays /\ call.end \in UNDays /\ UNDays = 1..Len(Listed) /\ Len(Listed) \in Nat
  BY <1>2, UNDayCodes DEF UNCalls, UNDays
<1>4. /\ Universe!Newest \in 0..Len(Listed)
      /\ \A x \in history : x[2] <= Universe!Newest
  <2>1. /\ Universe!Newest \in 0..Len(Listed)
        /\ \A e \in {x[2] : x \in history} : e <= Universe!Newest
    BY <1>2, UNNewest DEF UNTyped, Universe!Newest, Universe!Synced
  <2> QED BY <2>1
<1>5. Universe!SyncStart \in UNDays \union {Universe!Newest + 1} /\ Universe!SyncStart >= call.begin
      /\ (Universe!Newest = 0 => Universe!SyncStart = call.begin)
      /\ (Universe!Newest # 0 => Universe!SyncStart \in {call.begin, Universe!Newest + 1}
                                 /\ Universe!SyncStart >= Universe!Newest + 1)
  BY <1>3, <1>4 DEF Universe!SyncStart, Universe!Larger
<1>6. days \subseteq UNDays
  BY <1>3, <1>4, <1>5
<1>7. new \in SUBSET (UNCodes \X UNDays)
  <2>1. \A d \in read : Listed[d] \X {d} \in SUBSET (UNCodes \X UNDays)
    BY <1>6, UNDayCodes
  <2> QED BY <2>1
<1>8. history' \in SUBSET (UNCodes \X UNDays)
  BY <1>1, <1>2, <1>7 DEF UNTyped
<1>9. \A d \in read : Listed[d] \X {d} \subseteq history'
  BY <1>1
<1>10. \A d \in UNDays : UNHas(d) => UNHas(d)'
  BY <1>1 DEF UNHas
<1>11. \A d \in days : UNHas(d)'
  BY <1>1, <1>9 DEF UNHas
<1>12. \A d \in UNDays : d < Universe!SyncStart /\ read # {} => UNHas(d)'
  <2> SUFFICES ASSUME NEW d \in UNDays, d < Universe!SyncStart, read # {} PROVE UNHas(d)'
    OBVIOUS
  <2>1. d \in Nat /\ Universe!SyncStart \in Nat /\ Universe!Newest \in Nat
    BY <1>3, <1>4, <1>5
  <2>2. CASE d <= Universe!Newest
    BY <1>2, <1>10, <2>2 DEF UNLists
  <2>3. CASE ~(d <= Universe!Newest)
    <3>1. d \in Universe!Newest + 1..Universe!SyncStart - 1
      BY <2>1, <2>3
    <3> QED BY <1>1, <3>1 DEF UNHas
  <2> QED BY <2>2, <2>3
<1>13. \A d \in UNDays : d <= call.end /\ (d >= Universe!SyncStart) => d \in days
  BY <1>3, <1>4, <1>5
<1>14. \A d \in UNDays : d <= Universe!Newest' => UNHas(d)'
  <2>1. CASE read = {}
    <3>1. history' = history
      BY <1>1, <2>1
    <3>2. Universe!Newest' = Universe!Newest
      BY <3>1 DEF Universe!Newest, Universe!Synced
    <3> QED BY <1>2, <1>10, <3>2 DEF UNLists
  <2>2. CASE read # {}
    <3>1. /\ Universe!Newest' \in 0..Len(Listed)
          /\ {x[2] : x \in history'} # {} => Universe!Newest' \in {x[2] : x \in history'}
          /\ {x[2] : x \in history'} = {} => Universe!Newest' = 0
      BY <1>8, UNNewest DEF Universe!Newest, Universe!Synced
    <3>2. \A x \in new : x[2] \in read
      OBVIOUS
    <3>3. \A x \in history' : x[2] <= Universe!Newest \/ x[2] \in read
      BY <1>1, <1>4, <3>2
    <3>4. Universe!Newest' <= Universe!Newest \/ Universe!Newest' \in read
      <4>1. CASE {x[2] : x \in history'} = {}
        BY <1>4, <3>1, <4>1
      <4>2. CASE {x[2] : x \in history'} # {}
        <5>1. PICK x \in history' : Universe!Newest' = x[2]
          BY <3>1, <4>2
        <5> QED BY <3>3, <5>1
      <4> QED BY <4>1, <4>2
    <3>5. ASSUME NEW d \in UNDays, d <= Universe!Newest' PROVE UNHas(d)'
      <4>1. CASE d <= Universe!Newest
        BY <1>2, <1>10, <4>1 DEF UNLists
      <4>2. CASE d < Universe!SyncStart
        BY <1>12, <2>2, <4>2
      <4>3. CASE ~(d <= Universe!Newest) /\ ~(d < Universe!SyncStart)
        <5>1. Universe!Newest' \in read
          BY <1>3, <1>4, <3>1, <3>4, <3>5, <4>3
        <5>2. d <= call.end
          BY <1>3, <1>5, <3>5, <5>1
        <5>3. d >= Universe!SyncStart
          BY <1>3, <1>4, <1>5, <4>3
        <5> QED BY <1>11, <1>13, <5>2, <5>3
      <4> QED BY <4>1, <4>2, <4>3
    <3> QED BY <3>5
  <2> QED BY <2>1, <2>2
<1>15. \A d \in call.begin..call.end : UNHas(d)'
  <2> SUFFICES ASSUME NEW d \in call.begin..call.end PROVE UNHas(d)'
    OBVIOUS
  <2>1. d \in UNDays /\ d \in Nat /\ d >= call.begin /\ d <= call.end
    BY <1>3
  <2>2. CASE d <= Universe!Newest
    BY <1>2, <1>10, <2>1, <2>2 DEF UNLists
  <2>3. CASE ~(d <= Universe!Newest)
    <3>1. d >= Universe!SyncStart
      BY <1>3, <1>4, <1>5, <2>1, <2>3
    <3> QED BY <1>11, <1>13, <2>1, <3>1
  <2> QED BY <2>2, <2>3
<1>16. call' \in UNCalls
  BY <1>1, <1>2, UNFields
<1>17. UNSame(call', call) /\ call'.pc = "window" /\ call'.known = call.known
  BY <1>1, <1>2 DEF UNCalls, UNSame
<1>18. UNTyped'
  BY <1>1, <1>2, <1>8, <1>16 DEF UNTyped
<1>19. UNLists'
  BY <1>1, <1>2, <1>14 DEF UNLists
<1> HIDE DEF days, read, new
<1>20. call'.what \in {"window", "given", "historical bars"} /\ ~call'.known
  BY <1>1, <1>2, <1>17 DEF UNFound, UNSame
<1>21. UNFound(call)'
  BY <1>1, <1>2, <1>15, <1>17, <1>20 DEF UNFound, UNSame
<1> QED BY <1>16, <1>17, <1>18, <1>19, <1>21, UNGoesOn

\* The codes of a window, and of each day in it that the history has.
LEMMA UNWindow ==
  ASSUME UNTyped, NEW begin, NEW end
  PROVE  /\ Universe!Window(begin, end) \in SUBSET UNCodes
         /\ \A d \in begin..end : UNHas(d) => d \in passed \/ Listed[d] \subseteq Universe!Window(begin, end)
<1>1. history \in SUBSET (UNCodes \X UNDays)
  BY DEF UNTyped
<1>2. \A x \in history : x[1] \in UNCodes
  BY <1>1
<1>3. Universe!Window(begin, end) \in SUBSET UNCodes
  BY <1>2 DEF Universe!Window
<1>4. ASSUME NEW d \in begin..end, UNHas(d), d \notin passed, NEW c \in Listed[d]
      PROVE  c \in Universe!Window(begin, end)
  <2>1. <<c, d>> \in history
    BY <1>4 DEF UNHas
  <2>2. begin <= d /\ d <= end
    BY <1>4
  <2> QED BY <2>1, <2>2 DEF Universe!Window
<1> QED BY <1>3, <1>4

\* The list of a window.
LEMMA UNLoads ==
  ASSUME UNInvariant, Universe!LoadHistCodeList \/ Universe!SyncHistCodeListFails
  PROVE  UNInvariant'
<1> DEFINE codes == Universe!Window(call.begin, call.end)
<1>1. /\ call.pc \in {"days", "window"}
      /\ UNCHANGED <<today, master, refreshed, built, history, mapped, target, unread, passed>>
  BY DEF Universe!LoadHistCodeList, Universe!SyncHistCodeListFails
<1>2. UNTyped /\ UNLists /\ call \in UNCalls /\ UNFound(call)
  BY <1>1, UNForms DEF UNInvariant, UNTyped
<1>3. codes \in SUBSET UNCodes /\ codes \in SUBSET UNNames
  BY <1>2, UNWindow DEF UNNames
<1> HIDE DEF codes
<1>4. call' \in UNCalls => UNTyped' /\ UNLists'
  BY <1>1, <1>2 DEF UNTyped, UNLists, UNHas, Universe!Newest, Universe!Synced
<1>5. call.what \in {"window", "given", "historical bars"} /\ ~call.known
  BY <1>1, <1>2 DEF UNFound
<1>6. CASE Universe!SyncHistCodeListFails
  <2>1. call' = [call EXCEPT !.pc = "refused"]
    BY <1>6 DEF Universe!SyncHistCodeListFails
  <2>2. call' \in UNCalls
    BY <1>2, <2>1, UNFields
  <2>3. UNSame(call', call) /\ call'.pc = "refused" /\ ~call'.known
    BY <1>2, <1>5, <2>1 DEF UNCalls, UNSame
  <2>4. UNFound(call)'
    BY <1>1, <1>2, <2>3 DEF UNFound, UNSame
  <2> QED BY <1>4, <2>2, <2>3, <2>4, UNGoesOn
<1>7. CASE Universe!LoadHistCodeList
  <2>1. /\ call.pc = "window"
        /\ IF call.what = "historical bars" /\ codes # {}
           THEN call' = [call EXCEPT !.pc = "aliases", !.current = codes]
           ELSE Universe!Answer(codes)
    BY <1>7 DEF Universe!LoadHistCodeList, codes
  <2>2. \A d \in call.begin..call.end : UNHas(d)
    BY <1>2, <2>1 DEF UNFound
  <2>3. CASE call.what = "historical bars" /\ codes # {}
    <3>1. call' = [call EXCEPT !.pc = "aliases", !.current = codes]
      BY <2>1, <2>3
    <3>2. call' \in UNCalls
      BY <1>2, <1>3, <3>1, UNFields
    <3>3. UNSame(call', call) /\ call'.pc = "aliases" /\ ~call'.known
      BY <1>2, <1>5, <3>1 DEF UNCalls, UNSame
    <3>4. UNFound(call)'
      BY <1>1, <1>2, <2>2, <2>3, <3>3 DEF UNFound, UNSame, UNHas
    <3> QED BY <1>4, <3>2, <3>3, <3>4, UNGoesOn
  <2>4. CASE ~(call.what = "historical bars" /\ codes # {})
    <3>1. Universe!Answer(codes)
      BY <2>1, <2>4
    <3>2. call' \in UNCalls
      BY <1>2, <1>3, <3>1, UNListCall
    <3>3. \A d \in call.begin..call.end : d \in passed \/ Listed[d] \subseteq codes
      BY <1>2, <2>2, UNWindow DEF codes
    <3>4. call.what # "missing" /\ call.what \notin {"current", "historical"} /\ call.pc # "answered"
      BY <1>1, <1>5
    <3> QED BY <1>1, <1>2, <1>3, <1>4, <3>1, <3>2, <3>3, <3>4, UNAnswers
  <2> QED BY <2>3, <2>4
<1> QED BY <1>6, <1>7

\* resolve_missing_historical_code_list: what is missing has no rows, under no name.
LEMMA UNMissing ==
  ASSUME UNTyped, NEW codes, NEW known \in BOOLEAN
  PROVE  /\ known /\ mapped => Universe!Missing(codes, known) \intersect (target \union DOMAIN NewName) = {}
         /\ \A c \in codes :
               ({c} \union Universe!Canonical({c}, TRUE)) \intersect target = {} =>
                   Universe!Canonical({c}, known) \subseteq Universe!Missing(codes, known)
<1>1. ASSUME known, mapped PROVE Universe!Missing(codes, known) \intersect (target \union DOMAIN NewName) = {}
  <2>1. \A c \in DOMAIN NewName : NewName[c] \notin DOMAIN NewName
    BY SourcesAssumption
  <2>2. \A S : Universe!Canonical(S, known) \intersect DOMAIN NewName = {}
    BY <1>1, <2>1 DEF Universe!Canonical
  <2> QED BY <1>1, <2>2 DEF Universe!Missing
<1>2. ASSUME NEW c \in codes, ({c} \union Universe!Canonical({c}, TRUE)) \intersect target = {}
      PROVE  Universe!Canonical({c}, known) \subseteq Universe!Missing(codes, known)
  <2>1. c \in codes \ target
    BY <1>2
  <2>2. Universe!Canonical({c}, known) \subseteq Universe!Canonical(codes \ target, known)
    BY <2>1 DEF Universe!Canonical
  <2>3. known => Universe!Canonical({c}, known) \intersect target = {}
    BY <1>2 DEF Universe!Canonical
  <2> QED BY <2>2, <2>3 DEF Universe!Missing
<1> QED BY <1>1, <1>2

\* The answers under the names of now.
LEMMA UNMerges ==
  ASSUME UNInvariant, NEW known \in BOOLEAN, Universe!Merge(known)
  PROVE  UNInvariant'
<1> DEFINE codes == Universe!Window(call.begin, call.end)
           missing == Universe!Missing(codes, known)
           merged == Universe!Canonical(call.current \union codes, known)
<1>1. /\ call.pc = "aliases"
      /\ UNCHANGED <<today, master, refreshed, built, history, mapped, target, unread, passed>>
  BY DEF Universe!Merge
<1>2. UNTyped /\ UNLists /\ call \in UNCalls /\ UNFound(call)
  BY <1>1, UNForms DEF UNInvariant, UNTyped
<1>3. codes \in SUBSET UNCodes /\ \A d \in call.begin..call.end : UNHas(d) => d \in passed \/ Listed[d] \subseteq codes
  BY <1>2, UNWindow
<1>4. call' \in UNCalls => UNTyped' /\ UNLists'
  BY <1>1, <1>2 DEF UNTyped, UNLists, UNHas, Universe!Newest, Universe!Synced
<1>5. /\ call.what \in {"missing", "historical", "historical bars"} /\ ~call.known
      /\ call.what = "historical" => today \in unread \/ Listed[today] \subseteq call.current
      /\ call.what = "historical bars" => \A d \in call.begin..call.end : UNHas(d)
  BY <1>1, <1>2 DEF UNFound
<1>6. \/ call.what = "missing"
         /\ call' = [call EXCEPT !.pc = "answered", !.known = known, !.answer = Universe!Taken(missing, call.limit)]
      \/ call' = [call EXCEPT !.pc = "refused"]
      \/ call.what # "missing"
         /\ call' = [call EXCEPT !.pc = "answered", !.known = known, !.answer = Universe!Taken(merged, call.limit)]
  BY DEF Universe!Merge
<1>7. missing \in SUBSET UNNames /\ merged \in SUBSET UNNames
  <2>1. missing \subseteq Universe!Canonical(codes \ target, known)
    BY DEF Universe!Missing
  <2>2. Universe!Canonical(codes \ target, known) \in SUBSET UNNames
    <3>1. codes \ target \in SUBSET UNCodes
      BY <1>3
    <3> HIDE DEF codes
    <3> QED BY <3>1, UNCanonical
  <2>3. merged \in SUBSET UNNames
    <3>1. call.current \union codes \in SUBSET UNNames
      BY <1>2, <1>3 DEF UNCalls, UNNames
    <3> HIDE DEF codes
    <3> QED BY <3>1 DEF Universe!Canonical, UNNames
  <2> HIDE DEF missing, codes, merged
  <2> QED BY <2>1, <2>2, <2>3
<1>8. Universe!Taken(missing, call.limit) \in SUBSET UNNames
      /\ Universe!Taken(merged, call.limit) \in SUBSET UNNames
  <2> HIDE DEF missing, merged
  <2> QED BY <1>7, UNTaken
<1>9. CASE call' = [call EXCEPT !.pc = "refused"]
  <2>1. call' \in UNCalls
    BY <1>2, <1>9, UNFields
  <2>2. UNSame(call', call) /\ call'.pc = "refused" /\ ~call'.known
    BY <1>2, <1>5, <1>9 DEF UNCalls, UNSame
  <2>3. UNFound(call)'
    BY <1>1, <1>2, <2>2 DEF UNFound, UNSame
  <2> QED BY <1>4, <2>1, <2>2, <2>3, UNGoesOn
<1>10. ASSUME NEW answer \in SUBSET UNNames,
              call' = [call EXCEPT !.pc = "answered", !.known = known, !.answer = answer]
       PROVE  /\ call' \in UNCalls /\ UNSame(call', call) /\ call'.pc = "answered"
              /\ (call'.known <=> known) /\ call'.answer = answer
              /\ UNTyped' /\ UNLists' /\ UNFound(call)'
  <2>1. call' \in UNCalls
    BY <1>2, <1>10, UNFields
  <2>2. UNSame(call', call) /\ call'.pc = "answered"
    BY <1>2, <1>10 DEF UNCalls, UNSame
  <2>3. call'.known = known /\ call'.answer = answer
    BY <1>2, <1>10 DEF UNCalls
  <2>4. UNFound(call)'
    BY <1>1, <1>2, <2>2 DEF UNFound, UNSame
  <2> QED BY <1>4, <2>1, <2>2, <2>3, <2>4
<1>11. CASE /\ call.what = "missing"
            /\ call' = [call EXCEPT !.pc = "answered", !.known = known, !.answer = Universe!Taken(missing, call.limit)]
  <2> DEFINE answer == Universe!Taken(missing, call.limit)
  <2>1. /\ UNSame(call', call) /\ call'.pc = "answered" /\ (call'.known <=> known) /\ call'.answer = answer
        /\ UNTyped' /\ UNLists' /\ UNFound(call)'
    BY <1>8, <1>10, <1>11
  <2>2. call'.limit = 0 => call'.answer = missing
    BY <2>1, UNTaken DEF UNSame
  <2>3. codes = Universe!Window(call.begin, call.end)'
    BY <1>1, <2>1 DEF Universe!Window, UNSame
  <2>4. Universe!UniverseIsWhole'
    BY <1>11, <2>1 DEF Universe!UniverseIsWhole, UNSame
  <2>5. /\ known /\ mapped => missing \intersect (target \union DOMAIN NewName) = {}
        /\ \A c \in codes :
               ({c} \union Universe!Canonical({c}, TRUE)) \intersect target = {} =>
                   Universe!Canonical({c}, known) \subseteq missing
    BY <1>2, UNMissing
  <2>6. /\ \A c : Universe!Canonical({c}, TRUE)' = Universe!Canonical({c}, TRUE)
        /\ \A c : Universe!Canonical({c}, call.known)' = Universe!Canonical({c}, known)
    BY <1>1, <2>1 DEF Universe!Canonical
  <2>7. Universe!MissingHaveNoRows'
    <3>1. SUFFICES ASSUME call'.limit = 0
                   PROVE  /\ call'.known /\ mapped' => call'.answer \intersect (target' \union DOMAIN NewName) = {}
                          /\ \A c \in Universe!Window(call.begin, call.end)' :
                                ({c} \union Universe!Canonical({c}, TRUE)') \intersect target' = {} =>
                                    Universe!Canonical({c}, call.known)' \subseteq call'.answer
      BY DEF Universe!MissingHaveNoRows, Universe!Whole
    <3> HIDE DEF codes, missing, answer
    <3>2. call'.known /\ mapped' => call'.answer \intersect (target' \union DOMAIN NewName) = {}
      BY <1>1, <2>1, <2>2, <2>5, <3>1
    <3>3. ASSUME NEW c \in Universe!Window(call.begin, call.end)',
                 ({c} \union Universe!Canonical({c}, TRUE)') \intersect target' = {}
          PROVE  Universe!Canonical({c}, call.known)' \subseteq call'.answer
      <4>1. c \in codes
        BY <2>3, <3>3
      <4>2. ({c} \union Universe!Canonical({c}, TRUE)) \intersect target = {}
        BY <1>1, <2>6, <3>3
      <4>3. Universe!Canonical({c}, known) \subseteq missing
        BY <2>5, <4>1, <4>2
      <4> QED BY <2>2, <2>6, <3>1, <4>3
    <3> QED BY <3>2, <3>3
  <2> QED BY <2>1, <2>4, <2>7 DEF UNInvariant
<1>12. CASE /\ call.what # "missing"
            /\ call' = [call EXCEPT !.pc = "answered", !.known = known, !.answer = Universe!Taken(merged, call.limit)]
  <2> DEFINE answer == Universe!Taken(merged, call.limit)
  <2>1. /\ UNSame(call', call) /\ call'.pc = "answered" /\ (call'.known <=> known) /\ call'.answer = answer
        /\ UNTyped' /\ UNLists' /\ UNFound(call)'
    BY <1>8, <1>10, <1>12
  <2>2. call'.limit = 0 => call'.answer = merged
    BY <2>1, UNTaken DEF UNSame
  <2>3. Universe!MissingHaveNoRows'
    BY <1>12, <2>1 DEF Universe!MissingHaveNoRows, UNSame
  <2>4. \A S : Universe!Canonical(S, call.known)' = Universe!Canonical(S, known)
    BY <1>1, <2>1 DEF Universe!Canonical
  <2>5. \A S : S \subseteq call.current \union codes => Universe!Canonical(S, known) \subseteq merged
    BY UNCanonical
  <2>6. Universe!Read' = {d \in call.begin..call.end : d \notin passed}
    BY <1>1, <2>1 DEF Universe!Read, UNSame
  <2>7. \A d \in call.begin..call.end : call.what = "historical bars" /\ d \notin passed => Listed[d] \subseteq codes
    BY <1>3, <1>5
  <2>8. call.what = "historical" /\ today \notin unread => Listed[today] \subseteq call.current
    BY <1>5
  <2> HIDE DEF codes, merged, answer
  <2>9. /\ call.what = "historical" /\ today \notin unread => Universe!Canonical(Listed[today], known) \subseteq merged
        /\ \A d \in call.begin..call.end : call.what = "historical bars" /\ d \notin passed =>
              Universe!Canonical(Listed[d], known) \subseteq merged
    BY <2>5, <2>7, <2>8
  <2>10. Universe!UniverseIsWhole'
    <3>1. call'.what = call.what /\ call'.what \in {"historical", "historical bars"}
      BY <1>5, <1>12, <2>1 DEF UNSame
    <3> QED BY <1>1, <2>2, <2>4, <2>6, <2>9, <3>1 DEF Universe!UniverseIsWhole, Universe!Whole
  <2> QED BY <2>1, <2>3, <2>10 DEF UNInvariant
<1> QED BY <1>6, <1>9, <1>11, <1>12

\* Around the lists.
LEMMA UNAround ==
  ASSUME UNInvariant,
         \/ Universe!Return \/ Universe!Killed \/ (\E code \in Universe!Codes : Universe!SaveRows(code))
         \/ Universe!SyncBjCodeMapping \/ Universe!Tick
  PROVE  UNInvariant'
<1>1. UNTyped /\ UNLists
  BY DEF UNInvariant
<1>2. UNCHANGED <<master, refreshed, built, history, unread, passed>>
  BY DEF Universe!Return, Universe!Killed, Universe!SaveRows, Universe!SyncBjCodeMapping,
     Universe!Tick
<1>3. call' = Universe!Idle
  <2>1. CASE Universe!SyncBjCodeMapping \/ Universe!Tick
    <3>1. call.pc = "idle" /\ call' = call
      BY <2>1 DEF Universe!SyncBjCodeMapping, Universe!Tick
    <3> QED BY <1>1, <3>1, UNForms DEF UNTyped
  <2>2. CASE ~(Universe!SyncBjCodeMapping \/ Universe!Tick)
    BY <2>2 DEF Universe!Return, Universe!Killed, Universe!SaveRows
  <2> QED BY <2>1, <2>2
<1>4. today' \in UNDays
  <2>1. CASE Universe!Tick
    BY <2>1, UNDayCodes DEF Universe!Tick, Universe!Days
  <2>2. CASE ~Universe!Tick
    BY <1>1, <2>2 DEF Universe!Return, Universe!Killed, Universe!SaveRows,
       Universe!SyncBjCodeMapping, UNTyped
  <2> QED BY <2>1, <2>2
<1>5. UNTyped'
  BY <1>1, <1>2, <1>3, <1>4 DEF UNTyped
<1>6. UNLists'
  BY <1>1, <1>2 DEF UNLists, UNHas, Universe!Newest, Universe!Synced
<1> QED BY <1>3, <1>5, <1>6, UNForms, UNIdles

\* Every step keeps the invariant.
LEMMA UNStep ==
  ASSUME UNInvariant, Universe!Next
  PROVE  UNInvariant'
<1>1. Universe!Days = UNDays
  BY UNDayCodes DEF Universe!Days
<1> QED BY <1>1, UNStarts, UNEnsures, UNReads, UNLoads, UNMerges, UNAround DEF Universe!Next

\* So does a step of nothing.
LEMMA UNStutter ==
  ASSUME UNInvariant,
         UNCHANGED <<today, master, refreshed, built, history, mapped, target, call, unread, passed>>
  PROVE  UNInvariant'
<1>1. UNTyped' /\ UNLists'
  BY DEF UNInvariant, UNTyped, UNLists, UNHas, Universe!Newest, Universe!Synced
<1>2. call'.pc # "idle" => UNFound(call)'
  BY DEF UNInvariant, UNFound, UNHas
<1>3. \A S, known : Universe!Canonical(S, known)' = Universe!Canonical(S, known)
  BY DEF Universe!Canonical
<1>4. Universe!Read' = Universe!Read
      /\ Universe!Window(call.begin, call.end)' = Universe!Window(call.begin, call.end)
  BY DEF Universe!Read, Universe!Window
<1>5. Universe!UniverseIsWhole'
  BY <1>3, <1>4 DEF UNInvariant, Universe!UniverseIsWhole, Universe!Whole
<1>6. Universe!MissingHaveNoRows'
  BY <1>3, <1>4 DEF UNInvariant, Universe!MissingHaveNoRows, Universe!Whole
<1> QED BY <1>1, <1>2, <1>5, <1>6 DEF UNInvariant

--------------------------------------------------------------------------------
(* All parts. *)

\* What every part keeps to.
PartsInvariant ==
    /\ part \in {"wide table", "status", "akshare", "yahoo", "session", "universe"}
    /\ part = "wide table" => WideInvariant
    /\ part = "status" => StatusInvariant
    /\ part = "akshare" => AKInvariant
    /\ part = "yahoo" => YSInvariant
    /\ part = "session" => SEInvariant
    /\ part = "universe" => UNInvariant

\* The invariant holds initially.
LEMMA PartsInit == ASSUME Init PROVE PartsInvariant
BY WideInit, StatusInit, AKInit, YSInit, SEInit, UNInit DEF Init, PartsInvariant

\* Every step of the part there is keeps its invariant.
LEMMA PartsStep == ASSUME PartsInvariant, [Next]_vars PROVE PartsInvariant'
<1>1. part' = part
  BY DEF Next, vars
<1>2. CASE part = "wide table"
  <2>1. CASE Next
    <3>1. WideTable!Next
      BY <1>2, <2>1 DEF Next
    <3>2. WideInvariant'
      BY <1>2, <3>1, WideStep DEF PartsInvariant
    <3> QED BY <1>1, <1>2, <3>2 DEF PartsInvariant
  <2>2. CASE UNCHANGED vars
    <3>1. UNCHANGED wideVars
      BY <2>2 DEF vars
    <3>2. WideInvariant'
      BY <1>2, <3>1, WideStutter DEF PartsInvariant
    <3> QED BY <1>1, <1>2, <3>2 DEF PartsInvariant
  <2> QED BY <2>1, <2>2
<1>3. CASE part = "status"
  <2>1. CASE Next
    <3>1. Status!Next
      BY <1>3, <2>1 DEF Next
    <3>2. StatusInvariant'
      BY <1>3, <3>1, StatusStep DEF PartsInvariant
    <3> QED BY <1>1, <1>3, <3>2 DEF PartsInvariant
  <2>2. CASE UNCHANGED vars
    <3>1. UNCHANGED <<file, statusVars>>
      BY <2>2 DEF vars
    <3>2. StatusInvariant'
      BY <1>3, <3>1, StatusStutter DEF PartsInvariant
    <3> QED BY <1>1, <1>3, <3>2 DEF PartsInvariant
  <2> QED BY <2>1, <2>2
<1>4. CASE part = "akshare"
  <2>1. CASE Next
    <3>1. AKShare!Next
      BY <1>4, <2>1 DEF Next
    <3>2. AKInvariant'
      BY <1>4, <3>1, AKStep DEF PartsInvariant
    <3> QED BY <1>1, <1>4, <3>2 DEF PartsInvariant
  <2>2. CASE UNCHANGED vars
    <3>1. UNCHANGED <<call, calls, akshareVars>>
      BY <2>2 DEF vars
    <3>2. AKInvariant'
      BY <1>4, <3>1, AKStutter DEF PartsInvariant
    <3> QED BY <1>1, <1>4, <3>2 DEF PartsInvariant
  <2> QED BY <2>1, <2>2
<1>5. CASE part = "yahoo"
  <2>1. CASE Next
    <3>1. Yahoo!Next
      BY <1>5, <2>1 DEF Next
    <3>2. YSInvariant'
      BY <1>5, <3>1, YSStep DEF PartsInvariant
    <3> QED BY <1>1, <1>5, <3>2 DEF PartsInvariant
  <2>2. CASE UNCHANGED vars
    <3>1. UNCHANGED <<diagnostics, call, run, calls>>
      BY <2>2 DEF vars, yahooVars
    <3>2. YSInvariant'
      BY <1>5, <3>1, YSStutter DEF PartsInvariant
    <3> QED BY <1>1, <1>5, <3>2 DEF PartsInvariant
  <2> QED BY <2>1, <2>2
<1>6. CASE part = "session"
  <2>1. CASE Next
    <3>1. Session!Next
      BY <1>6, <2>1 DEF Next
    <3>2. SEInvariant'
      BY <1>6, <3>1, SEStep DEF PartsInvariant
    <3> QED BY <1>1, <1>6, <3>2 DEF PartsInvariant
  <2>2. CASE UNCHANGED vars
    <3>1. UNCHANGED <<live, logins, connected, client, file, call>>
      BY <2>2 DEF vars, sessionVars
    <3>2. SEInvariant'
      BY <1>6, <3>1, SEStutter DEF PartsInvariant
    <3> QED BY <1>1, <1>6, <3>2 DEF PartsInvariant
  <2> QED BY <2>1, <2>2
<1>7. CASE part = "universe"
  <2>1. CASE Next
    <3>1. Universe!Next
      BY <1>7, <2>1 DEF Next
    <3>2. UNInvariant'
      BY <1>7, <3>1, UNStep DEF PartsInvariant
    <3> QED BY <1>1, <1>7, <3>2 DEF PartsInvariant
  <2>2. CASE UNCHANGED vars
    <3>1. UNCHANGED <<today, master, refreshed, built, history, mapped, target, call, unread, passed>>
      BY <2>2 DEF vars, universeVars
    <3>2. UNInvariant'
      BY <1>7, <3>1, UNStutter DEF PartsInvariant
    <3> QED BY <1>1, <1>7, <3>2 DEF PartsInvariant
  <2> QED BY <2>1, <2>2
<1> QED BY <1>2, <1>3, <1>4, <1>5, <1>6, <1>7 DEF PartsInvariant

\* Each part keeps its invariant: for any addresses, pages and listings, symbols and datasets,
\* logins, days and codes, viewers, versions, months, runs and kills.
THEOREM InvariantKept == Spec => []PartsInvariant
BY PartsInit, PartsStep, PTL DEF Spec

\* A success on record is a table that readers find, whole, with every month the run listed
\* (run_wide_table_sync_payloads_with_clickhouse).
THEOREM SuccessesArePublished == Spec => []SuccessIsPublished
<1>1. PartsInvariant => SuccessIsPublished
  BY WideHolds DEF PartsInvariant, SuccessIsPublished
<1> QED BY <1>1, InvariantKept, PTL

\* All through a rebuild, and after one that has failed, readers find the table as it was or whole
\* in its new version, but for the moment between the two renames: then there is none, and both
\* are kept whole under the helper names (_rebuild_target_table).
THEOREM RebuildsKeepTable == Spec => []RebuildKeepsTable
<1>1. PartsInvariant => RebuildKeepsTable
  BY WideHolds DEF PartsInvariant, RebuildKeepsTable
<1> QED BY <1>1, InvariantKept, PTL

\* What killed rebuilds have left behind never stands in the way of the renames
\* (_rebuild_target_table).
THEOREM SwapsGoThrough == Spec => []SwapIsNeverBlocked
<1>1. PartsInvariant => SwapIsNeverBlocked
  BY WideHolds DEF PartsInvariant, SwapIsNeverBlocked
<1> QED BY <1>1, InvariantKept, PTL

\* As long as every run succeeds, a changed definition never arrives by a drop of the table that
\* readers have (plan_wide_table_sync).
THEOREM ChangesArriveBySwap == Spec => ChangeArrivesBySwap
<1>1. PartsInvariant => (part = "wide table" => WideTable!DropOfOwnVersion)
  BY WideHolds DEF PartsInvariant
<1> QED BY <1>1, InvariantKept, PTL DEF ChangeArrivesBySwap

\* What the sources give, what the session does with a fault, and the list of codes are what the
\* services have, or the runner is told (_fetch_eastmoney_paginated_frame, _run_yahoo_call,
\* drain_diagnostics, resolve_code_list, _call_with_reconnect).
THEOREM AnswersHold == Spec => []AnswersAreTrue
<1>1. PartsInvariant => AnswersAreTrue
  <2> SUFFICES ASSUME PartsInvariant PROVE AnswersAreTrue
    OBVIOUS
  <2>1. part = "akshare" => AKShare!AnswerIsWhole /\ AKShare!RefusedOnlyByAll
    BY AKRefusedOnlyByAll DEF PartsInvariant, AKInvariant
  <2>2. part = "yahoo" => Yahoo!LossIsReported
    BY DEF PartsInvariant, YSInvariant
  <2>3. part = "session" => Session!OneFaultIsRepaired /\ Session!ClientsOfOneSession
    BY SEClientsAgree DEF PartsInvariant, SEInvariant
  <2>4. part = "universe" => Universe!UniverseIsWhole /\ Universe!MissingHaveNoRows
    BY DEF PartsInvariant, UNInvariant
  <2> QED BY <2>1, <2>2, <2>3, <2>4 DEF AnswersAreTrue
<1> QED BY <1>1, InvariantKept, PTL

\* However many requests overlap, and whenever the table changes or a task is killed, the page is
\* shown a date the table had since the request saw it, and no success is lost from the file
\* (sync_table_status, TableCheckStateStore.record).
THEOREM CheckedHolds == Spec => []CheckedIsCurrent
<1>1. PartsInvariant => CheckedIsCurrent
  BY EnoughForChecked DEF PartsInvariant, CheckedIsCurrent
<1> QED BY <1>1, InvariantKept, PTL
================================================================================
