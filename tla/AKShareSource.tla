------------------------------ MODULE AKShareSource ----------------------------
(* How the AKShare provider gets an answer. A call has several ways to its data and takes the next
   one when a way has refused. What it learns from a call, it goes by in the next ones: whether
   Eastmoney is better asked by its web addresses, which address answered, which answers without
   the proxy. Requests are made one at a time.

   An address gives the pages of one listing, which does not change during a call. *)
EXTENDS Integers, Sequences, Lists

CONSTANTS
    Addresses, \* of Eastmoney, in the order of the code
    Retries,
    PageSize,
    MaxPages,  \* 200 in the code
    MaxItems,  \* bound: items of a listing
    MaxCalls   \* bound: calls of a provider object

VARIABLES
    proxied,   \* sync.akshare.proxy is set
    prefersWeb,
    preferred, \* the address that answered last, of listings and of histories
    direct,    \* addresses that answer without the proxy
    kept,      \* the cached directories
    call,
    calls

vars == <<proxied, prefersWeb, preferred, direct, kept, call, calls>>

Idle == [pc |-> "idle"]
Directories == {"us", "ths", "em"}
Nothing == [name \in Directories |-> <<>>]
Listing(n) == [i \in 1..n |-> i]
Smaller(a, b) == IF a < b THEN a ELSE b
Taken(items, limit) == IF limit = 0 \/ limit > Len(items) THEN items ELSE SubSeq(items, 1, limit)

--------------------------------------------------------------------------------
(* What is fetched. `ways` in order; `paged`: the web answers page by page; `optional`: a security
   without data is no failure; `directory`: the one whose unlimited answer is kept. *)

Plain == [ways |-> <<"sdk">>, paged |-> FALSE, optional |-> FALSE, directory |-> "none"]

FetchThsConceptNames == [Plain EXCEPT !.directory = "ths"]
FetchThsConceptIndex == Plain
FetchThsConceptInfo == Plain
FetchUsMinute == Plain
FetchUsCompanyProfile == Plain
FetchUsValuation == Plain
FetchUsIndexDaily == Plain
FetchUsFinancialStatement == [Plain EXCEPT !.optional = TRUE]
FetchUsFinancialIndicator == [Plain EXCEPT !.optional = TRUE]

FetchUsSpotRaw == [Plain EXCEPT !.ways = <<"sdk", "sina spot", "sina names">>]
FetchUsSpot == [FetchUsSpotRaw EXCEPT !.directory = "us"]

\* A symbol whose Eastmoney code is not known is asked of Sina only.
FetchUsDaily(coded) == [Plain EXCEPT !.ways = IF coded THEN <<"sdk", "sina">> ELSE <<"sina">>]

FetchEmConceptHistory == [Plain EXCEPT !.ways = <<"sdk", "web">>]
FetchEmConceptConstituents == [FetchEmConceptHistory EXCEPT !.paged = TRUE]
FetchEmConceptNames == [FetchEmConceptConstituents EXCEPT !.directory = "em"]

Requests ==
    {FetchThsConceptNames, FetchThsConceptIndex, FetchThsConceptInfo, FetchUsMinute,
     FetchUsCompanyProfile, FetchUsValuation, FetchUsIndexDaily, FetchUsFinancialStatement,
     FetchUsFinancialIndicator, FetchUsSpot, FetchUsDaily(TRUE), FetchUsDaily(FALSE),
     FetchEmConceptHistory, FetchEmConceptConstituents, FetchEmConceptNames}

--------------------------------------------------------------------------------
(* Ways. *)

\* The address that answered last comes first, and is not asked twice.
PreferredUrls(address) ==
    IF address = "none" THEN Addresses
    ELSE LET at == CHOOSE i \in DOMAIN Addresses : Addresses[i] = address
         IN  <<address>> \o SubSeq(Addresses, 1, at - 1) \o SubSeq(Addresses, at + 1, Len(Addresses))

\* Eastmoney's web comes first when it has been the one to answer.
Ways(request) ==
    IF prefersWeb /\ "web" \in ToSet(request.ways) THEN <<"web">> \o request.ways ELSE request.ways

Web == Head(call.ways) = "web"
Enter(c, ways) ==
    [c EXCEPT !.pc = IF ways = <<>> THEN "refused" ELSE "way", !.ways = ways, !.attempts = Retries,
              !.addresses = PreferredUrls(preferred[c.request.paged]), !.rows = <<>>, !.page = 1]

Begin(request, limit, take, n, counted) ==
    /\ calls < MaxCalls
    /\ calls' = calls + 1
    /\ call' = Enter([pc |-> "way", request |-> request, limit |-> limit, take |-> take, n |-> n,
                      counted |-> counted, ways |-> <<>>, attempts |-> 0, addresses |-> <<>>,
                      rows |-> <<>>, page |-> 1, refused |-> {}, none |-> FALSE], Ways(request))
    /\ UNCHANGED <<proxied, prefersWeb, preferred, direct, kept>>

Start(request, limit, n, counted) == call.pc = "idle" /\ Begin(request, limit, 0, n, counted)

\* By the directory kept, or else by all of it.
Resolve(request, limit, n, counted) ==
    /\ call.pc = "idle"
    /\ LET known == kept[request.directory]
       IN  IF known = <<>> THEN Begin(request, 0, limit, n, counted)
           ELSE /\ calls < MaxCalls
                /\ calls' = calls + 1
                /\ call' = [pc |-> "answered", request |-> request, n |-> Len(known), none |-> FALSE,
                            take |-> limit, limit |-> 0, answer |-> Taken(known, limit)]
                /\ UNCHANGED <<proxied, prefersWeb, preferred, direct, kept>>

ResolveUsSymbols(limit, n, counted) == Resolve(FetchUsSpot, limit, n, counted)
ResolveThsConcepts(limit, n, counted) == Resolve(FetchThsConceptNames, limit, n, counted)
ResolveEmConcepts(limit, n, counted) == Resolve(FetchEmConceptNames, limit, n, counted)

Answered(items) ==
    LET fetched == Taken(items, call.limit)
    IN  /\ call' = [pc |-> "answered", request |-> call.request, n |-> call.n, none |-> call.none,
                    take |-> call.take, limit |-> call.limit, answer |-> Taken(fetched, call.take)]
        /\ kept' = [name \in Directories |->
                     IF name = call.request.directory /\ call.limit = 0 /\ fetched # <<>>
                     THEN fetched ELSE kept[name]]

\* _run_call: only errors of the connection are worth another attempt.
WayRefuses(c, error) ==
    IF error = "connection" /\ c.attempts > 0
    THEN [Enter(c, c.ways) EXCEPT !.attempts = c.attempts - 1]
    ELSE Enter(c, Tail(c.ways))

Asking == call.pc = "way"

SdkAnswers ==
    /\ Asking /\ ~Web
    /\ Answered(Listing(call.n))
    /\ UNCHANGED <<proxied, prefersWeb, preferred, direct, calls>>

SdkRefuses(error) ==
    /\ Asking /\ ~Web
    /\ ~(call.request.optional /\ error = "no data")
    /\ call' = WayRefuses([call EXCEPT !.refused = @ \union {<<Head(call.ways), "sdk">>}], error)
    /\ UNCHANGED <<proxied, prefersWeb, preferred, direct, kept, calls>>

\* An answer that cannot be taken apart means that the security has no such data.
OptionalCallHasNoData ==
    /\ Asking /\ ~Web
    /\ call.request.optional
    /\ call' = [pc |-> "answered", request |-> call.request, n |-> call.n, none |-> TRUE,
                take |-> call.take, limit |-> call.limit, answer |-> <<>>]
    /\ UNCHANGED <<proxied, prefersWeb, preferred, direct, kept, calls>>

--------------------------------------------------------------------------------
(* The web addresses of Eastmoney. *)

Address == <<Head(call.addresses), call.request.paged>>
Routes == {"plain"} \union (IF proxied THEN {"direct"} ELSE {})

\* An address known to answer directly is asked so first, then with the proxy, then once more.
Tried == Routes \union (IF Address \in direct THEN {"direct"} ELSE {})

DirectAfter(up) ==
    IF Address \in direct /\ "direct" \notin up THEN direct \ {Address}
    ELSE IF proxied /\ "plain" \notin up /\ "direct" \in up THEN direct \union {Address}
    ELSE direct

Page ==
    LET before == (call.page - 1) * PageSize
    IN  IF before >= call.n THEN <<>>
        ELSE SubSeq(Listing(call.n), before + 1, Smaller(call.n, before + PageSize))

\* The listing ends with its total, or with a page that is not full.
LastPage(rows) ==
    \/ call.counted /\ call.n > 0 /\ Len(rows) >= call.n
    \/ Len(Page) < PageSize
    \/ call.page = MaxPages

\* The next address, from the first page on; the last one's error is that of the way.
AddressRefuses(c, error) ==
    IF Len(c.addresses) > 1 THEN [c EXCEPT !.addresses = Tail(@), !.rows = <<>>, !.page = 1]
    ELSE WayRefuses(c, error)

\* The way is given up for good once it was preferred and has refused.
PreferenceAfter(next) == prefersWeb /\ ~(Len(call.ways) = 3 /\ next.ways # call.ways)

\* `up`: the routes that work at the moment.
RequestPage(up, error) ==
    LET rows == call.rows \o (IF call.request.paged THEN Page ELSE Listing(call.n))
        whole == ~call.request.paged \/ LastPage(rows)
        answers == up \intersect Tried # {}
        refused == {Head(call.addresses)} \X (IF answers THEN {"empty"} ELSE Tried)
        next == AddressRefuses([call EXCEPT !.refused = @ \union refused],
                               IF answers THEN "content" ELSE error)
    IN  /\ Asking /\ Web
        /\ direct' = DirectAfter(up)
        /\ IF answers /\ ~whole
           THEN /\ call' = [call EXCEPT !.rows = rows, !.page = @ + 1]
                /\ UNCHANGED <<prefersWeb, preferred, kept>>
           ELSE IF answers /\ (rows # <<>> \/ ~call.request.paged)
           THEN /\ Answered(rows)
                /\ preferred' = [preferred EXCEPT ![call.request.paged] = Head(call.addresses)]
                /\ prefersWeb' = TRUE
           ELSE /\ call' = next
                /\ prefersWeb' = PreferenceAfter(next)
                /\ UNCHANGED <<preferred, kept>>
        /\ UNCHANGED <<proxied, calls>>

Return ==
    /\ call.pc \in {"answered", "refused"}
    /\ call' = Idle
    /\ UNCHANGED <<proxied, prefersWeb, preferred, direct, kept, calls>>

\* The directories are forgotten.
Close ==
    /\ call.pc = "idle"
    /\ kept' = Nothing
    /\ UNCHANGED <<proxied, prefersWeb, preferred, direct, call, calls>>

Init ==
    /\ proxied \in BOOLEAN
    /\ prefersWeb = proxied
    /\ preferred = [paged \in BOOLEAN |-> "none"]
    /\ direct = {}
    /\ kept = Nothing
    /\ call = Idle
    /\ calls = 0

Next ==
    \/ \E limit \in {0, 1}, n \in 0..MaxItems, counted \in BOOLEAN :
          \/ \E request \in Requests : Start(request, limit, n, counted)
          \/ ResolveUsSymbols(limit, n, counted)
          \/ ResolveThsConcepts(limit, n, counted)
          \/ ResolveEmConcepts(limit, n, counted)
    \/ SdkAnswers
    \/ \E error \in {"connection", "content", "no data"} : SdkRefuses(error)
    \/ OptionalCallHasNoData
    \/ \E up \in SUBSET {"plain", "direct"}, error \in {"connection", "content"} : RequestPage(up, error)
    \/ Return
    \/ Close

Spec == Init /\ [][Next]_vars

--------------------------------------------------------------------------------
(* Properties. *)

\* An answer is the whole listing, in order, whichever addresses gave its pages or broke off
\* while they did; only what a caller's limit cuts off is missing (_fetch_eastmoney_paginated_frame).
AnswerIsWhole ==
    call.pc = "answered" /\ ~call.none =>
        call.answer = Taken(Taken(Listing(call.n), call.limit), call.take)

\* Whatever the provider has learnt from earlier calls, one that is refused was refused on every
\* way there is: by the SDK, and by every address on every route, or for an empty list
\* (_run_em_call_with_fallback, _preferred_urls, _fetch_eastmoney_url_json).
RefusedOnlyByAll ==
    call.pc = "refused" =>
        /\ (ToSet(call.request.ways) \ {"web"}) \X {"sdk"} \subseteq call.refused
        /\ "web" \in ToSet(call.request.ways) =>
              \A address \in ToSet(Addresses) :
                  <<address, "empty">> \in call.refused \/ {address} \X Routes \subseteq call.refused
================================================================================
