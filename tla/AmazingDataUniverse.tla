--------------------------- MODULE AmazingDataUniverse --------------------------
(* Which codes a task of AmazingData is for. The current list comes from a security master that
   is refreshed once a day; the list of a window from a history of daily lists, of which only the
   days after its newest one are asked for; the missing ones from that history and the table the
   task fills. A code of Beijing may have an old name, which a mapping table knows. *)
EXTENDS Integers, FiniteSets

CONSTANTS
    Listed,   \* the codes of each day 1..Len(Listed), under their name of the day
    NewName,  \* the renamed codes, with the name they have now
    MaxCalls  \* bound: lists asked for

VARIABLES
    today,
    master,    \* codes in ad_code_info, of any day
    refreshed, \* days with a success of get_code_info
    built,     \* days with a success of get_code_list
    history,   \* <<code, day>> in ad_hist_code_daily
    mapped,    \* the mapping table is filled
    target,    \* codes with rows in the task's table
    call,
    calls,
    unread,    \* history: days on which a refresh of the master has failed
    passed     \* history: days of the daily lists that failed, or lie before what was asked for

vars == <<today, master, refreshed, built, history, mapped, target, call, calls, unread, passed>>

Days == DOMAIN Listed
Codes == UNION {Listed[d] : d \in Days}
Idle == [pc |-> "idle"]
Synced == {x[2] : x \in history}
Newest == IF Synced = {} THEN 0 ELSE CHOOSE d \in Synced : \A e \in Synced : e <= d
Larger(a, b) == IF a > b THEN a ELSE b

Window(begin, end) == {x[1] : x \in {y \in history : begin <= y[2] /\ y[2] <= end}}
Taken(codes, limit) == IF limit = 0 THEN codes ELSE {c \in codes : Cardinality({e \in codes : e < c}) < limit}

\* canonicalize_bj_codes; without the mapping the names are left as they are.
Canonical(codes, known) ==
    {IF known /\ mapped /\ c \in DOMAIN NewName THEN NewName[c] ELSE c : c \in codes}

Answer(codes) ==
    IF codes = {} THEN call' = [call EXCEPT !.pc = "refused"]
    ELSE call' = [call EXCEPT !.pc = "answered", !.answer = Taken(codes, call.limit)]

--------------------------------------------------------------------------------
(* What is asked for: "current" (also of factors, indices, funds and options), "window" (bars
   and the history of the status), "given" (minute bars of given codes, which leave out options),
   "historical" and "historical bars", "missing". *)

FirstStep(what) ==
    CASE what \in {"current", "historical"} -> "log"
      [] what \in {"window", "given", "historical bars"} -> "days"
      [] what = "missing" -> "aliases"

\* Given codes are held against the whole history.
ResolveCodeList(what, begin, end, limit) ==
    /\ call.pc = "idle"
    /\ calls < MaxCalls
    /\ begin <= end /\ end <= today
    /\ calls' = calls + 1
    /\ call' = [pc |-> FirstStep(what), what |-> what, limit |-> limit, forced |-> FALSE, failed |-> FALSE,
                begin |-> IF what = "given" THEN 1 ELSE begin, end |-> end,
                known |-> FALSE, current |-> {}, answer |-> {}]
    /\ UNCHANGED <<today, master, refreshed, built, history, mapped, target, unread, passed>>

--------------------------------------------------------------------------------
(* ensure_code_list. *)

ListIs(codes) ==
    IF call.what = "historical" /\ codes # {}
    THEN call' = [call EXCEPT !.pc = "aliases", !.current = codes]
    ELSE Answer(codes)

ListBuiltToday ==
    /\ call.pc = "log"
    /\ today \in built /\ master # {}
    /\ ListIs(master)
    /\ UNCHANGED <<today, master, refreshed, built, history, mapped, target, calls, unread, passed>>

Refreshing == call.pc = "refresh" \/ (call.pc = "log" /\ ~(today \in built /\ master # {}))

ReuseMaster ==
    /\ Refreshing
    /\ ~call.forced /\ today \in refreshed
    /\ call' = [call EXCEPT !.pc = "build"]
    /\ UNCHANGED <<today, master, refreshed, built, history, mapped, target, calls, unread, passed>>

\* Codes that are no longer listed stay. Without any row it is no success, and no error either.
SyncCodeInfo(rows) ==
    /\ Refreshing
    /\ call.forced \/ today \notin refreshed
    /\ rows \in {{}, Listed[today]}
    /\ master' = master \union rows
    /\ refreshed' = IF rows = {} THEN refreshed ELSE refreshed \union {today}
    /\ unread' = IF rows = {} THEN unread \union {today} ELSE unread
    /\ call' = [call EXCEPT !.pc = "build"]
    /\ UNCHANGED <<today, built, history, mapped, target, calls, passed>>

\* Of an insertion that failed the rows may be there. An older list is better than none, unless
\* the refresh was forced because there was none.
SyncCodeInfoFails(rows) ==
    /\ Refreshing
    /\ call.forced \/ today \notin refreshed
    /\ rows \in {{}, Listed[today]}
    /\ master' = master \union rows
    /\ unread' = unread \union {today}
    /\ call' = IF master' = {} \/ call.forced THEN [call EXCEPT !.pc = "refused"]
               ELSE [call EXCEPT !.pc = "build", !.failed = TRUE]
    /\ UNCHANGED <<today, refreshed, built, history, mapped, target, calls, passed>>

BuildList ==
    /\ call.pc = "build"
    /\ IF master = {} /\ ~call.forced /\ ~call.failed
       THEN /\ call' = [call EXCEPT !.pc = "refresh", !.forced = TRUE]
            /\ UNCHANGED built
       ELSE /\ ListIs(master)
            /\ built' = IF master = {} THEN built ELSE built \union {today}
    /\ UNCHANGED <<today, master, refreshed, history, mapped, target, calls, unread, passed>>

--------------------------------------------------------------------------------
(* get_hist_code_list. *)

SyncStart == IF Newest = 0 THEN call.begin ELSE Larger(call.begin, Newest + 1)

\* A day that cannot be read is passed over. What is read goes in at once.
SyncHistCodeList(failing) ==
    LET days == SyncStart..call.end
        read == days \ failing
    IN  /\ call.pc = "days"
        /\ failing \subseteq days
        /\ history' = history \union UNION {Listed[d] \X {d} : d \in read}
        /\ passed' = passed \union failing \union (IF read = {} THEN {} ELSE Newest + 1..SyncStart - 1)
        /\ call' = [call EXCEPT !.pc = "window"]
        /\ UNCHANGED <<today, master, refreshed, built, mapped, target, calls, unread>>

SyncHistCodeListFails ==
    /\ call.pc = "days"
    /\ call' = [call EXCEPT !.pc = "refused"]
    /\ UNCHANGED <<today, master, refreshed, built, history, mapped, target, calls, unread, passed>>

LoadHistCodeList ==
    LET codes == Window(call.begin, call.end)
    IN  /\ call.pc = "window"
        /\ IF call.what = "historical bars" /\ codes # {}
           THEN call' = [call EXCEPT !.pc = "aliases", !.current = codes]
           ELSE Answer(codes)
        /\ UNCHANGED <<today, master, refreshed, built, history, mapped, target, calls, unread, passed>>

--------------------------------------------------------------------------------
(* resolve_historical_code_list and resolve_missing_historical_code_list. *)

Missing(codes, known) == Canonical(codes \ target, known) \ (IF known /\ mapped THEN target ELSE {})

\* Without a history there is no falling back on the current list.
Merge(known) ==
    LET codes == Window(call.begin, call.end)
    IN  /\ call.pc = "aliases"
        /\ IF call.what = "missing"
           THEN call' = [call EXCEPT !.pc = "answered", !.known = known,
                                     !.answer = Taken(Missing(codes, known), call.limit)]
           ELSE IF codes = {} THEN call' = [call EXCEPT !.pc = "refused"]
           ELSE call' = [call EXCEPT !.pc = "answered", !.known = known,
                                     !.answer = Taken(Canonical(call.current \union codes, known), call.limit)]
        /\ UNCHANGED <<today, master, refreshed, built, history, mapped, target, calls, unread, passed>>

--------------------------------------------------------------------------------
(* Around the lists. *)

Return ==
    /\ call.pc \in {"answered", "refused"}
    /\ call' = Idle
    /\ UNCHANGED <<today, master, refreshed, built, history, mapped, target, calls, unread, passed>>

Killed ==
    /\ call.pc # "idle"
    /\ call' = Idle
    /\ UNCHANGED <<today, master, refreshed, built, history, mapped, target, calls, unread, passed>>

\* The task saves rows of a code.
SaveRows(code) ==
    /\ call.pc = "answered"
    /\ code \in call.answer
    /\ target' = target \union {code}
    /\ call' = Idle
    /\ UNCHANGED <<today, master, refreshed, built, history, mapped, calls, unread, passed>>

SyncBjCodeMapping ==
    /\ call.pc = "idle"
    /\ ~mapped
    /\ mapped' = TRUE
    /\ UNCHANGED <<today, master, refreshed, built, history, target, call, calls, unread, passed>>

Tick ==
    /\ call.pc = "idle"
    /\ today + 1 \in Days
    /\ today' = today + 1
    /\ UNCHANGED <<master, refreshed, built, history, mapped, target, call, calls, unread, passed>>

Init ==
    /\ today = 1
    /\ master = {} /\ refreshed = {} /\ built = {}
    /\ history = {}
    /\ mapped = FALSE
    /\ target = {}
    /\ call = Idle
    /\ calls = 0
    /\ unread = {} /\ passed = {}

Asked == {"current", "window", "given", "historical", "historical bars", "missing"}

Next ==
    \/ \E what \in Asked, begin, end \in Days, limit \in {0, 1} : ResolveCodeList(what, begin, end, limit)
    \/ ListBuiltToday
    \/ ReuseMaster
    \/ \E rows \in {{}, Listed[today]} : SyncCodeInfo(rows) \/ SyncCodeInfoFails(rows)
    \/ BuildList
    \/ call.pc = "days" /\ \E failing \in SUBSET (SyncStart..call.end) : SyncHistCodeList(failing)
    \/ SyncHistCodeListFails
    \/ LoadHistCodeList
    \/ \E known \in BOOLEAN : Merge(known)
    \/ Return
    \/ Killed
    \/ \E code \in Codes : SaveRows(code)
    \/ SyncBjCodeMapping
    \/ Tick

Spec == Init /\ [][Next]_vars

--------------------------------------------------------------------------------
(* Properties. *)

Whole == call.pc = "answered" /\ call.limit = 0
Read == {d \in call.begin..call.end : d \notin passed}

\* A list has every code of the days it is for: of today, unless a refresh failed today, and of
\* each day of a window that the history has not passed over; a merged one under the names of
\* now (ensure_code_list, sync_hist_code_list, resolve_historical_code_list).
UniverseIsWhole ==
    Whole =>
        /\ call.what \in {"current", "historical"} /\ today \notin unread =>
              Canonical(Listed[today], call.known) \subseteq call.answer
        /\ call.what \in {"window", "given", "historical bars"} =>
              \A d \in Read : Canonical(Listed[d], call.known) \subseteq call.answer

\* Codes are missing whose rows are under none of their names, and once the mapping is known
\* no code is asked for again (resolve_missing_historical_code_list).
MissingHaveNoRows ==
    Whole /\ call.what = "missing" =>
        /\ call.known /\ mapped => call.answer \intersect (target \union DOMAIN NewName) = {}
        /\ \A c \in Window(call.begin, call.end) :
              ({c} \union Canonical({c}, TRUE)) \intersect target = {} =>
                  Canonical({c}, call.known) \subseteq call.answer
================================================================================
