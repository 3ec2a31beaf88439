---------------------------- MODULE AmazingDataSession --------------------------
(* The login session of AmazingData and the calls made through it. A session may expire at the
   server at any time, which a call learns from an opaque TypeError: it logs in anew and tries
   once more. The clients belong to the session they were made in; the one of the market
   needs the calendar, which is itself asked for in a guarded call. The information
   interfaces keep files, and one that is broken is put aside once. *)
EXTENDS Naturals

CONSTANTS MaxLogins, MaxCalls \* bounds

VARIABLES
    live,      \* the session the server knows, 0 for none
    logins,
    connected,
    client,    \* session of the clients "base", "info" and "market", 0 for none
    calendar,  \* "unknown", "dates" or "none": what the process goes by
    file,      \* of the information interface: "good" or "broken"
    call,
    calls

vars == <<live, logins, connected, client, calendar, file, call, calls>>

Clients == {"base", "info", "market"}
NoClient == [c \in Clients |-> 0]
Idle == [pc |-> "idle"]

\* `asked`: clients of the guarded calls under way, the innermost first, with whether it may
\* still log in anew. `expired`, `spoilt`: how often the session and the file failed it.
StartCall(c) ==
    /\ call.pc = "idle"
    /\ calls < MaxCalls
    /\ calls' = calls + 1
    /\ call' = [pc |-> "connect", client |-> c, again |-> TRUE, nested |-> FALSE, nestedAgain |-> TRUE,
                repair |-> c = "info", expired |-> IF connected /\ live = 0 THEN 1 ELSE 0,
                spoilt |-> IF file = "broken" THEN 1 ELSE 0]
    /\ UNCHANGED <<live, logins, connected, client, calendar, file>>

Refuse(error) == call' = [pc |-> "refused", error |-> error, expired |-> call.expired, spoilt |-> call.spoilt]

--------------------------------------------------------------------------------
(* ensure_connected and close. *)

Connected ==
    /\ call.pc = "connect"
    /\ connected
    /\ call' = [call EXCEPT !.pc = "client"]
    /\ UNCHANGED <<live, logins, connected, client, calendar, file, calls>>

\* login() says False also of sessions that stand, which asking for the calendar tells.
Login ==
    /\ call.pc = "connect"
    /\ ~connected
    /\ logins < MaxLogins
    /\ logins' = logins + 1
    /\ live' = logins + 1
    /\ connected' = TRUE
    /\ client' = [c \in Clients |-> IF c = "market" THEN client[c] ELSE logins + 1]
    /\ call' = [call EXCEPT !.pc = "client"]
    /\ UNCHANGED <<calendar, file, calls>>

\* Of the nested call the error is one more reason to do without the calendar; but then there is no
\* SDK to make the client with either.
LoginFails ==
    /\ call.pc = "connect"
    /\ ~connected
    /\ Refuse("login")
    /\ calendar' = IF call.nested THEN "none" ELSE calendar
    /\ UNCHANGED <<live, logins, connected, client, file, calls>>

Close ==
    /\ live' = 0
    /\ connected' = FALSE
    /\ client' = NoClient
    /\ calendar' = "unknown"

CloseSession ==
    /\ call.pc = "idle"
    /\ connected
    /\ Close
    /\ UNCHANGED <<logins, file, call, calls>>

--------------------------------------------------------------------------------
(* Guarded calls. *)

Target == IF call.nested THEN "base" ELSE call.client

\* _raw_client: the client of the market is made when it is first needed.
ClientAtHand ==
    /\ call.pc = "client"
    /\ client[Target] # 0
    /\ call' = [call EXCEPT !.pc = "invoke"]
    /\ UNCHANGED <<live, logins, connected, client, calendar, file, calls>>

AskCalendar ==
    /\ call.pc = "client"
    /\ client[Target] = 0
    /\ calendar = "unknown"
    /\ call' = [call EXCEPT !.nested = TRUE, !.nestedAgain = TRUE]
    /\ UNCHANGED <<live, logins, connected, client, calendar, file, calls>>

\* With the calendar, or without it.
BuildMarketClient ==
    /\ call.pc = "client"
    /\ client[Target] = 0
    /\ calendar # "unknown"
    /\ client' = [client EXCEPT !["market"] = client["base"]]
    /\ UNCHANGED <<live, logins, connected, calendar, file, call, calls>>

BuildFails ==
    /\ call.pc = "client"
    /\ client[Target] = 0
    /\ calendar # "unknown"
    /\ Refuse("other")
    /\ UNCHANGED <<live, logins, connected, client, calendar, file, calls>>

Stale == client[Target] # live
Broken == ~call.nested /\ call.client = "info" /\ file = "broken"

CalendarIs(what) ==
    /\ calendar' = what
    /\ call' = [call EXCEPT !.nested = FALSE, !.pc = "client"]

Answers ==
    /\ call.pc = "invoke"
    /\ ~Stale /\ ~Broken
    /\ IF call.nested THEN \E what \in {"dates", "none"} : CalendarIs(what)
       ELSE /\ call' = [pc |-> "answered"]
            /\ UNCHANGED calendar
    /\ UNCHANGED <<live, logins, connected, client, file, calls>>

AnswersWithError ==
    /\ call.pc = "invoke"
    /\ ~Stale /\ ~Broken
    /\ IF call.nested THEN CalendarIs("none") ELSE Refuse("other") /\ UNCHANGED calendar
    /\ UNCHANGED <<live, logins, connected, client, file, calls>>

Reconnect ==
    /\ call.pc = "invoke"
    /\ Stale
    /\ IF call.nested THEN call.nestedAgain ELSE call.again
    /\ Close
    /\ call' = IF call.nested THEN [call EXCEPT !.pc = "connect", !.nestedAgain = FALSE]
               ELSE [call EXCEPT !.pc = "connect", !.again = FALSE]
    /\ UNCHANGED <<logins, file, calls>>

StaleAgain ==
    /\ call.pc = "invoke"
    /\ Stale
    /\ ~IF call.nested THEN call.nestedAgain ELSE call.again
    /\ IF call.nested THEN CalendarIs("none") ELSE Refuse("stale") /\ UNCHANGED calendar
    /\ UNCHANGED <<live, logins, connected, client, file, calls>>

\* The second attempt has a login of its own to spend.
Quarantine ==
    /\ call.pc = "invoke"
    /\ ~Stale /\ Broken
    /\ call.repair
    /\ file' = "good"
    /\ call' = [call EXCEPT !.pc = "connect", !.repair = FALSE, !.again = TRUE]
    /\ UNCHANGED <<live, logins, connected, client, calendar, calls>>

QuarantineFails ==
    /\ call.pc = "invoke"
    /\ ~Stale /\ Broken
    /\ call.repair
    /\ Refuse("other")
    /\ UNCHANGED <<live, logins, connected, client, calendar, file, calls>>

BrokenAgain ==
    /\ call.pc = "invoke"
    /\ ~Stale /\ Broken
    /\ ~call.repair
    /\ Refuse("broken")
    /\ UNCHANGED <<live, logins, connected, client, calendar, file, calls>>

Return ==
    /\ call.pc \in {"answered", "refused"}
    /\ call' = Idle
    /\ UNCHANGED <<live, logins, connected, client, calendar, file, calls>>

UnderWay == call.pc \in {"connect", "client", "invoke"}

Expire ==
    /\ live # 0
    /\ live' = 0
    /\ call' = IF UnderWay THEN [call EXCEPT !.expired = @ + 1] ELSE call
    /\ UNCHANGED <<logins, connected, client, calendar, file, calls>>

Spoil ==
    /\ file = "good"
    /\ file' = "broken"
    /\ call' = IF UnderWay THEN [call EXCEPT !.spoilt = @ + 1] ELSE call
    /\ UNCHANGED <<live, logins, connected, client, calendar, calls>>

Init ==
    /\ live = 0 /\ logins = 0 /\ connected = FALSE
    /\ client = NoClient
    /\ calendar = "unknown"
    /\ file \in {"good", "broken"}
    /\ call = Idle
    /\ calls = 0

Next ==
    \/ \E c \in Clients : StartCall(c)
    \/ Connected \/ Login \/ LoginFails \/ CloseSession
    \/ ClientAtHand \/ AskCalendar \/ BuildMarketClient \/ BuildFails
    \/ Answers \/ AnswersWithError \/ Reconnect \/ StaleAgain
    \/ Quarantine \/ QuarantineFails \/ BrokenAgain \/ Return \/ Expire \/ Spoil

Spec == Init /\ [][Next]_vars

--------------------------------------------------------------------------------
(* Properties. *)

\* One expired session, or one broken file, is not what a call fails for: it has met with a
\* second (_call_with_reconnect, _call_info_with_cache_recovery).
OneFaultIsRepaired ==
    call.pc = "refused" =>
        /\ call.error = "stale" => call.expired > 1
        /\ call.error = "broken" => call.spoilt > 1

\* The clients at hand were made in one session (close, ensure_connected, _build_market_client).
ClientsOfOneSession ==
    /\ connected => client["base"] = client["info"] /\ client["base"] # 0
    /\ client["market"] \in {0, client["base"]}
================================================================================
