---------------------------- MODULE SourcesAndTables ----------------------------
(* Around the runners of Providers: what stands between a runner and its service, for the
   providers whose source is not one call; the list of codes AmazingData builds for itself; the
   wide tables; and what the page of tables is told. They share no state, so an instance is one
   of them. *)
EXTENDS Integers, Sequences, Lists

CONSTANTS
    None,                                                  \* what a variable out of use holds
    MaxCalls,                                              \* bound of several
    Writer, Versions, LastMonth, MaxRuns,                  \* wide table
    Viewers, MaxDate, MaxChanges, MaxAttempts,             \* table status
    Addresses, Retries, PageSize, MaxPages, MaxItems,      \* AKShare
    Etfs, Datasets, Symbols,                               \* yfinance
    RateLimitRetries, NetworkRetries, MaxTasks,
    MaxLogins,                                             \* session
    Listed, NewName                                        \* universe

\* The addresses of AKShare differ from one another, and a listing fits in the pages that are
\* asked for. The new name of a code has not been given up in its turn.
ASSUME SourcesAssumption ==
    /\ LastMonth \in Nat /\ "absent" \notin Versions
    /\ MaxDate \in Nat
    /\ Addresses \in Seq(ToSet(Addresses)) /\ Addresses # <<>> /\ "none" \notin ToSet(Addresses)
    /\ \A i, j \in DOMAIN Addresses : Addresses[i] = Addresses[j] => i = j
    /\ PageSize \in Nat \ {0} /\ MaxPages \in Nat \ {0} /\ MaxItems \in 0..MaxPages * PageSize
    /\ Listed \in Seq(SUBSET Nat) /\ Listed # <<>>
    /\ \A c \in DOMAIN NewName : NewName[c] \notin DOMAIN NewName

VARIABLES
    part,
    call, calls, file,                                                     \* of several
    catalog, state, source, writer, runs, undone,                          \* wide table
    past, watermark, request, temp, recorder, attempts, succeeded,         \* table status
    proxied, prefersWeb, preferred, direct, kept,                          \* AKShare
    activeOnly, cache, diagnostics, run,                                   \* yfinance
    live, logins, connected, client, calendar,                             \* session
    today, master, refreshed, built, history, mapped, target, unread, passed \* universe

wideVars == <<catalog, state, source, writer, runs, undone>>
statusVars == <<past, watermark, request, temp, recorder, attempts, succeeded>>
akshareVars == <<proxied, prefersWeb, preferred, direct, kept>>
yahooVars == <<activeOnly, cache, diagnostics, run>>
sessionVars == <<live, logins, connected, client, calendar>>
universeVars == <<today, master, refreshed, built, history, mapped, target, unread, passed>>

vars == <<part, call, calls, file, wideVars, statusVars, akshareVars, yahooVars, sessionVars,
          universeVars>>

WideTable == INSTANCE WideTableSync WITH Writers <- {Writer}
Status == INSTANCE TableStatus WITH Requests <- Viewers
AKShare == INSTANCE AKShareSource
Yahoo == INSTANCE YahooSource
Session == INSTANCE AmazingDataSession
Universe == INSTANCE AmazingDataUniverse

Unused(x) == x = None

UnusedCall == Unused(call) /\ Unused(calls)
UnusedWide ==
    /\ Unused(catalog) /\ Unused(state) /\ Unused(source)
    /\ Unused(writer) /\ Unused(runs) /\ Unused(undone)
UnusedStatus ==
    /\ Unused(past) /\ Unused(watermark) /\ Unused(request) /\ Unused(temp)
    /\ Unused(recorder) /\ Unused(attempts) /\ Unused(succeeded)
UnusedAKShare ==
    Unused(proxied) /\ Unused(prefersWeb) /\ Unused(preferred) /\ Unused(direct) /\ Unused(kept)
UnusedYahoo == Unused(activeOnly) /\ Unused(cache) /\ Unused(diagnostics) /\ Unused(run)
UnusedSession ==
    Unused(live) /\ Unused(logins) /\ Unused(connected) /\ Unused(client) /\ Unused(calendar)
UnusedUniverse ==
    /\ Unused(today) /\ Unused(master) /\ Unused(refreshed) /\ Unused(built) /\ Unused(history)
    /\ Unused(mapped) /\ Unused(target) /\ Unused(unread) /\ Unused(passed)

Init ==
    \/ /\ part = "wide table" /\ WideTable!Init /\ UnusedCall /\ Unused(file)
       /\ UnusedStatus /\ UnusedAKShare /\ UnusedYahoo /\ UnusedSession /\ UnusedUniverse
    \/ /\ part = "status" /\ Status!Init /\ UnusedCall
       /\ UnusedWide /\ UnusedAKShare /\ UnusedYahoo /\ UnusedSession /\ UnusedUniverse
    \/ /\ part = "akshare" /\ AKShare!Init /\ Unused(file)
       /\ UnusedWide /\ UnusedStatus /\ UnusedYahoo /\ UnusedSession /\ UnusedUniverse
    \/ /\ part = "yahoo" /\ Yahoo!Init /\ Unused(file)
       /\ UnusedWide /\ UnusedStatus /\ UnusedAKShare /\ UnusedSession /\ UnusedUniverse
    \/ /\ part = "session" /\ Session!Init
       /\ UnusedWide /\ UnusedStatus /\ UnusedAKShare /\ UnusedYahoo /\ UnusedUniverse
    \/ /\ part = "universe" /\ Universe!Init /\ Unused(file)
       /\ UnusedWide /\ UnusedStatus /\ UnusedAKShare /\ UnusedYahoo /\ UnusedSession

Next ==
    \/ /\ part = "wide table" /\ WideTable!Next
       /\ UNCHANGED <<part, call, calls, file, statusVars, akshareVars, yahooVars, sessionVars,
                      universeVars>>
    \/ /\ part = "status" /\ Status!Next
       /\ UNCHANGED <<part, call, calls, wideVars, akshareVars, yahooVars, sessionVars,
                      universeVars>>
    \/ /\ part = "akshare" /\ AKShare!Next
       /\ UNCHANGED <<part, file, wideVars, statusVars, yahooVars, sessionVars, universeVars>>
    \/ /\ part = "yahoo" /\ Yahoo!Next
       /\ UNCHANGED <<part, file, wideVars, statusVars, akshareVars, sessionVars, universeVars>>
    \/ /\ part = "session" /\ Session!Next
       /\ UNCHANGED <<part, wideVars, statusVars, akshareVars, yahooVars, universeVars>>
    \/ /\ part = "universe" /\ Universe!Next
       /\ UNCHANGED <<part, file, wideVars, statusVars, akshareVars, yahooVars, sessionVars>>

Spec == Init /\ [][Next]_vars

--------------------------------------------------------------------------------
(* The properties of WideTableSync, of a lane that runs one wide table at a time. *)

\* After a success the table that was built is the one readers find (_execute_wide_table_plan).
SuccessIsPublished == part = "wide table" => WideTable!SuccessIsPublished

\* While a table is rebuilt beside the one in use, readers find the old one or the whole new one,
\* or, between the two renames of the swap, none, and then both are kept whole under the helper
\* names (_rebuild_target_table). This is not said of a run without a swap: the sync of an
\* unchanged definition drops and refills the table in use (_execute_wide_table_plan).
RebuildKeepsTable == part = "wide table" => WideTable!RebuildKeepsTable

\* Leftovers of a run that stopped are never in the way of a later swap (_rebuild_target_table).
SwapIsNeverBlocked == part = "wide table" => WideTable!SwapIsNeverBlocked

\* As long as every run succeeds, a changed definition arrives by a swap, never by a drop of the
\* table readers have (plan_wide_table_sync).
ChangeArrivesBySwap == [][part = "wide table" => WideTable!DropOfOwnVersion]_vars

(* What is between a runner and its service. *)

\* What a runner is given is what the service has, or it is told: a listing is whole, what was
\* left out of an answer is in the diagnostics, a list of codes has all that were listed, and a
\* fault of the session or of its cache is repaired once
\* (_fetch_eastmoney_paginated_frame, _run_yahoo_call, drain_diagnostics, resolve_code_list,
\* _call_with_reconnect).
AnswersAreTrue ==
    /\ part = "akshare" => AKShare!AnswerIsWhole /\ AKShare!RefusedOnlyByAll
    /\ part = "yahoo" => Yahoo!LossIsReported
    /\ part = "session" => Session!OneFaultIsRepaired /\ Session!ClientsOfOneSession
    /\ part = "universe" => Universe!UniverseIsWhole /\ Universe!MissingHaveNoRows

\* A date shown was the table's at some moment of the request or since, and a success is never
\* taken back by a later failure (sync_table_status, TableCheckStateStore.record).
CheckedIsCurrent == part = "status" => Status!CheckedIsCurrent

================================================================================
