------------------------------- MODULE MCProviders ------------------------------
(* A finite instance of Providers for TLC. *)
EXTENDS Providers

CONSTANTS v, w

\* Only tasks by date have several variants here.
TushareSpecs ==
    [mode : {"code_range", "snapshot"}, variants : {{v}}, required : BOOLEAN]
    \union [mode : {"date_range", "date_slice"}, variants : {{v}, {v, w}}, required : {FALSE}]

\* The session that yfinance asks up to is the last weekday whose close is over, at any minute
\* where it could change and on any day of two weeks (latest_completed_us_session_date).
Completed(date, now) == ~YFinance!Weekend(date) /\ date * YFinance!DayMinutes + YFinance!CloseBuffer <= now
ASSUME SessionsEnd ==
    \A date \in 7..20, time \in {0, 1, 974, 975, 976, 1439} :
        YFinance!LatestCompletedDate(date, time) =
            CHOOSE d \in 0..date : /\ Completed(d, date * YFinance!DayMinutes + time)
                                  /\ \A e \in d + 1..date : ~Completed(e, date * YFinance!DayMinutes + time)

\* The list operators of the runners agree with those of the library on short lists.
Own == INSTANCE Lists
Library == INSTANCE SequencesExt
ShortLists == UNION {[1..n -> 1..3] : n \in 0..3}
ASSUME ListsAgree ==
    /\ \A list \in ShortLists, S \in SUBSET (1..3) :
          /\ Own!ToSet(list) = Library!ToSet(list)
          /\ Own!Among(list, S) = Library!SelectSeq(list, LAMBDA x : x \in S)
    /\ \A lists \in [1..2 -> ShortLists] : Own!FlattenSeq(lists) = Library!FlattenSeq(lists)
    /\ \A S \in SUBSET (1..3) :
          Library!ToSet(Own!SetToSeq(S)) = S /\ Library!IsInjective(Own!SetToSeq(S))
================================================================================
