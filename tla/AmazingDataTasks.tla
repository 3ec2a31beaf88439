---------------------------- MODULE AmazingDataTasks ---------------------------
(* The tasks of AmazingData as three layers see them: the runner divides a task's codes into
   requests, the sync classes decide where a request starts and what they record of it, and the
   provider turns it into a call of the SDK. What a layer does is told by the fields of its
   record; a value that differs from another only in the table it names does the same. *)
EXTENDS Integers

--------------------------------------------------------------------------------
(* The runner. `codes`: the task goes by a list of codes. `together`: one request has them all.
   `buffered`: rows of several codes are inserted together. `dated`: it has a window.
   `raises`: the errors that end the task; others are logged and passed over. *)

RunPerCodeTask ==
    [codes |-> TRUE, together |-> FALSE, buffered |-> FALSE, dated |-> FALSE, raises |-> {}]

\* All codes fit into one batch here.
RunBatchedCodeTask == [RunPerCodeTask EXCEPT !.together = TRUE]

RunInfoPayloadTask == [RunPerCodeTask EXCEPT !.dated = TRUE]
RunDailyKline == RunInfoPayloadTask
RunMinuteKline == RunInfoPayloadTask
RunMarketSnapshot == RunInfoPayloadTask
RunHistoryStockStatus == RunInfoPayloadTask

RunIndexConstituent == RunPerCodeTask
RunIndustryConstituent == RunPerCodeTask
RunKzzIssuance == RunPerCodeTask
RunKzzShare == RunPerCodeTask
RunKzzSuspend == RunPerCodeTask
RunKzzPutCallItem == RunPerCodeTask
RunKzzPut == RunPerCodeTask
RunKzzCall == RunPerCodeTask
RunKzzConv == RunPerCodeTask
RunKzzConvChange == RunPerCodeTask
RunKzzCorr == RunPerCodeTask
RunKzzCallExplanation == RunPerCodeTask
RunKzzPutExplanation == RunPerCodeTask

RunOptionBasicInfo == RunBatchedCodeTask
RunOptionStdCtrSpecs == RunBatchedCodeTask
RunOptionMonCtrSpecs == RunBatchedCodeTask

RunStockBasic == [RunBatchedCodeTask EXCEPT !.raises = {"fetch", "save"}]
RunAdjFactor == [RunPerCodeTask EXCEPT !.buffered = TRUE, !.raises = {"save"}]
RunBackwardFactor == RunAdjFactor

RunCodeInfo == [RunStockBasic EXCEPT !.codes = FALSE]
RunBjCodeMapping == RunCodeInfo
RunIndustryBaseInfo == RunCodeInfo
RunMarginSummary == [RunCodeInfo EXCEPT !.dated = TRUE]

\* One request for each type of security.
RunHistCodeList == [RunMarginSummary EXCEPT !.together = FALSE]

--------------------------------------------------------------------------------
(* The provider. `sends`: the window goes into the call. `cuts`: rows outside of it are dropped
   here. `errors`: what becomes of an error of the SDK. *)

Sent == [sends |-> TRUE, cuts |-> FALSE, errors |-> "raised"]
Everything == [Sent EXCEPT !.sends = FALSE]

FetchBalanceSheet == Sent
FetchCashFlow == Sent
FetchIncome == Sent
FetchProfitExpress == Sent
FetchProfitNotice == Sent
FetchFundShare == Sent
FetchFundIopv == Sent
FetchBlockTrading == Sent
FetchLongHuBang == Sent
FetchMarginDetail == Sent
FetchShareHolder == Sent
FetchHolderNum == Sent
FetchEquityStructure == Sent
FetchEquityPledgeFreeze == Sent
FetchEquityRestricted == Sent
FetchDividend == Sent
FetchRightIssue == Sent
FetchIndexWeight == Sent
FetchIndustryWeight == Sent
FetchIndustryDaily == Sent
FetchSnapshot == Sent

FetchCodeInfo == Everything
FetchBjCodeMapping == Everything
FetchKzzIssuance == Everything
FetchKzzShare == Everything
FetchKzzSuspend == Everything
FetchKzzConvChange == Everything
FetchKzzCorr == Everything
FetchKzzCallExplanation == Everything
FetchKzzPutExplanation == Everything
FetchKzzPutCallItem == Everything
FetchKzzPut == Everything
FetchKzzCall == Everything
FetchKzzConv == Everything
FetchIndexConstituent == Everything
FetchIndustryBaseInfo == Everything
FetchIndustryConstituent == Everything

\* The specifications of options are read through a cache file: a corrupt one is put aside and
\* the call repeated once, so an error that is left is raised. That of the basic data is removed
\* before its first use.
FetchOptionStdCtrSpecs == Everything
FetchOptionMonCtrSpecs == Everything
FetchOptionBasicInfo == Everything

\* One row for each code, of the day of the snapshot; nothing if that day is outside the window.
FetchStockBasic == [Everything EXCEPT !.cuts = TRUE]

\* A call that refuses term_list is repeated with code_list.
FetchTreasuryYield == [Sent EXCEPT !.cuts = TRUE]

\* The factors of a single code are refused if the SDK answers for another one.
FetchAdjFactorRowsByCode == [Everything EXCEPT !.cuts = TRUE]
FetchBackwardFactorRowsByCode == FetchAdjFactorRowsByCode

\* An error of the query of bars is logged and taken for an empty answer.
FetchKline == [Sent EXCEPT !.errors = "emptied"]

\* Codes the endpoint does not know are answered from their daily bars.
FetchHistoryStockStatus == [FetchTreasuryYield EXCEPT !.errors = "emptied"]

\* An answer the SDK cannot take apart counts as empty, also after the session was renewed.
FetchMarginSummary == [Sent EXCEPT !.errors = "emptied"]

\* Every day of the calendar is a call of its own, and a day that fails is passed over.
FetchHistCodeDaily == [Sent EXCEPT !.errors = "passed over"]

\* What the provider may answer for the window first..last, as of today. The SDK is whole up to
\* yesterday and may not have today's rows yet.
Fetched(fetch, codes, first, last, today) ==
    LET asked == codes \X (IF fetch.sends \/ fetch.cuts THEN first..last ELSE 1..today)
        answers == {asked, {x \in asked : x[2] < today}}
    IN  CASE fetch.errors = "raised" -> answers
          [] fetch.errors = "emptied" -> answers \union {{}}
          [] OTHER -> {{x \in rows : x[2] \notin failed} : rows \in answers, failed \in SUBSET (first..last)}

--------------------------------------------------------------------------------
(* The sync classes. `latest`: whose newest row a request goes on from. `start`: where it goes
   on, a listing being that of the present day; `heedsForce`: force asks for the whole window.
   `emptyWindow`, `emptyAnswer`: what becomes of them. `scope`: the window of its checkpoint.
   `skipsToday`: when a success of the same day is enough. `onlyNew`: codes with a row are left
   out. `insertion`: one statement, or one for each month. *)

SyncKline ==
    [latest |-> "codes", start |-> "next", heedsForce |-> TRUE, emptyWindow |-> "skipped",
     emptyAnswer |-> "success", scope |-> "window left", skipsToday |-> "never",
     onlyNew |-> FALSE, insertion |-> "whole"]

SyncKlineMinute == [SyncKline EXCEPT !.scope = "window asked"]
SyncSnapshot == [SyncKlineMinute EXCEPT !.heedsForce = FALSE]

SyncFundIopv == [SyncKlineMinute EXCEPT !.emptyWindow = "asked"]
SyncEquityPledgeFreeze == SyncFundIopv
SyncHistoryStockStatus == [SyncFundIopv EXCEPT !.insertion = "by month"]

SyncBalanceSheet == [SyncFundIopv EXCEPT !.start = "overlap"]
SyncCashFlow == SyncBalanceSheet
SyncIncome == SyncBalanceSheet
SyncProfitExpress == SyncBalanceSheet
SyncProfitNotice == SyncBalanceSheet
SyncFundShare == SyncBalanceSheet
SyncShareHolder == SyncBalanceSheet
SyncHolderNum == SyncBalanceSheet
SyncEquityRestricted == SyncBalanceSheet

SyncBlockTrading == [SyncSnapshot EXCEPT !.emptyWindow = "asked if forced"]
SyncTreasuryYield == SyncBlockTrading
SyncLongHuBang == SyncBlockTrading
SyncMarginDetail == SyncBlockTrading
SyncMarginSummary == SyncBlockTrading

SyncEquityStructure == [SyncFundIopv EXCEPT !.heedsForce = FALSE]
SyncDividend == SyncEquityStructure
SyncRightIssue == SyncEquityStructure
SyncIndexWeight == SyncEquityStructure
SyncIndustryWeight == SyncEquityStructure
SyncIndustryDaily == SyncEquityStructure
SyncHistCodeList == [SyncEquityStructure EXCEPT !.emptyAnswer = "failure"]

SyncAdjFactor == [SyncKline EXCEPT !.start = "newest", !.emptyAnswer = "failure",
                                   !.skipsToday = "rows and checkpoint"]
SyncBackwardFactor == SyncAdjFactor

SyncStockBasic == [SyncKline EXCEPT !.start = "present", !.skipsToday = "checkpoint"]
SyncKzzPut == SyncStockBasic
SyncKzzCall == SyncStockBasic
SyncKzzPutCallItem == SyncStockBasic
SyncKzzConv == SyncStockBasic
SyncIndexConstituent == SyncStockBasic
SyncIndustryConstituent == SyncStockBasic
SyncKzzIssuance == SyncStockBasic
SyncKzzShare == SyncStockBasic
SyncKzzSuspend == SyncStockBasic
SyncKzzConvChange == SyncStockBasic
SyncKzzCorr == SyncStockBasic
SyncKzzCallExplanation == SyncStockBasic
SyncKzzPutExplanation == SyncStockBasic
SyncBjCodeMapping == SyncStockBasic
SyncIndustryBaseInfo == SyncStockBasic
SyncCodeInfo == [SyncStockBasic EXCEPT !.skipsToday = "never"]

SyncOptionBasicInfo == [SyncStockBasic EXCEPT !.onlyNew = TRUE]
SyncOptionMonCtrSpecs == SyncEquityStructure
SyncOptionStdCtrSpecs == [SyncOptionMonCtrSpecs EXCEPT !.latest = "table"]

--------------------------------------------------------------------------------
(* A task is its three layers, and what a resumed run leaves its codes out by. *)

Task(runner, sync, fetch, resumes) ==
    [run |-> runner, sync |-> sync, fetch |-> fetch, resumes |-> resumes]

Payload(sync, fetch) == Task(RunInfoPayloadTask, sync, fetch, "never")

MinuteKline == Task(RunMinuteKline, SyncKlineMinute, FetchKline, "rows and checkpoint")
AdjFactor == Task(RunAdjFactor, SyncAdjFactor, FetchAdjFactorRowsByCode, "never")
BackwardFactor == Task(RunBackwardFactor, SyncBackwardFactor, FetchBackwardFactorRowsByCode, "never")

StockTasks ==
    {Task(RunCodeInfo, SyncCodeInfo, FetchCodeInfo, "never"),
     Task(RunHistCodeList, SyncHistCodeList, FetchHistCodeDaily, "never"),
     Task(RunBjCodeMapping, SyncBjCodeMapping, FetchBjCodeMapping, "never"),
     Task(RunStockBasic, SyncStockBasic, FetchStockBasic, "checkpoint"),
     Task(RunHistoryStockStatus, SyncHistoryStockStatus, FetchHistoryStockStatus, "never"),
     AdjFactor,
     BackwardFactor,
     Payload(SyncBalanceSheet, FetchBalanceSheet),
     Payload(SyncCashFlow, FetchCashFlow),
     Payload(SyncIncome, FetchIncome),
     Payload(SyncProfitExpress, FetchProfitExpress),
     Payload(SyncProfitNotice, FetchProfitNotice),
     Payload(SyncShareHolder, FetchShareHolder),
     Payload(SyncHolderNum, FetchHolderNum),
     Payload(SyncEquityStructure, FetchEquityStructure),
     Payload(SyncEquityPledgeFreeze, FetchEquityPledgeFreeze),
     Payload(SyncEquityRestricted, FetchEquityRestricted),
     Payload(SyncDividend, FetchDividend),
     Payload(SyncRightIssue, FetchRightIssue)}

FundTasks ==
    {Task(RunIndexConstituent, SyncIndexConstituent, FetchIndexConstituent, "checkpoint"),
     Payload(SyncIndexWeight, FetchIndexWeight),
     Task(RunIndustryBaseInfo, SyncIndustryBaseInfo, FetchIndustryBaseInfo, "never"),
     Task(RunIndustryConstituent, SyncIndustryConstituent, FetchIndustryConstituent, "checkpoint"),
     Payload(SyncIndustryWeight, FetchIndustryWeight),
     Payload(SyncIndustryDaily, FetchIndustryDaily),
     Payload(SyncFundShare, FetchFundShare),
     Payload(SyncFundIopv, FetchFundIopv),
     Task(RunKzzIssuance, SyncKzzIssuance, FetchKzzIssuance, "checkpoint"),
     Task(RunKzzShare, SyncKzzShare, FetchKzzShare, "checkpoint"),
     Task(RunKzzSuspend, SyncKzzSuspend, FetchKzzSuspend, "checkpoint"),
     Task(RunKzzPutCallItem, SyncKzzPutCallItem, FetchKzzPutCallItem, "never"),
     Task(RunKzzPut, SyncKzzPut, FetchKzzPut, "never"),
     Task(RunKzzCall, SyncKzzCall, FetchKzzCall, "never"),
     Task(RunKzzConv, SyncKzzConv, FetchKzzConv, "never")}

MarketTasks ==
    {Task(RunOptionBasicInfo, SyncOptionBasicInfo, FetchOptionBasicInfo, "checkpoint"),
     Task(RunOptionStdCtrSpecs, SyncOptionStdCtrSpecs, FetchOptionStdCtrSpecs, "never"),
     Task(RunOptionMonCtrSpecs, SyncOptionMonCtrSpecs, FetchOptionMonCtrSpecs, "never"),
     Payload(SyncTreasuryYield, FetchTreasuryYield),
     Task(RunKzzConvChange, SyncKzzConvChange, FetchKzzConvChange, "checkpoint"),
     Task(RunKzzCorr, SyncKzzCorr, FetchKzzCorr, "checkpoint"),
     Task(RunKzzCallExplanation, SyncKzzCallExplanation, FetchKzzCallExplanation, "checkpoint"),
     Task(RunKzzPutExplanation, SyncKzzPutExplanation, FetchKzzPutExplanation, "checkpoint"),
     Payload(SyncBlockTrading, FetchBlockTrading),
     Payload(SyncLongHuBang, FetchLongHuBang),
     Payload(SyncMarginDetail, FetchMarginDetail),
     Task(RunMarginSummary, SyncMarginSummary, FetchMarginSummary, "never"),
     Task(RunDailyKline, SyncKline, FetchKline, "never"),
     MinuteKline,
     Task(RunMarketSnapshot, SyncSnapshot, FetchSnapshot, "never")}

Tasks == StockTasks \union FundTasks \union MarketTasks
================================================================================
