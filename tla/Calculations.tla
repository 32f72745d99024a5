---------------------------- MODULE Calculations ----------------------------
(***************************************************************************)
(* The calculations of the backtest chain over a growing window of bars:   *)
(* each bar that arrives is appended, and every definition is simulated,   *)
(* its trades written as a report and sent as alerts, read back, measured, *)
(* and reported on as runs of strategy versions.                           *)
(*                                                                         *)
(* The report is written by TradingView; here it states the simulated      *)
(* trades in one of two locales, its rows in some order.                   *)
(***************************************************************************)
EXTENDS LocalRunner, PaperFills, ResearchReports, ReportParsing

CONSTANTS
    Shapes,         \* the bars that may come next
    MaxBars,        \* bound on the window
    Definitions,    \* the strategy definitions, in a sequence
    Plan,           \* capital and commission
    Locales,        \* a record of the separators of each locale
    MaxShuffled     \* a report of at most this many rows is read in every order

VARIABLES
    bars,       \* the window
    outcome,    \* what the simulation of each accepted definition returns
    runs        \* the stored runs of the definitions

vars == <<bars, outcome, runs>>

Accepted == {k \in DOMAIN Definitions : compile(Definitions[k])}
outcomes(window) == [k \in Accepted |-> simulate(window, Definitions[k], Plan)]
Succeed == {k \in Accepted : outcome[k].ok}

-----------------------------------------------------------------------------
(* The ledger of one definition on the window, in the metrics' shape, and   *)
(* the runs that are stored.                                                *)

asLedger(trades) ==
    [k \in DOMAIN trades |->
        [tradeNumber |-> trades[k].sequenceNumber, direction |-> trades[k].direction,
         entryTime |-> trades[k].entryTime, exitTime |-> trades[k].exitTime, netPnl |-> trades[k].netPnl,
         isOpen |-> trades[k].isOpen]]

dated(window) == [i \in DOMAIN window |-> window[i] @@ [time |-> i]]

storedRun(k, kind, created, window, ledger) ==
    LET equity == reconstructEquityCurve(asLedger(ledger.trades), Plan.capital) IN
    [id |-> <<k, kind>>, strategyVersion |-> k, symbol |-> Definitions[k].symbol, timeframe |-> "1h",
     segmentKind |-> kind, status |-> IF ledger.ok THEN "SUCCEEDED" ELSE "FAILED",
     createdAt |-> created, fromTs |-> 1, toTs |-> Len(window), capital |-> Plan.capital, bars |-> dated(window),
     trades |-> ledger.trades, equity |-> IF ledger.ok THEN equity ELSE << >>,
     drawdown |-> IF ledger.ok THEN computeDrawdownCurve(equity).points ELSE << >>]

(* Only a run that succeeds has rows. *)
ledgerOf(k, results) ==
    IF k \in Accepted /\ results[k].ok THEN results[k] ELSE [ok |-> FALSE, trades |-> << >>]

segmentRuns(kind, created, window, results) ==
    {storedRun(k, kind, created, window, ledgerOf(k, results)) : k \in DOMAIN Definitions}

firstHalf(window) == SubSeq(window, 1, Len(window) \div 2)

(* The first half of the window in sample, and all of it out of sample. *)
storedRuns(window, results) ==
    segmentRuns("IN_SAMPLE", 2, firstHalf(window), outcomes(firstHalf(window)))
    \cup segmentRuns("OUT_OF_SAMPLE", 1, window, results)

-----------------------------------------------------------------------------
Init ==
    /\ bars = << >>
    /\ outcome = outcomes(<< >>)
    /\ runs = storedRuns(<< >>, outcome)

appendBar(shape) ==
    /\ Len(bars) < MaxBars
    /\ bars' = Append(bars, shape)
    /\ outcome' = outcomes(bars')
    /\ runs' = storedRuns(bars', outcome')

Next == \E shape \in Shapes : appendBar(shape)

Spec == Init /\ [][Next]_vars

-----------------------------------------------------------------------------
(* A simulation may not depend on bars that have not come yet: what it      *)
(* closes in a window, it closes there in any longer one, and nothing else. *)
closedBy(n, trades) == SelectSeq(trades, LAMBDA t : ~t.isOpen /\ t.exitTime <= n)

NoLookahead ==
    [][\A k \in Succeed' :
          /\ k \in Succeed
          /\ closedBy(Len(bars), outcome'[k].trades) = closedBy(Len(bars), outcome[k].trades)]_vars

(* Refuted: a position stopped on the bar it was opened on is stopped there *)
(* too when the bar reaches further.  The multiple of an atr_multiple stop  *)
(* is of the range the entry bar will only have had at its close.           *)
StoppedAtOnce(n, trades) == \E t \in ToSet(trades) : t.entryTime = n /\ t.exitReason = "stop_loss"

StopKnownAtOpen ==
    \A k \in Succeed, wider \in Shapes :
        /\ bars # << >>
        /\ wider.open = Last(bars).open /\ wider.low <= Last(bars).low /\ wider.high >= Last(bars).high
        /\ StoppedAtOnce(Len(bars), outcome[k].trades)
        => StoppedAtOnce(Len(bars), outcomes(Append(Front(bars), wider))[k].trades)

(* Refuted: a definition that compiles does not throw when it is run, as    *)
(* the simulation's own messages assume.                                   *)
CompiledRunsSucceed == Succeed = Accepted

-----------------------------------------------------------------------------
(* The files that state a ledger or the window.                             *)

digitsOf(n) ==
    LET digits[m \in 0 .. n] ==
            IF m < 10 THEN <<ToString(m)>> ELSE Append(digits[m \div 10], ToString(m % 10))
    IN  digits[n]

(* n tenths, thousands grouped. *)
written(n, locale) ==
    LET units == digitsOf(AbsOf(n) \div 10)
        grouped == IF Len(units) > 3
                   THEN SubSeq(units, 1, Len(units) - 3) \o <<locale.group>> \o SubSeq(units, Len(units) - 2, Len(units))
                   ELSE units
    IN  (IF n < 0 THEN <<"-">> ELSE << >>) \o grouped \o <<locale.point, ToString(AbsOf(n) % 10)>>

line(fields, locale) ==
    LET Quoted(f) == IF \E i \in DOMAIN f : f[i] = locale.delimiter THEN <<"\"">> \o f \o <<"\"">> ELSE f
    IN  FoldLeft(LAMBDA text, f : text \o <<locale.delimiter>> \o Quoted(f), Quoted(Head(fields)), Tail(fields))

headings(names, locale) == line([k \in DOMAIN names |-> <<names[k]>>], locale)

dateText(time, locale) == <<CHOOSE word \in DOMAIN DateTexts :
                                DateTexts[word] = time /\ word \in locale.dates>>

Side(t) == IF t.direction = "LONG" THEN "long" ELSE "short"

(* An entry row for each trade, and an exit row for each closed one. *)
reportRows(trades, locale) ==
    LET Entry(t) == line(<<digitsOf(t.sequenceNumber), <<"Entry " \o Side(t)>>, dateText(t.entryTime, locale),
                           written(t.entryPrice, locale), written(10 * t.quantity, locale), << >>>>, locale)
        Exit(t) == line(<<digitsOf(t.sequenceNumber), <<"Exit " \o Side(t)>>, dateText(t.exitTime, locale),
                          written(t.exitPrice, locale), written(10 * t.quantity, locale),
                          written(t.netPnl, locale)>>, locale)
    IN  FoldLeft(LAMBDA rows, t : IF t.isOpen THEN Append(rows, Entry(t)) ELSE rows \o <<Entry(t), Exit(t)>>,
                 << >>, trades)

listOfTrades(rows, locale) ==
    <<headings(<<"Trade #", "Type", "Date/Time", "Price USDT", "Contracts", "Profit USDT">>, locale)>> \o rows

performanceSummary(figures, locale) ==
    LET Stated(title, text) == line(<< <<title>>, text>>, locale) IN
    <<headings(<<"Title", "All USD">>, locale),
      Stated("Net Profit", written(figures.netProfit, locale)),
      Stated("Max Drawdown", written(figures.maxDrawdown, locale)),
      Stated("Total Closed Trades", digitsOf(figures.closedTradeCount))>>

(* The orders a report's rows are read in. *)
orders(rows) ==
    LET n == Len(rows) IN
    IF n <= MaxShuffled THEN {[k \in 1 .. n |-> rows[p[k]]] : p \in Permutations(1 .. n)}
    ELSE {rows, Reverse(rows)}

-----------------------------------------------------------------------------
(* The alerts and figures of a ledger.                                      *)

(* The alerts that state the trades. *)
signalsOf(trades) ==
    LET Event(kind, t) == kind \o "_" \o t.direction
        Entry(t) == [event |-> Event("ENTRY", t), direction |-> t.direction, price |-> t.entryPrice, sentAt |-> t.entryTime]
        Exit(t) == [event |-> CASE t.exitReason = "stop_loss" -> "STOP_HIT"
                                [] t.exitReason = "take_profit" -> "TARGET_HIT"
                                [] OTHER -> Event("EXIT", t),
                    direction |-> IF t.exitReason \in {"stop_loss", "take_profit"} THEN Undefined ELSE t.direction,
                    price |-> t.exitPrice, sentAt |-> t.exitTime]
    IN  FoldLeft(LAMBDA sent, t : IF t.isOpen THEN Append(sent, Entry(t)) ELSE sent \o <<Entry(t), Exit(t)>>,
                 << >>, trades)

fillModel(k, slippage) ==
    [quantityModel |-> [type |-> Definitions[k].sizing, value |-> Definitions[k].size],
     slippageModel |-> [type |-> "fixed_ticks", value |-> slippage],
     commissionModel |-> [type |-> Plan.commission, value |-> Plan.commissionValue], latency |-> 0]

forwardTest(k, signals, slippage) == processSignals(signals, fillModel(k, slippage), Plan.capital)

figuresOf(ledger) ==
    LET metrics == calculateCoreMetrics(ledger) IN
    [closedTradeCount |-> metrics.closedTradeCount, netProfit |-> metrics.netProfit,
     maxDrawdown |-> computeDrawdownCurve(reconstructEquityCurve(ledger, Plan.capital)).maxDrawdown]

-----------------------------------------------------------------------------
(* The definitions as approved versions, a campaign for each symbol, and    *)
(* the decision that approved each.                                        *)

tokenizeSignalExpression(tokens) ==
    {CASE t.type = "NUMBER" -> ToString(t.value) [] t.type = "IDENT" -> t.value [] OTHER -> t.type :
        t \in {u \in ToSet(tokens) : u.type \in {"IDENT", "NUMBER", "and", "or", "not", "true", "false"}}}

approvedVersions ==
    {[id |-> k, strategy |-> Definitions[k].strategy, campaign |-> Definitions[k].symbol, versionNumber |-> k,
      createdAt |-> k, workflowState |-> "PAPER_APPROVED",
      signals |-> tokenizeSignalExpression(Definitions[k].long \o Definitions[k].short)] : k \in DOMAIN Definitions}

approvals == {[versionId |-> v.id, createdAt |-> v.createdAt + 1] : v \in approvedVersions}

-----------------------------------------------------------------------------
(* A ledger, and everything that is computed from one, has to agree with    *)
(* every other statement of the same trades.                                *)

(* Read from a report in any order of its rows, in either locale.           *)
StatesTrades(parsed, trades) ==
    /\ parsed.ok /\ parsed.warnings \subseteq {"OPEN_POSITION_AT_END"}
    /\ normalisedTrades(parsed.trades) =
        [k \in DOMAIN trades |->
            [tradeNumber |-> 10 * trades[k].sequenceNumber, direction |-> trades[k].direction,
             entryTime |-> trades[k].entryTime, exitTime |-> trades[k].exitTime,
             entryPrice |-> trades[k].entryPrice, exitPrice |-> trades[k].exitPrice,
             quantity |-> 10 * trades[k].quantity, netPnl |-> trades[k].netPnl, isOpen |-> trades[k].isOpen]]

ReportReadsBack(trades) ==
    \A locale \in Locales : \A rows \in orders(reportRows(trades, locale)) :
        StatesTrades(parseListOfTrades(listOfTrades(rows, locale)), trades)

(* The summary of the same run has parity with it, and that of a run with   *)
(* another trade has not.                                                   *)
readBack(figures, locale) ==
    extractReportedParityMetrics(parsePerformanceSummary(performanceSummary(figures, locale)).metrics)

Tolerance == [pass |-> 1, warn |-> 5]

(* A deviation is judged by the last unit on either side of a tolerance.    *)
(* What the report does not state changes the verdict on nothing else, and  *)
(* a report that states nothing gets none.                                  *)
JudgedByTolerance(figures, reported) ==
    LET Off(n) == [figures EXCEPT !.netProfit = @ + n]
        Edge(pct) == (pct * AbsOf(reported.netProfit)) \div 100
        Missing(fields) == [f \in DOMAIN reported |-> IF f \in fields THEN Undefined ELSE reported[f]]
        pass == Edge(Tolerance.pass)
        warn == Edge(Tolerance.warn)
    IN  /\ \A n \in {pass, pass + 1, warn, warn + 1}, sign \in {-1, 1} :
            compareParity(Off(sign * n), reported, Tolerance).status =
                IF n <= pass THEN "PASS" ELSE IF n <= warn THEN "WARN" ELSE "FAIL"
        /\ compareParity(Off(warn + 1), Missing({"netProfit"}), Tolerance).status = "PASS"
        /\ compareParity(Off(warn + 1), Missing({"closedTradeCount", "maxDrawdown"}), Tolerance).status = "FAIL"
        /\ compareParity(figures, Missing(DOMAIN reported), Tolerance).status = "INSUFFICIENT_DATA"

HasParity(figures, read) ==
    LET reported == [read EXCEPT !.closedTradeCount = @ \div 10]
        Parity(local) == compareParity(local, reported, Tolerance)
    IN  /\ Parity(figures) = [status |-> "PASS", firstDivergence |-> Undefined]
        /\ Parity([figures EXCEPT !.closedTradeCount = @ + 1]).firstDivergence = "closedTradeCount"
        /\ JudgedByTolerance(figures, reported)

SummaryHasParity(figures) == \A locale \in Locales : HasParity(figures, readBack(figures, locale))

(* A forward test of the same alerts makes the same ledger, in whatever     *)
(* order its fills are read; an alert that is sent again fills nothing, and *)
(* slippage costs every closed trade of a fixed size.                       *)
TestMakesLedger(trades, signals, test, again, slipped) ==
    /\ test.rejected = << >>
    /\ \A fills \in {test.fills, Reverse(test.fills)} : pairPaperFillsIntoTrades(fills) = asLedger(trades)
    /\ again.fills = test.fills /\ Len(again.rejected) = Len(signals)
    /\ \A i \in DOMAIN slipped : ~slipped[i].isOpen => slipped[i].netPnl < trades[i].netPnl

twice(signals) == [i \in 1 .. 2 * Len(signals) |-> signals[(i + 1) \div 2]]

ForwardMakesLedger(k, trades, signals) ==
    TestMakesLedger(trades, signals, forwardTest(k, signals, 0), forwardTest(k, twice(signals), 0),
        IF Definitions[k].sizing = "fixed" THEN pairPaperFillsIntoTrades(forwardTest(k, signals, 1).fills) ELSE << >>)

(* A path that draws every trade in its order. *)
InOrder == <<[j \in 1 .. 2 * MaxBars |-> j]>>

(* That path ends at the net profit, and falls as deep as the curve.        *)
FanAgrees(netProfit, drawdown, fan) ==
    fan # Undefined => /\ Same(fan.finalReturn.p50, <<netProfit, Plan.capital>>)
                       /\ ~Less(fan.maxDrawdown.p50, drawdown.maxDrawdownPct)

FanFollowsLedger(ledger) ==
    FanAgrees(calculateCoreMetrics(ledger).netProfit, computeDrawdownCurve(reconstructEquityCurve(ledger, Plan.capital)),
              computeMonteCarloFan(ledger, Plan.capital, InOrder))

(* The window itself, written in any order, is read back.                   *)
Plain == CHOOSE locale \in Locales : locale.delimiter = ","
BarsReadBack(window) ==
    LET Written(i) == line(<<dateText(window[i].time, Plain), written(10 * window[i].open, Plain),
                             written(10 * window[i].high, Plain), written(10 * window[i].low, Plain),
                             written(10 * window[i].close, Plain), digitsOf(window[i].volume)>>, Plain)
        rows == [i \in DOMAIN window |-> Written(i)]
        header == headings(<<"time", "open", "high", "low", "close", "volume">>, Plain)
    IN  \A lines \in orders(rows) :
            parseOhlcvCsv(<<header>> \o lines) =
                [ok |-> TRUE, rawRowCount |-> Len(window),
                 bars |-> [i \in DOMAIN window |->
                    [column \in BarColumns |->
                        IF column = "time" THEN window[i].time ELSE 10 * window[i][column]]]]

(* Either run of a version lists the other as its comparison, a loss in one *)
(* direction is a gain in the other, and over one window the runs stand to  *)
(* holding the asset in the order they stand to one another.                *)
ReportsAgree(decided, report) ==
    LET Excess(run) == report[run].benchmarkComparison.excessReturn
        Net(run) == report[run].tradeRemovalConcentration.totalNetProfit
        Change(r, s) == report[r].degradation[s].netProfit
    IN  /\ \A r \in decided :
            /\ Total(DOMAIN report[r].segmentDistribution, LAMBDA g : report[r].segmentDistribution[g])
                = Cardinality({run \in runs : run.strategyVersion = r.strategyVersion})
            /\ report[r].directionalBreakdown.long.netProfit + report[r].directionalBreakdown.short.netProfit = Net(r)
            /\ r.bars # << >> <=> report[r].benchmarkComparison # Undefined
        /\ \A r \in decided : \A s \in DOMAIN report[r].degradation :
            /\ r \in DOMAIN report[s].degradation
            /\ Undefined \notin {Change(r, s), Change(s, r)} => (Change(r, s)[1] > 0 <=> Change(s, r)[1] < 0)
        /\ \A r, s \in decided : r.toTs = s.toTs /\ r.bars # << >> =>
            Excess(r)[2] = Excess(s)[2] /\ (Excess(r)[1] < Excess(s)[1] <=> Net(r) < Net(s))

ValidationAgrees(decided) ==
    ReportsAgree(decided, [run \in decided |-> getValidationLabReport(runs, run, 5, InOrder)])

(* The selected strategies are reported or excluded, each with a run that   *)
(* no succeeded run is to be preferred to; the shares make up the whole; a  *)
(* pair is compared the same way from either side, and a strategy is most   *)
(* like itself.                                                             *)
LikeItself(own) ==
    LET c == own.returnCorrelation.coefficient IN
    /\ Same(own.signalOverlap, <<1, 1>>) /\ ~own.evidenceTierMismatch
    /\ own.exposureOverlap.overlap # 0 => Same(own.exposureOverlap.jaccard, <<1, 1>>)
    /\ c # Undefined => c.covariance = c.variances[1]

SameFromEitherSide(here, there, most) ==
    LET c == here.returnCorrelation.coefficient IN
    /\ here.exposureOverlap = there.exposureOverlap
    /\ here.signalOverlap = there.signalOverlap
    /\ here.exposureOverlap.overlap <= most.exposureOverlap.overlap
    /\ c # Undefined => /\ c.covariance = there.returnCorrelation.coefficient.covariance
                        /\ c.covariance * c.covariance <= c.variances[1] * c.variances[2]

SelectionIsRight(report, reported) ==
    LET shares == [v \in reported |-> report.turnoverConcentration[v].turnoverPct] IN
    /\ report.excludedStrategies \cap reported = {}
    /\ \A v \in report.excludedStrategies : \A run \in runs : run.strategyVersion = v.id => run.status = "FAILED"
    /\ \A v \in reported : \A run \in runs :
        run.strategyVersion = v.id /\ run.status = "SUCCEEDED" => ~Preferred(run, report.strategies[v])
    /\ Total(DOMAIN report.marketConcentration, LAMBDA m : report.marketConcentration[m]) = Cardinality(reported)
    /\ \A w \in reported : shares[w][1] # 0 => Total(reported, LAMBDA v : shares[v][1]) = shares[w][2]

PairsAgree(report, itself) ==
    /\ \A pair \in DOMAIN report.pairCorrelations :
        SameFromEitherSide(report.pairCorrelations[pair], report.pairCorrelations[<<pair[2], pair[1]>>], itself[pair[1]])
    /\ \A v \in DOMAIN itself : LikeItself(itself[v])

PortfolioAgrees(report) ==
    /\ SelectionIsRight(report, DOMAIN report.strategies)
    /\ PairsAgree(report, [v \in DOMAIN report.strategies |->
                             pairCorrelation(v, report.strategies[v], v, report.strategies[v])])

(* A forward test that fills the baseline's own trades has not drifted: no  *)
(* figure changed.  A baseline with losses only has the profit factor 0,    *)
(* and the change of that one figure is then 0 / 0, not a number.           *)
LossesOnly(run) == subsetMetricsOf(run).winningTrades = 0

HasNotDrifted(run, report) ==
    /\ run = Undefined <=> report.reasonCode = "NO_BASELINE_RUN"
    /\ report.reasonCode = "NONE" =>
        \A figure \in {"netProfit", "profitFactor", "winRate"} :
            report.result[figure] # Undefined =>
                /\ report.result[figure][1] = 0
                /\ report.result[figure][2] = 0 <=> figure = "profitFactor" /\ LossesOnly(run)

fillsOf(versionId, run) ==
    IF run = Undefined THEN << >> ELSE forwardTest(versionId, signalsOf(run.trades), 0).fills

ForwardMatchesBaseline(versions) ==
    \A v \in versions : \A run \in {resolveRepresentativeRun(runs, v.id)} :
        HasNotDrifted(run, getForwardDriftReport(runs, v.id, fillsOf(v.id, run)))

(* Refuted: the drift of the profit factor is a number, or null where one   *)
(* side has no losing trade, as its declaration says.                       *)
DriftIsNumber ==
    \A v \in approvedVersions : \A run \in {resolveRepresentativeRun(runs, v.id)} :
        LET report == getForwardDriftReport(runs, v.id, fillsOf(v.id, run)) IN
        report.reasonCode = "NONE" =>
            report.result.profitFactor = Undefined \/ report.result.profitFactor[2] # 0

(* The campaigns' counts add up to the dashboard's; its count of strategies *)
(* to correlate is the portfolio report's, and its count of runs to         *)
(* validate that of the runs whose trades make a fan.                       *)
AddUp(kpis, summary) ==
    \A field \in {"byWorkflowState", "byStatus"} : \A value \in DOMAIN kpis[field] :
        kpis[field][value] = Total({c \in DOMAIN summary : value \in DOMAIN summary[c][field]},
                                   LAMBDA c : summary[c][field][value])

CountsAgree(kpis, summary, portfolio) ==
    /\ AddUp(kpis, summary)
    /\ kpis.paperApprovedStrategies = Cardinality(DOMAIN portfolio.strategies \cup portfolio.excludedStrategies)
    /\ kpis.withClosedTrades = Cardinality({run \in runs :
            computeMonteCarloFan(toMetricsTrades(getTrades(run)), run.capital, InOrder) # Undefined})
    /\ Max({summary[c].lastActivityAt : c \in DOMAIN summary}) = Max({d.createdAt : d \in approvals})

(* Every statement of a definition's ledger.                                *)
OneLedger(k, trades) ==
    /\ ReportReadsBack(trades)
    /\ SummaryHasParity(figuresOf(asLedger(trades)))
    /\ ForwardMakesLedger(k, trades, signalsOf(trades))
    /\ IsLedger(asLedger(trades)) /\ FiguresAddUp(asLedger(trades), Plan.capital)
    /\ FanFollowsLedger(asLedger(trades))

(* Every report on the stored runs.                                         *)
ReportsOnRuns(versions, portfolio) ==
    /\ ValidationAgrees({run \in runs : run.status = "SUCCEEDED"})
    /\ PortfolioAgrees(portfolio)
    /\ ForwardMatchesBaseline(versions)
    /\ CountsAgree(getDashboardKpis(runs, versions),
                   [c \in {v.campaign : v \in versions} |-> getCampaignSummary(runs, versions, approvals, c)],
                   portfolio)

LedgerAgrees ==
    /\ \A k \in Succeed : OneLedger(k, outcome[k].trades)
    /\ BarsReadBack(dated(bars))
    /\ ReportsOnRuns(approvedVersions, getPortfolioCorrelationReport(runs, approvedVersions, {}))

=============================================================================
