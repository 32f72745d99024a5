-------------------------- MODULE ResearchReports --------------------------
(***************************************************************************)
(* The reports that are computed live from the rows of stored runs: the    *)
(* validation lab, the portfolio correlation, the forward drift and the    *)
(* counts of the dashboard and of a campaign.                              *)
(*                                                                         *)
(* A run has an id, its strategyVersion, symbol, timeframe, segmentKind,   *)
(* status, createdAt, fromTs, toTs, capital, the bars of its dataset       *)
(* (Undefined without one), and its rows: trades, equity and drawdown.  A  *)
(* version has an id, its strategy and that one's campaign, versionNumber, *)
(* createdAt, workflowState and the words of its definition's signals      *)
(* (Undefined without a definition); a decision its versionId, createdAt.  *)
(* One organisation; the order in which rows are listed is left out.       *)
(***************************************************************************)
EXTENDS LedgerMetrics

CONSTANTS
    MaxEvidenceRows,    \* MAX_EVIDENCE_ROWS
    MinOverlapDays,     \* MIN_OVERLAP_DAYS
    MinForwardTrades    \* MIN_FORWARD_TRADES_FOR_DRIFT

-----------------------------------------------------------------------------
(* The rows of a run, by sequence number, up to the limit.                  *)

firstRows(rows) == SubSeq(rows, 1, Min({Len(rows), MaxEvidenceRows}))
getTrades(run) == firstRows(run.trades)
getEquityCurve(run) == firstRows(run.equity)
getDrawdownCurve(run) == firstRows(run.drawdown)

toMetricsTrades(rows) ==
    [k \in DOMAIN rows |->
        [tradeNumber |-> rows[k].sequenceNumber, direction |-> rows[k].direction, entryTime |-> rows[k].entryTime,
         exitTime |-> rows[k].exitTime, netPnl |-> rows[k].netPnl, isOpen |-> rows[k].exitTime = Undefined]]

subsetMetricsOf(run) == toSubsetMetrics(calculateCoreMetrics(toMetricsTrades(getTrades(run))))

-----------------------------------------------------------------------------
(* The validation lab.                                                      *)

comparisonSegmentKinds(targetSegmentKind) ==
    CASE targetSegmentKind = "IN_SAMPLE" -> {"VALIDATION", "OUT_OF_SAMPLE"}
      [] targetSegmentKind \in {"VALIDATION", "OUT_OF_SAMPLE"} -> {"IN_SAMPLE"}
      [] OTHER -> {}

resolveBenchmarkComparison(bars, fromTs, toTs, netProfit, capital) ==
    LET inWindow == SortedBy(SelectSeq(bars, LAMBDA bar : bar.time \in fromTs .. toTs), LAMBDA bar : bar.time, <)
    IN  IF inWindow = << >> THEN Undefined
        ELSE computeBenchmarkComparison(netProfit, capital, Head(inWindow).open, Last(inWindow).close)

siblingsOf(runs, target) ==
    {run \in runs :
        /\ run.strategyVersion = target.strategyVersion
        /\ run.symbol = target.symbol /\ run.timeframe = target.timeframe
        /\ run.status = "SUCCEEDED" /\ run.id # target.id
        /\ run.segmentKind \in comparisonSegmentKinds(target.segmentKind)}

(* paths: the draws of the Monte Carlo fan. *)
getValidationLabReport(runs, target, topN, paths) ==
    LET trades == toMetricsTrades(getTrades(target))
        metrics == toSubsetMetrics(calculateCoreMetrics(trades))
        ofVersion == {run \in runs : run.strategyVersion = target.strategyVersion}
    IN  [segmentDistribution |->
            [group \in {<<run.segmentKind, run.status>> : run \in ofVersion} |->
                Cardinality({run \in ofVersion : <<run.segmentKind, run.status>> = group})],
         degradation |-> [sibling \in siblingsOf(runs, target) |->
                            computeDegradation(metrics, subsetMetricsOf(sibling))],
         tradeRemovalConcentration |-> computeTradeRemovalConcentration(trades),
         topN |-> Min({Max({topN, 1}), 20}),
         directionalBreakdown |-> computeDirectionalBreakdown(trades),
         benchmarkComparison |->
            IF target.bars = Undefined THEN Undefined
            ELSE resolveBenchmarkComparison(target.bars, target.fromTs, target.toTs, metrics.netProfit, target.capital),
         monteCarloFan |-> computeMonteCarloFan(trades, target.capital, paths)]

-----------------------------------------------------------------------------
(* The representative run of a version.                                     *)

(* SEGMENT_PREFERENCE: the smaller, the more out of sample. *)
segmentPreference(kind) ==
    CASE kind = "OUT_OF_SAMPLE" -> 0 [] kind = "VALIDATION" -> 1 [] kind = "IN_SAMPLE" -> 2 [] OTHER -> 3

(* Whether a is taken before b. *)
Preferred(a, b) ==
    LET pa == segmentPreference(a.segmentKind)  pb == segmentPreference(b.segmentKind)
    IN  IF pa # pb THEN pa < pb ELSE b.createdAt < a.createdAt

(* Of runs that are created at once any may come first. *)
resolveRepresentativeRun(runs, versionId) ==
    LET rows == {run \in runs : run.strategyVersion = versionId /\ run.status = "SUCCEEDED"}
    IN  IF rows = {} THEN Undefined
        ELSE CHOOSE best \in rows : \A run \in rows : ~Preferred(run, best)

-----------------------------------------------------------------------------
(* The portfolio correlation.                                               *)

latestVersions(versions) ==
    {v \in versions : \A other \in versions : other.strategy = v.strategy => other.versionNumber <= v.versionNumber}

resolvePaperApprovedStrategies(versions, chosen) ==
    {v \in latestVersions(versions) : v.workflowState = "PAPER_APPROVED" /\ (chosen = {} \/ v.id \in chosen)}

dailyOf(curve, figure) ==
    toDailySeries([k \in DOMAIN curve |-> [sequenceNumber |-> curve[k].sequenceNumber, time |-> curve[k].time,
                                           value |-> curve[k][figure]]])
dailyEquity(run) == dailyOf(getEquityCurve(run), "equity")
dailyDrawdown(run) == dailyOf(getDrawdownCurve(run), "drawdownPct")
closedTrades(run) == SelectSeq(getTrades(run), LAMBDA t : t.exitTime # Undefined)

(* a and b: the selected versions, runA and runB what represents them. *)
pairCorrelation(a, runA, b, runB) ==
    [returnCorrelation |-> computeSeriesCorrelation(toReturnSeries(dailyEquity(runA)),
                                toReturnSeries(dailyEquity(runB)), MinOverlapDays),
     drawdownCorrelation |-> computeSeriesCorrelation(dailyDrawdown(runA), dailyDrawdown(runB), MinOverlapDays),
     exposureOverlap |-> computeExposureOverlap(closedTrades(runA), closedTrades(runB)),
     signalOverlap |-> IF Undefined \in {a.signals, b.signals} THEN Undefined
                       ELSE computeSignalOverlap(a.signals, b.signals),
     evidenceTierMismatch |-> runA.segmentKind # runB.segmentKind]

getPortfolioCorrelationReport(runs, versions, chosen) ==
    LET selected == resolvePaperApprovedStrategies(versions, chosen)
        Run(v) == resolveRepresentativeRun(runs, v.id)
        evidence == {v \in selected : Run(v) # Undefined}
        symbols == {Run(v).symbol : v \in evidence}
        SumOver(rows, f(_)) == Total(DOMAIN rows, LAMBDA k : f(rows[k]))
        Turnover(v) == SumOver(closedTrades(Run(v)), LAMBDA t : t.quantity * t.entryPrice)
        Fees(v) == SumOver(closedTrades(Run(v)), LAMBDA t : t.fees)
        Share(part, whole) == IF whole = 0 THEN <<0, 1>> ELSE Ratio(part, whole)
    IN  [strategies |-> [v \in evidence |-> Run(v)],
         excludedStrategies |-> selected \ evidence,
         pairCorrelations |-> [pair \in {p \in evidence \X evidence : p[1] # p[2]} |->
                                pairCorrelation(pair[1], Run(pair[1]), pair[2], Run(pair[2]))],
         marketConcentration |-> [s \in symbols |-> Cardinality({v \in evidence : Run(v).symbol = s})],
         turnoverConcentration |-> [v \in evidence |->
            [turnoverNotional |-> Turnover(v), fees |-> Fees(v),
             turnoverPct |-> Share(Turnover(v), Total(evidence, Turnover)),
             feePct |-> Share(Fees(v), Total(evidence, Fees))]]]

-----------------------------------------------------------------------------
(* The drift of a forward test from its version's representative run.       *)

getForwardDriftReport(runs, versionId, fills) ==
    LET baseline == resolveRepresentativeRun(runs, versionId)
        forwardTrades == pairPaperFillsIntoTrades(fills)
        closed == Len(SelectSeq(forwardTrades, LAMBDA t : ~t.isOpen))
    IN  IF baseline = Undefined THEN [reasonCode |-> "NO_BASELINE_RUN"]
        ELSE IF closed < MinForwardTrades
        THEN [reasonCode |-> "INSUFFICIENT_FORWARD_TRADES", baseline |-> baseline.id, closedForwardTradeCount |-> closed]
        ELSE [reasonCode |-> "NONE", baseline |-> baseline.id, closedForwardTradeCount |-> closed,
              result |-> computeDegradation(subsetMetricsOf(baseline),
                            toSubsetMetrics(calculateCoreMetrics(forwardTrades)))]

-----------------------------------------------------------------------------
(* The counts of the dashboard and of a campaign.                           *)

countBy(rows, key(_)) == [value \in {key(r) : r \in rows} |-> Cardinality({r \in rows : key(r) = value})]
strategiesByState(versions) == countBy(latestVersions(versions), LAMBDA v : v.workflowState)
runsByStatus(runs, versions) ==
    countBy({run \in runs : \E v \in versions : v.id = run.strategyVersion}, LAMBDA run : run.status)

(* The counts of campaigns, datasets, runner types and parity are left out. *)
getDashboardKpis(runs, versions) ==
    LET approved == resolvePaperApprovedStrategies(versions, {}) IN
    [byWorkflowState |-> strategiesByState(versions), byStatus |-> runsByStatus(runs, versions),
     paperApprovedStrategies |-> Cardinality(approved),
     withSdlDefinition |-> Cardinality({v \in approved : v.signals # Undefined}),
     withBenchmarkDataset |-> Cardinality({run \in runs : run.bars # Undefined}),
     withClosedTrades |-> Cardinality({run \in runs : \E k \in DOMAIN run.trades : run.trades[k].exitTime # Undefined})]

getCampaignSummary(runs, versions, decisions, campaign) ==
    LET mine == {v \in versions : v.campaign = campaign}
        states == strategiesByState(mine)
        activity == {v.createdAt : v \in mine}
                    \cup {d.createdAt : d \in {e \in decisions : \E v \in mine : v.id = e.versionId}}
    IN  [byWorkflowState |-> states, byStatus |-> runsByStatus(runs, mine),
         pendingCommitteeDecisions |-> IF "PAPER_APPROVAL_REVIEW" \in DOMAIN states
                                       THEN states["PAPER_APPROVAL_REVIEW"] ELSE 0,
         lastActivityAt |-> IF activity = {} THEN Undefined ELSE Max(activity)]

=============================================================================
