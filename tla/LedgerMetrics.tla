--------------------------- MODULE LedgerMetrics ---------------------------
(***************************************************************************)
(* What is computed from a trade ledger: core metrics, the equity and      *)
(* drawdown curves, parity with a report, robustness, and the comparison   *)
(* of two strategies.                                                      *)
(*                                                                         *)
(* Times are integers, BarsPerDay of them to a day and BarsPerMonth to a   *)
(* month.  A quotient is kept as the pair <<numerator, denominator>>, with *)
(* a positive denominator; Undefined stands for null.  Percentages are     *)
(* quotients that are not multiplied by 100.  Where the code divides       *)
(* floating-point numbers by what may be zero the denominator 0 is kept:   *)
(* <<0, 0>> is NaN and <<n, 0>> an infinity of n's sign.                   *)
(***************************************************************************)
EXTENDS Values

CONSTANTS BarsPerDay, BarsPerMonth

Total(S, f(_)) == MapThenSumSet(f, S)
Ratio(n, d) == CASE d = 0 -> Undefined [] d > 0 -> <<n, d>> [] d < 0 -> <<-n, -d>>
Less(q, r) == q[1] * r[2] < r[1] * q[2]
Same(q, r) == IF Undefined \in {q, r} THEN q = r ELSE q[1] * r[2] = r[1] * q[2]

-----------------------------------------------------------------------------
(* Core metrics.                                                            *)

isClosed(t) == ~t.isOpen /\ t.netPnl # Undefined /\ t.exitTime # Undefined
month(time) == time \div BarsPerMonth

(* The closed trades of a filtered ledger, of which positions are kept. *)
closedInOrder(trades, kept) ==
    LET order == PositionsBy({k \in kept : isClosed(trades[k])}, LAMBDA k : trades[k].exitTime, <)
    IN  [p \in DOMAIN order |-> trades[order[p]]]

pnlOf(trades) == [k \in DOMAIN trades |-> trades[k].netPnl]

coreMetrics(closed) ==
    LET pnl == pnlOf(closed)
        wins == {k \in DOMAIN closed : pnl[k] > 0}
        losses == {k \in DOMAIN closed : pnl[k] < 0}
        profit == SumFunctionOnSet(pnl, wins)
        loss == -SumFunctionOnSet(pnl, losses)
        months == {month(closed[k].exitTime) : k \in DOMAIN closed}
        streaks == {run \in (DOMAIN closed) \X (DOMAIN closed) : run[1] .. run[2] \subseteq losses}
        held == {k \in DOMAIN closed : closed[k].exitTime >= closed[k].entryTime}
    IN  [closedTradeCount |-> Len(closed),
         winningTrades |-> Cardinality(wins), losingTrades |-> Cardinality(losses),
         grossProfit |-> profit, grossLoss |-> loss, netProfit |-> profit - loss,
         profitFactor |-> Ratio(profit, loss),
         winRatePct |-> IF closed = << >> THEN <<0, 1>> ELSE <<Cardinality(wins), Len(closed)>>,
         avgWin |-> IF wins = {} THEN <<0, 1>> ELSE <<profit, Cardinality(wins)>>,
         avgLoss |-> IF losses = {} THEN <<0, 1>> ELSE <<-loss, Cardinality(losses)>>,
         payoffRatio |-> IF losses = {} THEN Undefined
                         ELSE Ratio(profit * Cardinality(losses), Max({1, Cardinality(wins)}) * loss),
         longestLosingStreak |-> Max({0} \cup {run[2] - run[1] + 1 : run \in streaks}),
         avgHoldingDuration |-> Ratio(Total(held, LAMBDA k : closed[k].exitTime - closed[k].entryTime),
                                      Cardinality(held)),
         monthlyReturns |-> [m \in months |->
             SumFunctionOnSet(pnl, {k \in DOMAIN closed : month(closed[k].exitTime) = m})]]

calculateCoreMetrics(trades) == coreMetrics(closedInOrder(trades, DOMAIN trades))

-----------------------------------------------------------------------------
(* Equity and drawdown.                                                     *)

reconstructEquityCurve(trades, capital) ==
    LET closed == closedInOrder(trades, DOMAIN trades) IN
    [p \in 1 .. Len(closed) + 1 |->
        [sequenceNumber |-> p - 1,
         time |-> IF p > 1 THEN closed[p-1].exitTime ELSE IF closed = << >> THEN 0 ELSE closed[1].entryTime,
         equity |-> capital + SumFunctionOnSet(pnlOf(closed), 1 .. p - 1)]]

(* The percentage reported with the greatest drawdown is that point's own. *)
computeDrawdownCurve(equity) ==
    LET peak == [p \in DOMAIN equity |-> Max({equity[q].equity : q \in 1 .. p})]
        points == [p \in DOMAIN equity |->
            [sequenceNumber |-> equity[p].sequenceNumber, time |-> equity[p].time,
             drawdown |-> peak[p] - equity[p].equity,
             drawdownPct |-> IF peak[p] = 0 THEN <<0, 1>> ELSE Ratio(peak[p] - equity[p].equity, peak[p])]]
        deepest == Max({0} \cup {points[p].drawdown : p \in DOMAIN points})
        first == Min({p \in DOMAIN points : points[p].drawdown = deepest})
    IN  [points |-> points, maxDrawdown |-> deepest,
         maxDrawdownPct |-> IF deepest = 0 THEN <<0, 1>> ELSE points[first].drawdownPct]

-----------------------------------------------------------------------------
(* Parity with a report.  A figure the report does not state is Undefined. *)

withinPct(local, remote, tolerance) == AbsOf(local - remote) * 100 <= tolerance * AbsOf(remote)

compareNumericField(local, remote, tolerance) ==
    CASE remote = Undefined -> "MISSING"
      [] remote # Undefined /\ withinPct(local, remote, tolerance.pass) -> "PASS"
      [] remote # Undefined /\ ~withinPct(local, remote, tolerance.pass) ->
            IF withinPct(local, remote, tolerance.warn) THEN "WARN" ELSE "FAIL"

compareParity(local, reported, tolerance) ==
    LET trades == CASE reported.closedTradeCount = Undefined -> "MISSING"
                    [] reported.closedTradeCount = local.closedTradeCount -> "PASS"
                    [] OTHER -> "FAIL"
        profit == compareNumericField(local.netProfit, reported.netProfit, tolerance)
        drawdown == compareNumericField(local.maxDrawdown, reported.maxDrawdown, tolerance)
        comparisons == <<trades, profit>> \o IF local.maxDrawdown = Undefined THEN << >> ELSE <<drawdown>>
        fields == <<"closedTradeCount", "netProfit", "maxDrawdown">>
        divergent == {k \in DOMAIN comparisons : comparisons[k] \in {"WARN", "FAIL"}}
        severities == ToSet(comparisons) \ {"MISSING"}
    IN  [status |-> CASE severities = {} -> "INSUFFICIENT_DATA"
                      [] "FAIL" \in severities -> "FAIL"
                      [] severities \cap {"FAIL", "WARN"} = {"WARN"} -> "WARN"
                      [] severities = {"PASS"} -> "PASS",
         firstDivergence |-> IF divergent = {} THEN Undefined ELSE fields[Min(divergent)]]

-----------------------------------------------------------------------------
(* Robustness.                                                              *)

WholeLedgerOnly == {"longestLosingStreak", "monthlyReturns"}
toSubsetMetrics(full) == [f \in DOMAIN full \ WholeLedgerOnly |-> full[f]]
isDecided(t) == ~t.isOpen /\ t.netPnl # Undefined

computeTradeRemovalConcentration(trades) ==
    LET closed == {k \in DOMAIN trades : isDecided(trades[k])}
        sorted == PositionsBy(closed, LAMBDA k : trades[k].netPnl, >)
        total == SumFunctionOnSet(pnlOf(trades), closed)
        running(k) == SumFunctionOnSet(pnlOf(trades), {sorted[j] : j \in 1 .. k})
    IN  [totalNetProfit |-> total,
         curve |-> [k \in DOMAIN sorted |->
            [tradeNumber |-> trades[sorted[k]].tradeNumber, netPnl |-> trades[sorted[k]].netPnl,
             cumulativePct |-> IF total = 0 THEN <<0, 1>> ELSE <<running(k), AbsOf(total)>>]]]

only(trades, direction) ==
    toSubsetMetrics(coreMetrics(closedInOrder(trades, {k \in DOMAIN trades : trades[k].direction = direction})))

computeDirectionalBreakdown(trades) == [long |-> only(trades, "LONG"), short |-> only(trades, "SHORT")]

(* (b - c) / |b|, whatever b is. *)
relativeChange(b, c) == <<b[1] * c[2] - c[1] * b[2], c[2] * AbsOf(b[1])>>
computeDegradation(baseline, comparison) ==
    [netProfit |-> Ratio(baseline.netProfit - comparison.netProfit, AbsOf(baseline.netProfit)),
     profitFactor |-> IF Undefined \in {baseline.profitFactor, comparison.profitFactor} THEN Undefined
                      ELSE relativeChange(baseline.profitFactor, comparison.profitFactor),
     winRate |-> LET b == baseline.winRatePct  c == comparison.winRatePct
                 IN  <<b[1] * c[2] - c[1] * b[2], b[2] * c[2]>>]

computeBenchmarkComparison(netProfit, capital, entryPrice, exitPrice) ==
    IF 0 \in {capital, entryPrice} THEN Undefined
    ELSE [strategyReturn |-> <<netProfit, capital>>, benchmarkReturn |-> <<exitPrice - entryPrice, entryPrice>>,
          excessReturn |-> <<netProfit * entryPrice - (exitPrice - entryPrice) * capital, capital * entryPrice>>]

percentileBand(sorted) ==
    LET At(p) == sorted[1 + (2 * p * (Len(sorted) - 1) + 100) \div 200] IN
    [p5 |-> At(5), p25 |-> At(25), p50 |-> At(50), p75 |-> At(75), p95 |-> At(95)]

(* paths: the trades each iteration draws, one sequence of positions each. *)
computeMonteCarloFan(trades, capital, paths) ==
    LET closed == SelectSeq(trades, isDecided)
        Equity(path, n) == capital + Total(1 .. n, LAMBDA j : closed[path[j]].netPnl)
        Peak(path, n) == Max({Equity(path, m) : m \in 0 .. n})
        Fall(path, n) == IF Peak(path, n) > 0
                         THEN <<Peak(path, n) - Equity(path, n), Peak(path, n)>> ELSE <<0, 1>>
        Deepest(path) == LET falls == {Fall(path, n) : n \in 1 .. Len(closed)} \cup {<<0, 1>>}
                         IN  CHOOSE q \in falls : \A r \in falls : ~Less(q, r)
        Sorted(values) == SortedBy(values, LAMBDA q : q, Less)
    IN  IF closed = << >> \/ capital <= 0 THEN Undefined
        ELSE [finalReturn |-> percentileBand(Sorted(
                  [k \in DOMAIN paths |-> <<Equity(paths[k], Len(closed)) - capital, capital>>])),
              maxDrawdown |-> percentileBand(Sorted([k \in DOMAIN paths |-> Deepest(paths[k])]))]

-----------------------------------------------------------------------------
(* Two strategies.                                                          *)

(* The value of the last point of each day. *)
toDailySeries(points) ==
    LET Day(p) == points[p].time \div BarsPerDay
        LastOf(day) == CHOOSE p \in DOMAIN points : Day(p) = day /\ \A q \in DOMAIN points :
                            Day(q) = day => points[q].sequenceNumber <= points[p].sequenceNumber
    IN  [day \in {Day(p) : p \in DOMAIN points} |-> points[LastOf(day)].value]

toReturnSeries(daily) ==
    LET Previous(day) == Max({d \in DOMAIN daily : d < day})
        days == {day \in DOMAIN daily : (\E d \in DOMAIN daily : d < day) /\ daily[Previous(day)] # 0}
    IN  [day \in days |-> <<daily[day] - daily[Previous(day)], AbsOf(daily[Previous(day)])>>]

(* Twice the average rank of each value, a fraction. *)
rank(values) ==
    [i \in DOMAIN values |->
        1 + Cardinality({j \in DOMAIN values : Less(values[j], values[i])})
          + Cardinality({j \in DOMAIN values : ~Less(values[i], values[j])})]

(* The covariance and the two variances, n^2 times each, or Undefined. *)
pearson(a, b) ==
    LET Moment(x, y) == Len(a) * Total(DOMAIN a, LAMBDA i : x[i] * y[i])
                        - Total(DOMAIN a, LAMBDA i : x[i]) * Total(DOMAIN a, LAMBDA i : y[i])
    IN  IF a = << >> THEN Undefined
        ELSE IF 0 \in {Moment(a, a), Moment(b, b)} THEN Undefined
        ELSE [covariance |-> Moment(a, b), variances |-> <<Moment(a, a), Moment(b, b)>>]

computeSpearmanCorrelation(a, b) ==
    IF Len(a) # Len(b) THEN Undefined ELSE pearson(rank(a), rank(b))

computeSeriesCorrelation(seriesA, seriesB, minOverlapDays) ==
    LET overlap == DOMAIN seriesA \cap DOMAIN seriesB
        days == Ascending(overlap)
        union == DOMAIN seriesA \cup DOMAIN seriesB
        OnDays(series) == [k \in DOMAIN days |-> series[days[k]]]
    IN  [coefficient |-> IF Cardinality(overlap) < minOverlapDays THEN Undefined
                         ELSE computeSpearmanCorrelation(OnDays(seriesA), OnDays(seriesB)),
         overlapDays |-> Cardinality(overlap),
         overlapPct |-> IF union = {} THEN <<0, 1>> ELSE <<Cardinality(overlap), Cardinality(union)>>]

computeExposureOverlap(tradesA, tradesB) ==
    LET Shared(pair) ==
            LET a == tradesA[pair[1]]  b == tradesB[pair[2]]
            IN  Max({0, Min({a.exitTime, b.exitTime}) - Max({a.entryTime, b.entryTime})})
        overlap == Total((DOMAIN tradesA) \X (DOMAIN tradesB), Shared)
        InMarket(trades) == Total(DOMAIN trades, LAMBDA k : trades[k].exitTime - trades[k].entryTime)
        union == InMarket(tradesA) + InMarket(tradesB) - overlap
    IN  [overlap |-> overlap, jaccard |-> IF union = 0 THEN <<0, 1>> ELSE Ratio(overlap, union)]

(* A definition's tokens are taken from both of its expressions. *)
computeSignalOverlap(tokensA, tokensB) ==
    LET union == tokensA \cup tokensB IN
    IF union = {} THEN <<0, 1>> ELSE <<Cardinality(tokensA \cap tokensB), Cardinality(union)>>

-----------------------------------------------------------------------------
(* The trades of a forward test's fills.                                    *)

pairPaperFillsIntoTrades(fills) ==
    LET ordered == SortedBy(fills, LAMBDA f : f.sequenceNumber, <)
        Trade(s, f) == [tradeNumber |-> s.count, direction |-> s.pending.direction,
            entryTime |-> s.pending.filledAt, exitTime |-> f.filledAt, isOpen |-> FALSE,
            netPnl |-> (IF s.pending.direction = "LONG" THEN 1 ELSE -1)
                       * (f.filledPrice - s.pending.filledPrice) * s.pending.quantity - s.pending.fees - f.fees]
        Pair(s, f) ==
            CASE f.role = "ENTRY" -> [s EXCEPT !.count = @ + 1, !.pending = f]
              [] f.role = "EXIT" -> IF s.pending = Undefined THEN s
                                    ELSE [s EXCEPT !.trades = Append(@, Trade(s, f)), !.pending = Undefined]
        end == FoldLeft(Pair, [trades |-> << >>, count |-> 0, pending |-> Undefined], ordered)
    IN  IF end.pending = Undefined THEN end.trades
        ELSE Append(end.trades, [tradeNumber |-> end.count, direction |-> end.pending.direction,
                entryTime |-> end.pending.filledAt, exitTime |-> Undefined, isOpen |-> TRUE, netPnl |-> Undefined])

-----------------------------------------------------------------------------
(* What a ledger's figures have to agree on.                                *)

(* A sequence of trades; one that is decided has its result and its exit.  *)
IsLedger(trades) ==
    /\ Len(trades) \in Nat
    /\ DOMAIN trades = 1 .. Len(trades)
    /\ \A k \in DOMAIN trades : trades[k].direction \in {"LONG", "SHORT"}
    /\ \A k \in DOMAIN trades : isDecided(trades[k]) => trades[k].netPnl \in Int /\ trades[k].exitTime \in Int

(* The equity curve, the months, the two directions and the removal curve   *)
(* all add up to the net profit, and no fall exceeds the losses.            *)
FiguresAgree(metrics, equity, drawdown, sides, removal, capital) ==
    /\ Last(equity).equity = capital + metrics.netProfit
    /\ SumFunction(metrics.monthlyReturns) = metrics.netProfit
    /\ sides.long.netProfit + sides.short.netProfit = metrics.netProfit
    /\ sides.long.losingTrades + sides.short.losingTrades = metrics.losingTrades
    /\ removal.totalNetProfit = metrics.netProfit
    /\ metrics.netProfit # 0 =>
          Last(removal.curve).cumulativePct = <<metrics.netProfit, AbsOf(metrics.netProfit)>>
    /\ metrics.longestLosingStreak <= metrics.losingTrades
    /\ drawdown.maxDrawdown <= metrics.grossLoss
    /\ drawdown.maxDrawdown >= capital - Last(equity).equity

FiguresAddUp(trades, capital) ==
    LET equity == reconstructEquityCurve(trades, capital) IN
    FiguresAgree(calculateCoreMetrics(trades), equity, computeDrawdownCurve(equity),
                 computeDirectionalBreakdown(trades), computeTradeRemovalConcentration(trades), capital)

=============================================================================
