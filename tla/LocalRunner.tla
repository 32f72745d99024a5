---------------------------- MODULE LocalRunner ----------------------------
(***************************************************************************)
(* The local Pine runner: what it accepts of a definition, and the         *)
(* bar-by-bar simulation of an accepted one.                               *)
(*                                                                         *)
(* A definition has long and short (token sequences), params (a function   *)
(* from keys to defaults), warmupBars, directions, allowReversal, sizing   *)
(* and size, stop and target, entryOrder, session and slippage; a plan has *)
(* a capital and a commission.  Bars are numbered from 1 and a bar's time  *)
(* is its number.  Money is in whole units, a quotient is rounded down.    *)
(***************************************************************************)
EXTENDS PineExpression

-----------------------------------------------------------------------------
(* What compile accepts.                                                    *)

parameterIsNumeric(d, key) == key \in DOMAIN d.params /\ IsNumber(d.params[key])

signalIsValid(d, tokens) ==
    /\ parseExpression(tokens) # Undefined
    /\ validateExpression(parseExpression(tokens), DOMAIN d.params)

validateAgainstCapabilities(d) ==
    /\ d.entryOrder = "market_next_bar"
    /\ d.stop.type \in {"fixed_percent", "atr_multiple"}
    /\ d.stop.type = "atr_multiple" =>
            parameterIsNumeric(d, d.stop.atrLength) /\ parameterIsNumeric(d, d.stop.value)
    /\ d.target.type \in {"fixed_percent", "none"}
    /\ d.session = "24x7"
    /\ d.slippage = 0

compile(d) ==
    /\ \A tokens \in {d.long, d.short} : signalIsValid(d, tokens)
    /\ validateAgainstCapabilities(d)

-----------------------------------------------------------------------------
(* The simulation.  Its state s has trades, equity, position and pending;   *)
(* c holds what is computed once, before the first bar.                     *)

computeCommission(plan, notional, quantity) ==
    CASE plan.commission = "percent" -> (notional * plan.commissionValue) \div 100
      [] plan.commission = "cash_per_order" -> plan.commissionValue
      [] plan.commission = "cash_per_contract" -> plan.commissionValue * quantity

computeQuantity(d, equity, entryPrice) ==
    CASE d.sizing = "percent_of_equity" -> ((equity * d.size) \div 100) \div entryPrice
      [] d.sizing = "fixed" -> d.size
      [] d.sizing = "cash" -> d.size \div entryPrice

Toward(direction, price, distance) == IF direction = "LONG" THEN price + distance ELSE price - distance
Percent(price, pct) == (price * pct) \div 100

computeStopPrice(c, direction, entryPrice, i) ==
    LET value == c.d.params[c.d.stop.value] IN
    CASE c.d.stop.type = "fixed_percent" -> Toward(direction, entryPrice, -Percent(entryPrice, value))
      [] ~IsNumber(c.atr[i]) -> Undefined
      [] OTHER -> Toward(direction, entryPrice, -(value * c.atr[i]))

computeTargetPrice(c, direction, entryPrice) ==
    IF c.d.target.type = "none" THEN Undefined
    ELSE Toward(direction, entryPrice, Percent(entryPrice, c.d.params[c.d.target.value]))

(* The simulation throws when it cannot resolve a parameter of an entry;    *)
(* compile looks at an atr_multiple stop's only.                            *)
entryThrows(c, direction, i) ==
    \/ ~parameterIsNumeric(c.d, c.d.stop.value)
    \/ /\ computeStopPrice(c, direction, c.bars[i].open, i) # Undefined
       /\ c.d.target.type # "none" /\ ~parameterIsNumeric(c.d, c.d.target.value)

(* The position opened at the bar's open, or Undefined. *)
createPosition(c, s, i, direction) ==
    LET price == c.bars[i].open
        stop == computeStopPrice(c, direction, price, i)
        quantity == computeQuantity(c.d, s.equity, price)
    IN  IF stop = Undefined THEN Undefined
        ELSE [direction |-> direction, entryTime |-> i, entryPrice |-> price, quantity |-> quantity,
              stopPrice |-> stop, targetPrice |-> computeTargetPrice(c, direction, price),
              entryCommission |-> computeCommission(c.plan, price * quantity, quantity)]

closePosition(c, s, exitPrice, i, reason) ==
    LET p == s.position
        fees == p.entryCommission + computeCommission(c.plan, exitPrice * p.quantity, p.quantity)
        gross == Toward(p.direction, 0, exitPrice - p.entryPrice) * p.quantity
    IN  [s EXCEPT !.position = Undefined, !.equity = @ + gross - fees,
            !.trades = Append(@, [sequenceNumber |-> Len(@) + 1, direction |-> p.direction,
                entryTime |-> p.entryTime, entryPrice |-> p.entryPrice, exitTime |-> i,
                exitPrice |-> exitPrice, quantity |-> p.quantity, grossPnl |-> gross, fees |-> fees,
                netPnl |-> gross - fees, exitReason |-> reason, isOpen |-> FALSE])]

(* The pending action is carried out at the open and forgotten. *)
fillPending(c, s, i) ==
    LET reversed == IF s.pending.kind = "REVERSE" /\ s.position # Undefined
                    THEN closePosition(c, s, c.bars[i].open, i, "reversal") ELSE s
        filled == IF reversed.position # Undefined THEN reversed
                  ELSE IF entryThrows(c, s.pending.direction, i) THEN [reversed EXCEPT !.failed = TRUE]
                  ELSE [reversed EXCEPT !.position = createPosition(c, reversed, i, s.pending.direction)]
    IN  IF s.pending = Undefined THEN s ELSE [filled EXCEPT !.pending = Undefined]

(* A stop is filled before a target that the same bar reaches. *)
exitOnBar(c, s, i) ==
    LET bar == c.bars[i]
        p == s.position
        Reaches(price, up) == IF up THEN bar.high >= price ELSE bar.low <= price
    IN
    CASE p = Undefined -> s
      [] p # Undefined /\ Reaches(p.stopPrice, p.direction = "SHORT") ->
            closePosition(c, s, p.stopPrice, i, "stop_loss")
      [] p # Undefined /\ ~Reaches(p.stopPrice, p.direction = "SHORT") ->
            IF p.targetPrice # Undefined /\ Reaches(p.targetPrice, p.direction = "LONG")
            THEN closePosition(c, s, p.targetPrice, i, "take_profit") ELSE s

(* The signals of a confirmed bar set the action of the next one. *)
signalOnBar(c, s, i) ==
    LET Signals(direction, series) == series[i] = Yes /\ direction \in c.d.directions
        long == Signals("LONG", c.long)
        short == Signals("SHORT", c.short)
        Pend(kind, direction) == [s EXCEPT !.pending = [kind |-> kind, direction |-> direction]]
    IN
    CASE i <= c.d.warmupBars -> s
      [] i > c.d.warmupBars /\ s.position = Undefined ->
            IF long THEN Pend("ENTER", "LONG") ELSE IF short THEN Pend("ENTER", "SHORT") ELSE s
      [] i > c.d.warmupBars /\ s.position # Undefined ->
            CASE c.d.allowReversal /\ s.position.direction = "LONG" /\ short -> Pend("REVERSE", "SHORT")
              [] c.d.allowReversal /\ s.position.direction = "SHORT" /\ long -> Pend("REVERSE", "LONG")
              [] OTHER -> s

prepare(bars, d, plan) ==
    [bars |-> bars, d |-> d, plan |-> plan,
     long |-> evaluateSeries(parseExpression(d.long), bars, d.params),
     short |-> evaluateSeries(parseExpression(d.short), bars, d.params),
     atr |-> IF d.stop.type = "atr_multiple"
             THEN evaluateSeries(Call("ta.atr", <<Number(d.params[d.stop.atrLength])>>), bars, d.params)
             ELSE Undefined]

runBars(c) ==
    LET OnBar(s, i) == IF s.failed THEN s ELSE signalOnBar(c, exitOnBar(c, fillPending(c, s, i), i), i)
        start == [trades |-> << >>, equity |-> c.plan.capital, position |-> Undefined, pending |-> Undefined,
                  failed |-> FALSE]
    IN  FoldLeft(OnBar, start, [i \in DOMAIN c.bars |-> i])

(* A position that is still open at the end is the last of the trades.     *)
result(s) ==
    LET p == s.position
        open == IF p = Undefined THEN << >>
                ELSE <<[sequenceNumber |-> Len(s.trades) + 1, direction |-> p.direction,
                        entryTime |-> p.entryTime, entryPrice |-> p.entryPrice, exitTime |-> Undefined,
                        exitPrice |-> Undefined, quantity |-> p.quantity, grossPnl |-> Undefined,
                        fees |-> p.entryCommission, netPnl |-> Undefined, exitReason |-> Undefined,
                        isOpen |-> TRUE]>>
    IN  [ok |-> ~s.failed, trades |-> s.trades \o open]

(* The trades of the whole window.  Not ok where the source throws, and run *)
(* ends with SIMULATION_ERROR.                                              *)
simulate(bars, d, plan) == result(runBars(prepare(bars, d, plan)))

=============================================================================
