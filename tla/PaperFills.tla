----------------------------- MODULE PaperFills -----------------------------
(***************************************************************************)
(* What the paper engine computes of a deployment's signals, processed one *)
(* after another: the size, price and fees of each fill, and the curve     *)
(* that sizes the next entry.  ForwardPaper has the transactions that run  *)
(* at once.                                                                *)
(*                                                                         *)
(* A signal has an event, a direction (Undefined of a stop or a target), a *)
(* price and a sentAt; a fill model its quantityModel, slippageModel,      *)
(* commissionModel and latency.  Percentages are rounded down.             *)
(***************************************************************************)
EXTENDS LedgerMetrics

resolveCurrentEquity(equity, capital) == IF equity = << >> THEN capital ELSE Last(equity).equity

resolveQuantity(model, price, currentEquity) ==
    CASE model.type = "percent_of_equity" -> ((currentEquity * model.value) \div 100) \div price
      [] model.type = "fixed" -> model.value
      [] model.type = "cash" -> model.value \div price

(* Mutant: an entry is the side where worse is higher, of a short too. *)
applySlippage_OfLong(price, model, direction, side) ==
    LET delta == IF model.type = "fixed_percent" THEN (price * model.value) \div 100 ELSE model.value
    IN  IF side = "ENTRY" THEN price + delta ELSE price - delta

(* Slippage moves the price against the trader. *)
applySlippage(price, model, direction, side) ==
    LET delta == IF model.type = "fixed_percent" THEN (price * model.value) \div 100 ELSE model.value
        worseIsHigher == <<direction, side>> \in {<<"LONG", "ENTRY">>, <<"SHORT", "EXIT">>}
    IN  IF worseIsHigher THEN price + delta ELSE price - delta

computeFees(price, quantity, model) ==
    IF model.type = "percent" THEN (price * quantity * model.value) \div 100 ELSE model.value

(* The last entry, while there are more entries than exits. *)
findOpenPosition(fills) ==
    LET OfRole(role) == {k \in DOMAIN fills : fills[k].role = role} IN
    IF Cardinality(OfRole("ENTRY")) <= Cardinality(OfRole("EXIT")) THEN Undefined
    ELSE fills[Max(OfRole("ENTRY"))]

nextSequenceNumber(fills) == Max({0} \cup {fills[k].sequenceNumber : k \in DOMAIN fills}) + 1

(* A closing fill recomputes the curve from every fill so far. *)
recomputeForwardCurves(fills, capital) == reconstructEquityCurve(pairPaperFillsIntoTrades(fills), capital)

(* d, a deployment, has its fills, the points of its equity and the reasons *)
(* of the signals it rejected.                                             *)
handleForwardSignalProcessing(d, signal, model, capital) ==
    LET open == findOpenPosition(d.fills)
        isEntry == signal.event \in {"ENTRY_LONG", "ENTRY_SHORT"}
        Reject(reason) == [d EXCEPT !.rejected = Append(@, reason)]
        Fill(role, direction, quantity) ==
            LET price == applySlippage(signal.price, model.slippageModel, direction, role) IN
            [sequenceNumber |-> nextSequenceNumber(d.fills), role |-> role, direction |-> direction,
             quantity |-> quantity, filledPrice |-> price,
             fees |-> computeFees(price, quantity, model.commissionModel), filledAt |-> signal.sentAt + model.latency]
        entered == Append(d.fills, Fill("ENTRY", signal.direction,
                        resolveQuantity(model.quantityModel, signal.price, resolveCurrentEquity(d.equity, capital))))
        exited == Append(d.fills, Fill("EXIT", open.direction, open.quantity))
    IN
    CASE isEntry /\ open # Undefined -> Reject("POSITION_ALREADY_OPEN")
      [] isEntry /\ open = Undefined -> [d EXCEPT !.fills = entered]
      [] ~isEntry /\ open = Undefined -> Reject("NO_OPEN_POSITION")
      [] ~isEntry /\ open # Undefined ->
            IF signal.direction \notin {Undefined, open.direction} THEN Reject("DIRECTION_MISMATCH")
            ELSE [d EXCEPT !.fills = exited, !.equity = recomputeForwardCurves(exited, capital)]

processSignals(signals, model, capital) ==
    FoldLeft(LAMBDA d, signal : handleForwardSignalProcessing(d, signal, model, capital),
             [fills |-> << >>, equity |-> << >>, rejected |-> << >>], signals)

=============================================================================
