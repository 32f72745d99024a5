--------------------------- MODULE MCCalculations ---------------------------
(* Four shapes of bar and five definitions: one that trades the colour of   *)
(* the bar, two that use functions and offsets, one whose signal names no   *)
(* parameter and is refused, and its later version, whose target names none *)
(* and throws.                                                              *)
EXTENDS Calculations

Bar(open, high, low, close) == [open |-> open, high |-> high, low |-> low, close |-> close, volume |-> 1]
MCShapes == {Bar(20, 24, 20, 24), Bar(20, 20, 16, 16), Bar(20, 24, 16, 20), Bar(24, 26, 22, 22)}

Sym(s) == [type |-> s]
Id(name) == [type |-> "IDENT", value |-> name]
Num(n) == [type |-> "NUMBER", value |-> n]
Apply(f, args) == <<Id(f), Sym("(")>> \o args \o <<Sym(")")>>
Of(f, length) == Apply(f, <<Id("close"), Sym(","), length>>)
CloseVs(op, right) == <<Id("close"), Sym(op)>> \o right
Before(n) == <<Id("close"), Sym("["), Num(n), Sym("]")>>

Definition(long, short, stop, target, sizing, size, warmup, strategy, symbol) ==
    [long |-> long, short |-> short, params |-> [pct |-> 10, length |-> 2, multiple |-> 1],
     stop |-> stop, target |-> target, sizing |-> sizing, size |-> size, warmupBars |-> warmup,
     directions |-> {"LONG", "SHORT"}, allowReversal |-> warmup = 0,
     entryOrder |-> "market_next_bar", session |-> "24x7", slippage |-> 0,
     strategy |-> strategy, symbol |-> symbol]

FixedStop == [type |-> "fixed_percent", value |-> "pct"]
AtrStop == [type |-> "atr_multiple", value |-> "multiple", atrLength |-> "length"]
NoTarget == [type |-> "none"]

MCDefinitions ==
    <<Definition(CloseVs(">", <<Id("open")>>), CloseVs("<", <<Id("open")>>), FixedStop, FixedStop,
                 "percent_of_equity", 50, 0, "colour", "BTC"),
      Definition(Before(1) \o <<Sym("<"), Id("close"), Sym("or")>>
                     \o CloseVs("<=", Of("ta.lowest", Num(2))),
                 Apply("ta.crossunder", <<Id("close"), Sym(",")>> \o Of("ta.sma", Id("length"))),
                 AtrStop, NoTarget, "fixed", 1000, 0, "channel", "BTC"),
      Definition(<<Sym("not")>> \o Before(2) \o <<Sym(">")>> \o Of("ta.ema", Num(2)),
                 Of("ta.rsi", Num(1)) \o <<Sym(">"), Num(40), Sym("*"), Num(1), Sym("+"), Num(10)>>,
                 FixedStop, NoTarget, "cash", 20000, 1, "momentum", "ETH"),
      Definition(CloseVs(">", <<Id("threshold")>>), CloseVs("<", <<Id("open")>>), FixedStop, FixedStop,
                 "fixed", 10, 0, "unset", "ETH"),
      Definition(CloseVs(">", <<Id("open")>>), <<Sym("false")>>, FixedStop,
                 [type |-> "fixed_percent", value |-> "undeclared"], "fixed", 10, 0, "unset", "ETH")>>

MCPlan == [capital |-> 40000, commission |-> "percent", commissionValue |-> 1]

Iso == <<"2024-01-01 00:00", "2024-01-01 12:00", "2024-01-02 00:00", "2024-01-02 12:00", "2024-01-03 00:00">>
Eu == <<"01.01.2024 00:00", "01.01.2024 12:00", "02.01.2024 00:00", "02.01.2024 12:00", "03.01.2024 00:00">>
MCDateTexts ==
    [word \in ToSet(Iso) \cup ToSet(Eu) |-> CHOOSE t \in 1 .. 5 : word \in {Iso[t], Eu[t]}]
MCLocales == {[delimiter |-> ",", point |-> ".", group |-> ",", dates |-> ToSet(Iso)],
              [delimiter |-> ";", point |-> ",", group |-> ".", dates |-> ToSet(Eu)]}
=============================================================================
