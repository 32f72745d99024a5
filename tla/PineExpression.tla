--------------------------- MODULE PineExpression ---------------------------
(***************************************************************************)
(* The signal expressions of a strategy definition: their grammar, the     *)
(* check made when a definition is compiled, and their value at every bar. *)
(*                                                                         *)
(* A series has one value per bar: a number, Yes, No or Undefined.  Prices *)
(* are integers and a quotient is rounded down.  A token is a record whose *)
(* type is its own text, or "NUMBER" or "IDENT" with a value.  The default *)
(* of a parameter that is text is Undefined.                               *)
(***************************************************************************)
EXTENDS Values

CONSTANTS Yes, No

Truth(b) == IF b THEN Yes ELSE No
IsNumber(v) == v \in Int
AllNumbers(series, window) == \A k \in window : IsNumber(series[k])
Everywhere(v, bars) == [i \in DOMAIN bars |-> v]

-----------------------------------------------------------------------------
(* The grammar.                                                             *)

Number(n) == [kind |-> "Number", value |-> n]
Bool(b) == [kind |-> "Bool", value |-> b]
Identifier(name) == [kind |-> "Identifier", name |-> name]
Unary(op, operand) == [kind |-> "Unary", operator |-> op, operand |-> operand]
Binary(op, left, right) == [kind |-> "Binary", operator |-> op, left |-> left, right |-> right]
Offset(expr, n) == [kind |-> "Offset", expr |-> expr, offset |-> n]
Call(callee, args) == [kind |-> "Call", callee |-> callee, args |-> args]

Comparisons == {">", "<", ">=", "<=", "==", "!="}
(* The binary operators of each level, the loosest first; NOT is level 3.   *)
OperatorsAt == <<{"or"}, {"and"}, {}, Comparisons, {"+", "-"}, {"*", "/"}>>

(* The readings of a whole sequence of tokens: none or one expression.  The *)
(* tokens i to j are read at a level; at level 10, as arguments of a call.  *)
Parse(ts) ==
    LET read[level \in 1 .. 10, i \in 1 .. Len(ts) + 1, j \in 0 .. Len(ts)] ==
            LET tighter == read[level + 1, i, j]
                leftLevel == IF level = 4 THEN 5 ELSE level
                splits == {k \in i + 1 .. j - 1 : ts[k].type \in OperatorsAt[level]}
                commas == {k \in i .. j : ts[k].type = ","}
            IN
            CASE level = 10 ->
                    IF i > j THEN {<< >>}
                    ELSE {<<e>> : e \in read[1, i, j]} \cup
                         UNION {{<<e>> \o rest : e \in read[1, i, k - 1], rest \in read[10, k + 1, j] \ {<< >>}} :
                                k \in commas}
              [] level # 10 /\ i > j -> {}
              [] level \in {1, 2, 4, 5, 6} /\ i <= j ->
                    tighter \cup UNION {{Binary(ts[k].type, l, r) :
                        l \in read[leftLevel, i, k - 1], r \in read[level + 1, k + 1, j]} : k \in splits}
              [] level = 3 /\ i <= j ->
                    tighter \cup (IF ts[i].type = "not" THEN {Unary("not", e) : e \in read[3, i + 1, j]} ELSE {})
              [] level = 7 /\ i <= j ->
                    tighter \cup (IF ts[i].type = "-" THEN {Unary("-", e) : e \in read[7, i + 1, j]} ELSE {})
              [] level = 8 /\ i <= j ->
                    tighter \cup (IF j - 3 >= i /\ ts[j].type = "]" /\ ts[j-1].type = "NUMBER" /\ ts[j-2].type = "["
                                  THEN {Offset(e, ts[j-1].value) : e \in read[8, i, j - 3]} ELSE {})
              [] level = 9 /\ i <= j ->
                    CASE i = j /\ ts[i].type = "NUMBER" -> {Number(ts[i].value)}
                      [] i = j /\ ts[i].type \in {"true", "false"} -> {Bool(Truth(ts[i].type = "true"))}
                      [] i = j /\ ts[i].type = "IDENT" -> {Identifier(ts[i].value)}
                      [] i < j /\ ts[i].type = "(" /\ ts[j].type = ")" -> read[1, i + 1, j - 1]
                      [] i + 1 < j /\ ts[i].type = "IDENT" /\ ts[i+1].type = "(" /\ ts[j].type = ")" ->
                            {Call(ts[i].value, args) : args \in read[10, i + 2, j - 1]}
                      [] OTHER -> {}
    IN  read[1, 1, Len(ts)]

(* Undefined where the source throws a syntax error. *)
parseExpression(ts) ==
    IF Parse(ts) = {} THEN Undefined ELSE CHOOSE e \in Parse(ts) : TRUE

(* The expressions an expression is made of. *)
operands(node) ==
    CASE node.kind \in {"Number", "Bool", "Identifier"} -> << >>
      [] node.kind = "Unary" -> <<node.operand>>
      [] node.kind = "Offset" -> <<node.expr>>
      [] node.kind = "Binary" -> <<node.left, node.right>>
      [] node.kind = "Call" -> node.args

-----------------------------------------------------------------------------
(* The check at compile time.                                               *)

OhlcvFields == {"open", "high", "low", "close", "volume"}
ArgCount == [f \in {"ta.sma", "ta.ema", "ta.rsi", "ta.crossover", "ta.crossunder",
                    "ta.highest", "ta.lowest", "ta.atr"} |-> IF f = "ta.atr" THEN 1 ELSE 2]

RECURSIVE validateExpression(_, _)
validateExpression(node, keys) ==
    /\ node.kind = "Identifier" => node.name \in OhlcvFields \cup keys
    /\ node.kind = "Call" => /\ node.callee \in DOMAIN ArgCount
                            /\ Len(node.args) = ArgCount[node.callee]
    /\ \A a \in DOMAIN operands(node) : validateExpression(operands(node)[a], keys)

-----------------------------------------------------------------------------
(* Series.                                                                  *)

Window(i, length) == i - length + 1 .. i

windowedAverage(source, length) ==
    [i \in DOMAIN source |->
        IF i >= length /\ AllNumbers(source, Window(i, length))
        THEN FoldFunctionOnSet(+, 0, source, Window(i, length)) \div length ELSE Undefined]

(* alpha = num / den, from the first average on. *)
smoothedAverage(source, length, num, den) ==
    LET seed == windowedAverage(source, length)
        previous[i \in 0 .. Len(source)] ==
            IF i = 0 THEN Undefined
            ELSE IF previous[i-1] = Undefined THEN seed[i]
            ELSE IF IsNumber(source[i]) THEN (source[i] * num + previous[i-1] * (den - num)) \div den
            ELSE previous[i-1]
    IN  [i \in DOMAIN source |-> IF IsNumber(source[i]) THEN previous[i] ELSE Undefined]

exponentialAverage(source, length) == smoothedAverage(source, length, 2, length + 1)
wilderAverage(source, length) == smoothedAverage(source, length, 1, length)

(* side: the largest or the smallest of each window. *)
windowedExtreme(source, length, side) ==
    [i \in DOMAIN source |->
        IF i >= length /\ AllNumbers(source, Window(i, length))
        THEN LET window == {source[k] : k \in Window(i, length)} IN
             IF side = "max" THEN Max(window) ELSE Min(window)
        ELSE Undefined]

trueRangeSeries(bars) ==
    [i \in DOMAIN bars |->
        LET b == bars[i] IN
        IF i = 1 THEN b.high - b.low
        ELSE Max({b.high - b.low, AbsOf(b.high - bars[i-1].close), AbsOf(b.low - bars[i-1].close)})]

(* Mutant: the series is shifted the other way. *)
shiftSeries_Ahead(source, offset) ==
    [i \in DOMAIN source |-> IF i + offset <= Len(source) THEN source[i + offset] ELSE Undefined]

shiftSeries(source, offset) ==
    [i \in DOMAIN source |-> IF i > offset THEN source[i - offset] ELSE Undefined]

relativeStrengthIndex(source, length) ==
    LET Sum(i, S) == FoldFunctionOnSet(+, 0, [k \in S |-> AbsOf(source[k] - source[k-1])], S) IN
    [i \in DOMAIN source |->
        IF i <= length \/ ~AllNumbers(source, i - length .. i) THEN Undefined
        ELSE LET rises == {k \in Window(i, length) : source[k] >= source[k-1]}
                 gain == Sum(i, rises)
                 loss == Sum(i, Window(i, length) \ rises)
             IN  IF loss = 0 THEN 100 ELSE (100 * gain) \div (gain + loss)]

crossSeries(a, b, direction) ==
    [i \in DOMAIN a |-> Truth(
        /\ i > 1 /\ AllNumbers(a, {i - 1, i}) /\ AllNumbers(b, {i - 1, i})
        /\ IF direction = "over" THEN a[i-1] <= b[i-1] /\ a[i] > b[i]
                                 ELSE a[i-1] >= b[i-1] /\ a[i] < b[i])]

(* The first number of a series that should not vary, wherever it is. *)
constantNumber(series) ==
    LET numbers == {i \in DOMAIN series : IsNumber(series[i])} IN
    IF numbers = {} THEN Undefined ELSE series[Min(numbers)]

combineBinary(op, l, r) ==
    CASE op = "and" -> IF No \in {l, r} THEN No ELSE IF {l, r} = {Yes} THEN Yes ELSE Undefined
      [] op = "or" -> IF Yes \in {l, r} THEN Yes ELSE IF {l, r} = {No} THEN No ELSE Undefined
      [] ~IsNumber(l) \/ ~IsNumber(r) -> Undefined
      [] op = "+" -> l + r
      [] op = "-" -> l - r
      [] op = "*" -> l * r
      [] op = "/" -> IF r = 0 THEN Undefined ELSE IF r < 0 THEN (-l) \div (-r) ELSE l \div r
      [] op \in Comparisons -> Truth(
            CASE op = ">" -> l > r [] op = "<" -> l < r [] op = ">=" -> l >= r
              [] op = "<=" -> l <= r [] op = "==" -> l = r [] op = "!=" -> l # r)

applyFunction(callee, args, bars) ==
    LET length == constantNumber(Last(args)) IN
    CASE callee = "ta.crossover" -> crossSeries(args[1], args[2], "over")
      [] callee = "ta.crossunder" -> crossSeries(args[1], args[2], "under")
      [] length = Undefined -> Everywhere(Undefined, bars)
      [] length < 1 -> Everywhere(Undefined, bars)
      [] callee = "ta.atr" -> wilderAverage(trueRangeSeries(bars), length)
      [] callee = "ta.sma" -> windowedAverage(args[1], length)
      [] callee = "ta.ema" -> exponentialAverage(args[1], length)
      [] callee = "ta.highest" -> windowedExtreme(args[1], length, "max")
      [] callee = "ta.lowest" -> windowedExtreme(args[1], length, "min")
      [] callee = "ta.rsi" -> relativeStrengthIndex(args[1], length)

RECURSIVE evaluateSeries(_, _, _)
evaluateSeries(node, bars, params) ==
    LET series == [a \in DOMAIN operands(node) |-> evaluateSeries(operands(node)[a], bars, params)] IN
    CASE node.kind \in {"Number", "Bool"} -> Everywhere(node.value, bars)
      [] node.kind = "Identifier" ->
            IF node.name \in OhlcvFields THEN [i \in DOMAIN bars |-> bars[i][node.name]]
            ELSE Everywhere(params[node.name], bars)
      [] node.kind = "Unary" ->
            [i \in DOMAIN bars |->
                CASE node.operator = "-" /\ IsNumber(series[1][i]) -> -series[1][i]
                  [] node.operator = "not" /\ series[1][i] \in {Yes, No} -> Truth(series[1][i] = No)
                  [] OTHER -> Undefined]
      [] node.kind = "Binary" ->
            [i \in DOMAIN bars |-> combineBinary(node.operator, series[1][i], series[2][i])]
      [] node.kind = "Offset" -> shiftSeries(series[1], node.offset)
      [] node.kind = "Call" -> applyFunction(node.callee, series, bars)
=============================================================================
