--------------------------- MODULE ReportParsing ---------------------------
(***************************************************************************)
(* The files the system reads: TradingView's List of Trades and            *)
(* Performance Summary in either locale, and the platform's own bars.      *)
(*                                                                         *)
(* A file is a sequence of lines and a line a sequence of symbols.  The    *)
(* digits and , ; . - and the quote are symbols of their own; a heading, a *)
(* trade type, a date or any other word is one symbol.  Numbers are read   *)
(* in tenths.                                                              *)
(***************************************************************************)
EXTENDS Values

CONSTANT DateTexts      \* the date words of the two formats, and the time of each

Digits == [c \in {"0", "1", "2", "3", "4", "5", "6", "7", "8", "9"} |->
            CHOOSE n \in 0 .. 9 : ToString(n) = c]

-----------------------------------------------------------------------------
(* Lines, fields and numbers.                                               *)

splitLine(line, delimiter) ==
    LET Read(s, i) ==
            LET ch == line[i]
                Add == [s EXCEPT !.current = Append(@, ch)]
            IN
            CASE s.skip -> [s EXCEPT !.skip = FALSE]
              [] ~s.skip /\ s.quoted ->
                    IF ch # "\"" THEN Add
                    ELSE IF i < Len(line) /\ line[i+1] = "\"" THEN [Add EXCEPT !.skip = TRUE]
                    ELSE [s EXCEPT !.quoted = FALSE]
              [] ~s.skip /\ ~s.quoted ->
                    CASE ch = "\"" -> [s EXCEPT !.quoted = TRUE]
                      [] ch = delimiter -> [s EXCEPT !.fields = Append(@, s.current), !.current = << >>]
                      [] OTHER -> Add
        end == FoldLeft(Read, [fields |-> << >>, current |-> << >>, quoted |-> FALSE, skip |-> FALSE],
                        [i \in DOMAIN line |-> i])
    IN  Append(end.fields, end.current)

detectDelimiter(header) ==
    LET Count(ch) == Cardinality({i \in DOMAIN header : header[i] = ch}) IN
    IF Count(";") > Count(",") THEN ";" ELSE ","

parseCsv(raw) ==
    LET lines == SelectSeq(raw, LAMBDA line : line # << >>)
        delimiter == detectDelimiter(Head(lines))
    IN  IF lines = << >> THEN [delimiter |-> ",", headers |-> << >>, rows |-> << >>]
        ELSE [delimiter |-> delimiter, headers |-> splitLine(Head(lines), delimiter),
              rows |-> [k \in DOMAIN Tail(lines) |-> splitLine(Tail(lines)[k], delimiter)]]

(* Number(text): 0 of nothing, and of a number that is not one Undefined.   *)
toNumber(text) ==
    LET signed == text # << >> /\ Head(text) = "-"
        body == IF signed THEN Tail(text) ELSE text
        point == {i \in DOMAIN body : body[i] = "."}
        whole == SelectSeq(body, LAMBDA ch : ch # ".")
        places == IF point = {} THEN 0 ELSE Len(body) - Min(point)
        value == FoldLeft(LAMBDA n, ch : 10 * n + Digits[ch], 0, whole)
        tenths == IF places = 0 THEN 10 * value ELSE value \div 10^(places - 1)
    IN  IF text = << >> THEN 0
        ELSE IF whole = << >> \/ Cardinality(point) > 1 \/ ~ToSet(whole) \subseteq DOMAIN Digits THEN Undefined
        ELSE IF signed THEN -tenths ELSE tenths

parseLocaleNumber(raw, delimiter) ==
    LET trimmed == SelectSeq(raw, LAMBDA ch : ch \in DOMAIN Digits \cup {".", ",", "-"})
        Without(text, ch) == SelectSeq(text, LAMBDA other : other # ch)
        ungrouped == Without(trimmed, ".")
        european == IF \E i \in DOMAIN ungrouped : ungrouped[i] = ","
                    THEN [ungrouped EXCEPT ![Min({i \in DOMAIN ungrouped : ungrouped[i] = ","})] = "."]
                    ELSE ungrouped
    IN  IF trimmed = << >> THEN Undefined
        ELSE toNumber(IF delimiter = ";" THEN european ELSE Without(trimmed, ","))

parseDateTime(field) ==
    IF Len(field) # 1 THEN Undefined
    ELSE IF field[1] \in DOMAIN DateTexts THEN DateTexts[field[1]] ELSE Undefined

Field(row, index) == IF index \in DOMAIN row THEN row[index] ELSE << >>
Failure(reason) == [ok |-> FALSE, reasonCode |-> reason]

-----------------------------------------------------------------------------
(* List of Trades.                                                          *)

COLUMNS == [tradeNumber |-> {"Trade #"}, type |-> {"Type"}, dateTime |-> {"Date/Time"},
            price |-> {"Price", "Price USDT"}, contracts |-> {"Contracts"},
            profit |-> {"Profit", "Profit USDT"}, profitPct |-> {"Profit %"}]
Optional == {"profit", "profitPct"}

(* The first heading of each column that has one. *)
resolveColumnIndexes(headers) ==
    LET Headed(column) == {i \in DOMAIN headers : Len(headers[i]) = 1 /\ headers[i][1] \in COLUMNS[column]} IN
    [column \in {column \in DOMAIN COLUMNS : Headed(column) # {}} |-> Min(Headed(column))]

directionFromType(type) ==
    CASE type \in {<<"Entry long">>, <<"Exit long">>} -> "LONG"
      [] type \in {<<"Entry short">>, <<"Exit short">>} -> "SHORT"
      [] OTHER -> Undefined
isEntryRow(type) == type \in {<<"Entry long">>, <<"Entry short">>}

(* A row's fields as read, with the warning that drops the row if it has one. *)
readRow(row, col, delimiter) ==
    LET In(column) == Field(row, col[column])
        number == toNumber(In("tradeNumber"))
        direction == directionFromType(In("type"))
        time == parseDateTime(In("dateTime"))
        price == parseLocaleNumber(In("price"), delimiter)
        quantity == parseLocaleNumber(In("contracts"), delimiter)
        InOptional(column) == IF column \in DOMAIN col THEN parseLocaleNumber(In(column), delimiter) ELSE Undefined
    IN  [warning |-> CASE number = Undefined -> "INVALID_TRADE_NUMBER"
                       [] number # Undefined /\ direction = Undefined -> "UNKNOWN_TRADE_TYPE"
                       [] Undefined \notin {number, direction} /\ time = Undefined -> "UNPARSEABLE_DATE"
                       [] Undefined \notin {number, direction, time} ->
                            IF Undefined \in {price, quantity} THEN "UNPARSEABLE_NUMBER" ELSE "NONE",
         tradeNumber |-> number, direction |-> direction, entry |-> isEntryRow(In("type")), time |-> time,
         price |-> price, quantity |-> quantity,
         grossPnl |-> InOptional("profit"), grossPnlPct |-> InOptional("profitPct")]

(* The rows of one trade number: the first says the direction, the last     *)
(* entry and the last exit the rest.  Undefined without an entry.           *)
builtTrade(rows) ==
    LET entries == SelectSeq(rows, LAMBDA r : r.entry)
        exits == SelectSeq(rows, LAMBDA r : ~r.entry)
        OfExit(f) == IF exits = << >> THEN Undefined ELSE Last(exits)[f]
    IN  IF entries = << >> THEN Undefined
        ELSE [tradeNumber |-> rows[1].tradeNumber, direction |-> rows[1].direction,
              entryTime |-> Last(entries).time, entryPrice |-> Last(entries).price,
              quantity |-> Last(entries).quantity, exitTime |-> OfExit("time"), exitPrice |-> OfExit("price"),
              grossPnl |-> OfExit("grossPnl"), grossPnlPct |-> OfExit("grossPnlPct"), isOpen |-> exits = << >>]

readRows(csv, col) == [k \in DOMAIN csv.rows |-> readRow(csv.rows[k], col, csv.delimiter)]

groupByTradeNumber(kept) ==
    [n \in {kept[k].tradeNumber : k \in DOMAIN kept} |->
        builtTrade(SelectSeq(kept, LAMBDA r : r.tradeNumber = n))]

inOrder(built, complete) == [k \in DOMAIN Ascending(complete) |-> built[Ascending(complete)[k]]]

(* What rows say, given the trades of their trade numbers. *)
parsedTrades(rows, built) ==
    LET complete == {n \in DOMAIN built : built[n] # Undefined} IN
    [ok |-> TRUE, trades |-> inOrder(built, complete), rawRowCount |-> Len(rows),
     warnings |-> ({rows[k].warning : k \in DOMAIN rows} \ {"NONE"})
                  \cup (IF complete # DOMAIN built THEN {"INCOMPLETE_TRADE"} ELSE {})
                  \cup (IF \E n \in complete : built[n].isOpen THEN {"OPEN_POSITION_AT_END"} ELSE {})]

parsedRows(rows) == parsedTrades(rows, groupByTradeNumber(SelectSeq(rows, LAMBDA r : r.warning = "NONE")))

parsedTable(csv, col) ==
    IF csv.headers = << >> THEN Failure("EMPTY_FILE")
    ELSE IF ~(DOMAIN COLUMNS) \ Optional \subseteq DOMAIN col THEN Failure("MISSING_REQUIRED_COLUMNS")
    ELSE parsedRows(readRows(csv, col))

parseTable(csv) == parsedTable(csv, resolveColumnIndexes(csv.headers))

parseListOfTrades(raw) == parseTable(parseCsv(raw))

(* The rows of the ledger that the worker writes for the parsed trades. *)
normalisedTrades(trades) ==
    [k \in DOMAIN trades |->
        [tradeNumber |-> trades[k].tradeNumber, direction |-> trades[k].direction,
         entryTime |-> trades[k].entryTime, exitTime |-> trades[k].exitTime,
         entryPrice |-> trades[k].entryPrice, exitPrice |-> trades[k].exitPrice,
         quantity |-> trades[k].quantity, netPnl |-> trades[k].grossPnl, isOpen |-> trades[k].exitTime = Undefined]]

-----------------------------------------------------------------------------
(* Performance Summary.                                                     *)

parsePerformanceSummary(raw) ==
    LET csv == parseCsv(raw)
        titles == {i \in DOMAIN csv.headers : csv.headers[i] = <<"Title">>}
        values == DOMAIN csv.headers \ {Min(titles)}
        named == SelectSeq(csv.rows, LAMBDA row : Field(row, Min(titles)) # << >>)
    IN  IF csv.headers = << >> THEN Failure("EMPTY_FILE")
        ELSE IF titles = {} \/ values = {} THEN Failure("MISSING_REQUIRED_COLUMNS")
        ELSE [ok |-> TRUE, rawRowCount |-> Len(csv.rows),
              metrics |-> [k \in DOMAIN named |->
                [name |-> Field(named[k], Min(titles)),
                 values |-> [header \in {csv.headers[i] : i \in values} |->
                    LET column == Max({i \in values : csv.headers[i] = header}) IN
                    parseLocaleNumber(Field(named[k], column), csv.delimiter)]]]]

(* The first metric of a title, in one column. *)
findValue(metrics, title, column) ==
    LET named == {k \in DOMAIN metrics : metrics[k].name = <<title>>} IN
    IF named = {} THEN Undefined
    ELSE IF column \notin DOMAIN metrics[Min(named)].values THEN Undefined
    ELSE metrics[Min(named)].values[column]

extractReportedParityMetrics(metrics) ==
    LET Found(title) == findValue(metrics, title, <<"All USD">>) IN
    [closedTradeCount |-> Found("Total Closed Trades"), netProfit |-> Found("Net Profit"),
     maxDrawdown |-> Found("Max Drawdown")]

-----------------------------------------------------------------------------
(* Bars.                                                                    *)

BarColumns == {"time", "open", "high", "low", "close", "volume"}

(* The fields of a line at its commas. *)
splitFields(line) ==
    FoldLeft(LAMBDA fields, ch : IF ch = "," THEN Append(fields, << >>)
                                 ELSE [fields EXCEPT ![Len(fields)] = Append(@, ch)], << << >> >>, line)

parseNumber(field) == IF field = << >> THEN Undefined ELSE toNumber(field)

parseOhlcvCsv(raw) ==
    LET lines == SelectSeq(raw, LAMBDA line : line # << >>)
        headers == splitFields(Head(lines))
        Index(column) == Min({i \in DOMAIN headers : headers[i] = <<column>>})
        Read(line) ==
            LET fields == splitFields(line) IN
            [column \in BarColumns |->
                IF column = "time" THEN parseDateTime(Field(fields, Index(column)))
                ELSE parseNumber(Field(fields, Index(column)))]
        read == [k \in DOMAIN Tail(lines) |-> Read(Tail(lines)[k])]
        kept == SelectSeq(read, LAMBDA bar : \A column \in BarColumns : bar[column] # Undefined)
    IN  IF lines = << >> THEN Failure("EMPTY_FILE")
        ELSE IF ~{<<column>> : column \in BarColumns} \subseteq ToSet(headers)
        THEN Failure("MISSING_REQUIRED_COLUMNS")
        ELSE [ok |-> TRUE, rawRowCount |-> Len(Tail(lines)), bars |-> SortedBy(kept, LAMBDA bar : bar.time, <)]

=============================================================================
