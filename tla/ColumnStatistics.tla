--------------------------- MODULE ColumnStatistics ---------------------------
(***************************************************************************)
(* calculate_statistics (data_agent/services/file_statistics.py): the sum  *)
(* of one column of a whole table, in one pass over its rows that stops at *)
(* the first fault.  What a cell says is reduced to its kind and, for a    *)
(* number, its value: "literal" is a JSON number out of the supported      *)
(* precision, "digits" a string of digits out of it, "formula" a text that *)
(* starts like a spreadsheet formula, "nested" a list or an object.        *)
(***************************************************************************)
EXTENDS Integers, Sequences, FiniteSets, Functions

CONSTANTS MaxRows, MaxColumns, MaxCells

ASSUME StatisticsAssumption ==
    MaxRows \in Nat /\ MaxColumns \in Nat /\ MaxCells \in Nat

Scalars == {"number", "missing", "string", "boolean", "literal", "digits",
            "formula", "nested"}
Cell(kind) == [kind |-> kind, value |-> 0]
Number(n) == [kind |-> "number", value |-> n]

\* _kind: digits out of range are a string like any other.
KindOf(cell) == IF cell.kind \in {"digits", "formula"} THEN "string" ELSE cell.kind

Fault(code) == [ok |-> FALSE, code |-> code]

\* What a file can say.  Every cell of a CSV file is a text.
IsTable(table) ==
    /\ table \in [media : STRING, names : Seq(STRING),
                  rows : Seq(Seq([kind : Scalars, value : Int]))]
    /\ table.media = "csv" => \A i \in DOMAIN table.rows : \A j \in DOMAIN table.rows[i] :
          table.rows[i][j].kind \notin {"boolean", "literal", "nested"}

-----------------------------------------------------------------------------
(* The table as it is opened: what is refused before its rows are read.     *)

FormulaHeader(table) ==
    table.media = "csv" /\ \E j \in DOMAIN table.names : table.names[j] = "=formula"

\* _columns, and the header of a CSV file read as a row of texts.
NamesFault(table) ==
    IF table.names = << >> \/ Len(table.names) > MaxColumns THEN "analysis_table_limit"
    ELSE IF ~IsInjective(table.names) THEN "analysis_invalid_columns"
    ELSE IF FormulaHeader(table) THEN "unsafe_csv_formula"
    ELSE ""

\* json.loads refuses a number out of range wherever it stands; the rows of a
\* JSON table are counted before its columns are read.
OpenFault(table) ==
    IF table.media \notin {"csv", "json"} THEN "analysis_unsupported_type"
    ELSE IF table.media = "csv" THEN NamesFault(table)
    ELSE IF \E i \in DOMAIN table.rows :
               \E j \in DOMAIN table.rows[i] : table.rows[i][j].kind = "literal"
         THEN "analysis_numeric_range"
    ELSE IF table.rows = << >> THEN "analysis_invalid_table"
    ELSE IF Len(table.rows) > MaxRows THEN "analysis_table_limit"
    ELSE NamesFault(table)

-----------------------------------------------------------------------------
(* The pass over the rows.                                                  *)

\* What the loop checks of a row, in the order of the loop.
RowFault(table, c, n) ==
    LET row == table.rows[n] IN
    IF n > MaxRows \/ n * Len(table.names) > MaxCells THEN "analysis_table_limit"
    ELSE IF Len(row) # Len(table.names) THEN "analysis_invalid_table"
    ELSE IF table.media = "csv" /\ \E j \in DOMAIN row : row[j].kind = "formula"
         THEN "unsafe_csv_formula"
    ELSE IF \E j \in DOMAIN row : row[j].kind = "nested" THEN "analysis_invalid_table"
    ELSE IF row[c].kind \in {"string", "boolean", "formula"} THEN "analysis_non_numeric"
    ELSE IF row[c].kind = "digits" THEN "analysis_numeric_range"
    ELSE ""

Start(table) ==
    [ok |-> TRUE, code |-> "", rows |-> 0, valid |-> 0, duplicates |-> 0, seen |-> {},
     total |-> 0, least |-> 0, most |-> 0,
     missing |-> [j \in DOMAIN table.names |-> 0],
     kinds |-> [j \in DOMAIN table.names |-> {}]]

Smaller(a, b) == IF a < b THEN a ELSE b
Greater(a, b) == IF a > b THEN a ELSE b

\* A missing value of the column counts the row but adds nothing.
AddNumber(acc, cell) ==
    IF cell.kind = "missing" THEN acc
    ELSE [acc EXCEPT
            !.valid = @ + 1,
            !.total = @ + cell.value,
            !.least = IF acc.valid = 0 THEN cell.value ELSE Smaller(@, cell.value),
            !.most = IF acc.valid = 0 THEN cell.value ELSE Greater(@, cell.value)]

\* Mutation: a repeated row is dropped instead of being counted and added.
AddDistinctRow(acc, row, c) ==
    IF row \in acc.seen
    THEN [acc EXCEPT !.rows = @ + 1, !.duplicates = @ + 1]
    ELSE AddNumber([acc EXCEPT
        !.rows = @ + 1,
        !.missing = [j \in DOMAIN @ |-> @[j] + (IF row[j].kind = "missing" THEN 1 ELSE 0)],
        !.kinds = [j \in DOMAIN @ |-> @[j] \cup ({KindOf(row[j])} \ {"missing"})],
        !.seen = @ \cup {row}], row[c])

AddRow(acc, row, c) ==
    AddNumber([acc EXCEPT
        !.rows = @ + 1,
        !.missing = [j \in DOMAIN @ |-> @[j] + (IF row[j].kind = "missing" THEN 1 ELSE 0)],
        !.kinds = [j \in DOMAIN @ |-> @[j] \cup ({KindOf(row[j])} \ {"missing"})],
        !.duplicates = @ + (IF row \in acc.seen THEN 1 ELSE 0),
        !.seen = @ \cup {row}], row[c])

\* scan[n] is what the loop holds after n rows.
Scan(table, c) ==
    LET scan[n \in 0..Len(table.rows)] ==
          IF n = 0 THEN Start(table)
          ELSE IF ~scan[n - 1].ok THEN scan[n - 1]
          ELSE IF RowFault(table, c, n) # "" THEN Fault(RowFault(table, c, n))
          ELSE AddRow(scan[n - 1], table.rows[n], c)
    IN scan[Len(table.rows)]

\* The sum of the column of this name, or the code of what is wrong.
Calculate(table, column) ==
    IF OpenFault(table) # "" THEN Fault(OpenFault(table))
    ELSE IF ~\E c \in DOMAIN table.names : table.names[c] = column
    THEN Fault("analysis_column_not_found")
    ELSE LET c == CHOOSE i \in DOMAIN table.names : table.names[i] = column
             end == Scan(table, c)
         IN IF ~end.ok THEN end
            ELSE IF end.rows = 0 THEN Fault("analysis_invalid_table")
            ELSE IF end.valid = 0 THEN Fault("analysis_no_numeric_values")
            ELSE end

-----------------------------------------------------------------------------
(* What the pass is meant to compute, said of the table as a whole.         *)

NumberRows(table, c) == {i \in DOMAIN table.rows : table.rows[i][c].kind = "number"}

\* The numbers of a column in a set of rows, added up in any order.
SumOver(table, c, rows) ==
    FoldFunctionOnSet(+, 0, [i \in DOMAIN table.rows |-> table.rows[i][c].value], rows)

\* An answer accounts for every row of the table, well formed and repeated or
\* not, and its sum, bounds and counts are those of the numbers of the column.
AnswerExact(table, column, answer) ==
    LET c == CHOOSE i \in DOMAIN table.names : table.names[i] = column
        good == NumberRows(table, c)
        values == {table.rows[i][c].value : i \in good}
        distinct == {table.rows[i] : i \in DOMAIN table.rows}
    IN /\ \A i \in DOMAIN table.rows : Len(table.rows[i]) = Len(table.names)
       /\ answer.rows = Len(table.rows) /\ answer.rows <= MaxRows
       /\ answer.valid = Cardinality(good) /\ good # {}
       /\ answer.total = SumOver(table, c, good)
       /\ answer.valid + answer.missing[c] = answer.rows
       /\ answer.duplicates = answer.rows - Cardinality(distinct)
       /\ answer.least \in values /\ answer.most \in values
       /\ \A v \in values : answer.least <= v /\ v <= answer.most
       /\ \A j \in DOMAIN table.names : answer.kinds[j] =
             {KindOf(table.rows[i][j]) : i \in DOMAIN table.rows} \ {"missing"}

\* A refusal is not given to a table that could have been summed.
Summable(table, column) ==
    /\ table.media \in {"csv", "json"} /\ ~FormulaHeader(table)
    /\ table.names # << >> /\ Len(table.names) <= MaxColumns /\ IsInjective(table.names)
    /\ Len(table.rows) <= MaxRows /\ Len(table.rows) * Len(table.names) <= MaxCells
    /\ \E c \in DOMAIN table.names :
          /\ table.names[c] = column
          /\ \A i \in DOMAIN table.rows :
                /\ Len(table.rows[i]) = Len(table.names)
                /\ table.rows[i][c].kind \in {"number", "missing"}
                /\ \A j \in DOMAIN table.names : table.rows[i][j].kind \notin
                      {"nested", IF table.media = "json" THEN "literal" ELSE "formula"}
          /\ \E i \in DOMAIN table.rows : table.rows[i][c].kind = "number"

Exact(table, column, answer) ==
    IF answer.ok THEN AnswerExact(table, column, answer)
    ELSE ~Summable(table, column)
=============================================================================
