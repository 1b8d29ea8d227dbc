------------------------------ MODULE VendorTables ------------------------------
(***************************************************************************)
(* The source file of a vendor import: parseVendorRows of the worker reads *)
(* it, as a CSV text or as the first sheet of an XLSX workbook, and the    *)
(* loop of the job judges every row it finds.                              *)
(*                                                                         *)
(* A text is a sequence of words and separators.  Left out: the column of  *)
(* the registration number, which is read like the others and judged by    *)
(* nobody, the Korean aliases, rawData and CR before LF.  A sheet is the   *)
(* matrix of cells that sheet_to_json returns.                             *)
(***************************************************************************)
EXTENDS Integers, SequencesExt, FiniteSetsExt

CONSTANTS
  LowerCase,  \* word -> the same in lower case, for the words that have one
  UpperCase,  \* word -> the same in upper case
  Words,      \* the words and separators that stand in the cells of a table
  Tables      \* the tables that are written to files: a header and the rows under it

Comma == ","
Quote == "\""
Blank == " "
Newline == "\n"

ASSUME VendorTablesAssumption ==
  /\ Newline \notin Words
  /\ Tables \subseteq Seq(Seq(Seq(Words)))

Cased(case, text) ==
  [i \in DOMAIN text |-> IF text[i] \in DOMAIN case THEN case[text[i]] ELSE text[i]]

Trim(text) ==
  LET solid == {i \in DOMAIN text : text[i] \notin {Blank, Newline}}
  IN  IF solid = {} THEN <<>> ELSE SubSeq(text, Min(solid), Max(solid))

\* Each run of blanks inside becomes one underscore.
NormalizeHeader(cell) ==
  LET text == Cased(LowerCase, Trim(cell))
      piece(i) == IF text[i] # Blank THEN <<text[i]>>
                  ELSE IF text[i - 1] = Blank THEN <<>> ELSE <<"_">>
  IN  FlattenSeq([i \in DOMAIN text |-> piece(i)])

HeaderAliases ==
  [code |-> {<<"code">>, <<"vendor", "_", "code">>},
   name |-> {<<"name">>, <<"vendor", "_", "name">>},
   isActive |-> {<<"is", "_", "active">>, <<"active">>, <<"enabled">>}]

\* The first column with one of the names, 0 if there is none.
FindHeaderIndex(headers, aliases) ==
  LET found == {i \in DOMAIN headers : headers[i] \in aliases}
  IN  IF found = {} THEN 0 ELSE Min(found)

\* Mutant: a doubled quote is not one of the text (TablesAreReadAlike).
ParseCsvLineUndoubled(line) ==
  LET read(s, c) ==
        IF c = Quote THEN [s EXCEPT !.quoted = ~@]
        ELSE IF c = Comma /\ ~s.quoted
             THEN [s EXCEPT !.cells = Append(@, Trim(s.cell)), !.cell = <<>>]
        ELSE [s EXCEPT !.cell = Append(@, c)]
      end == FoldLeft(read, [cells |-> <<>>, cell |-> <<>>, quoted |-> FALSE], line)
  IN  Append(end.cells, Trim(end.cell))

\* A step of the loop of parseCsvLine; the second of two quotes is skipped.
ReadChar(line, i, s) ==
  IF s.skip THEN [s EXCEPT !.skip = FALSE]
  ELSE IF line[i] = Quote /\ s.quoted /\ i < Len(line) /\ line[i + 1] = Quote
       THEN [s EXCEPT !.cell = Append(@, Quote), !.skip = TRUE]
  ELSE IF line[i] = Quote THEN [s EXCEPT !.quoted = ~@]
  ELSE IF line[i] = Comma /\ ~s.quoted
       THEN [s EXCEPT !.cells = Append(@, Trim(s.cell)), !.cell = <<>>]
  ELSE [s EXCEPT !.cell = Append(@, line[i])]

ParseCsvLine(line) ==
  LET start == [cells |-> <<>>, cell |-> <<>>, quoted |-> FALSE, skip |-> FALSE]
      after[i \in 0..Len(line)] == IF i = 0 THEN start ELSE ReadChar(line, i, after[i - 1])
      end == after[Len(line)]
  IN  Append(end.cells, Trim(end.cell))

\* Split wherever a line ends, inside quotes as well.
SplitAt(c, s) ==
  IF c = Newline THEN [done |-> Append(s.done, s.line), line |-> <<>>]
  ELSE [s EXCEPT !.line = Append(@, c)]

Lines(text) ==
  LET start == [done |-> <<>>, line |-> <<>>]
      after[i \in 0..Len(text)] == IF i = 0 THEN start ELSE SplitAt(text[i], after[i - 1])
      end == after[Len(text)]
  IN  Append(end.done, end.line)

CellAt(cells, i) == IF i \in DOMAIN cells THEN Trim(cells[i]) ELSE <<>>

\* The rows by their numbers, as one element; no element if the file is refused because
\* it has no column for the code or the name.
RowsUnder(header, matrix, numbers) ==
  LET headers == [i \in DOMAIN header |-> NormalizeHeader(header[i])]
      column == [f \in DOMAIN HeaderAliases |-> FindHeaderIndex(headers, HeaderAliases[f])]
      row(n) == [f \in DOMAIN column |-> CellAt(matrix[n], column[f])]
  IN  IF 0 \in {column.code, column.name} THEN {}
      ELSE {[n \in numbers |-> row(n)]}

\* A line is left out if it is blank.
ParseVendorRowsFromCsv(text) ==
  LET lines == Lines(text)
      matrix == [n \in DOMAIN lines |-> ParseCsvLine(lines[n])]
  IN  IF lines[1] = <<>> THEN {}
      ELSE RowsUnder(matrix[1], matrix, {n \in 2..Len(lines) : Trim(lines[n]) # <<>>})

IsEmpty(cells) == \A i \in DOMAIN cells : Trim(cells[i]) = <<>>

\* A row is left out if all its cells are.
ParseVendorRowsFromXlsx(matrix) ==
  IF matrix = <<>> \/ Head(matrix) = <<>> THEN {}
  ELSE RowsUnder(Head(matrix), matrix, {n \in 2..Len(matrix) : ~IsEmpty(matrix[n])})

ParseVendorRows(file) ==
  CASE file.type = "csv" -> ParseVendorRowsFromCsv(file.content)
    [] file.type = "xlsx" -> ParseVendorRowsFromXlsx(file.content)
    [] OTHER -> {}

\* No element: the text is no Boolean, which is an error.
ParseBoolean(text) ==
  LET word == Cased(LowerCase, Trim(text))
  IN  CASE text = <<>> -> {TRUE}
        [] word \in {<<w>> : w \in {"true", "1", "y", "yes", "active"}} -> {TRUE}
        [] word \in {<<w>> : w \in {"false", "0", "n", "no", "inactive"}} -> {FALSE}
        [] OTHER -> {}

Valid(row) == ParseBoolean(row.isActive) # {} /\ row.code # <<>> /\ row.name # <<>>

\* What the loop goes by: the code of each row in turn, in upper case, or none for a row
\* it refuses for itself.
CodesOf(rows, none) ==
  LET order == SetToSortSeq(DOMAIN rows, <)
      row(k) == rows[order[k]]
  IN  [k \in DOMAIN order |-> IF Valid(row(k)) THEN Cased(UpperCase, row(k).code) ELSE none]

(***************************************************************************)
(* The reference: how a table is written as CSV (RFC 4180).                *)
(***************************************************************************)
WrittenCell(cell) ==
  LET twice(c) == IF c = Quote THEN <<Quote, Quote>> ELSE <<c>>
  IN  IF ToSet(cell) \cap {Quote, Comma, Newline} = {} THEN cell
      ELSE <<Quote>> \o FlattenSeq([i \in DOMAIN cell |-> twice(cell[i])]) \o <<Quote>>

Joined(texts, separator) ==
  FlattenSeq([i \in DOMAIN texts |-> IF i = 1 THEN texts[i] ELSE <<separator>> \o texts[i]])

WrittenRow(cells) == Joined([i \in DOMAIN cells |-> WrittenCell(cells[i])], Comma)
Written(table) == Joined([n \in DOMAIN table |-> WrittenRow(table[n])], Newline)

\* The CSV and the sheet of a table without line breaks in its cells give the same rows
\* under the same numbers, but for the rows that are empty: the CSV has them, and each
\* is refused.
ReadAlike(table) ==
  LET csv == ParseVendorRowsFromCsv(Written(table))
      xlsx == ParseVendorRowsFromXlsx(table)
  IN  /\ csv = {} <=> xlsx = {}
      /\ \A c \in csv, x \in xlsx :
           /\ DOMAIN x = {n \in DOMAIN c : ~IsEmpty(table[n])}
           /\ \A n \in DOMAIN x : x[n] = c[n]
           /\ \A n \in DOMAIN c \ DOMAIN x : ~Valid(c[n])
=============================================================================
