------------------------------ MODULE Combiners ------------------------------
(***************************************************************************)
(* The cells of the reports' tables, and many uploads made one workbook:   *)
(* GSTR-2B exports (services/gstr2b/) and closing period reports           *)
(* (services/closing_period/).                                             *)
(***************************************************************************)
EXTENDS Integers, Sequences, FiniteSets, SequencesExt, FiniteSetsExt

-----------------------------------------------------------------------------
(* The cells of a table: numbers, the formulas of its totals, and the       *)
(* values stored beside those for a reader that does not calculate.         *)

Excel == INSTANCE Formulas WITH One <- 1, EvalLimit <- 0

Number(n) == [is |-> "number", n |-> n]
Area(from, to) == [t |-> "area", from |-> from, to |-> to]
SumCell(from, to) == [is |-> "formula", tree |-> [t |-> "call", f |-> "SUM", args |-> <<Area(from, to)>>]]
SubtotalCell(from, to) ==
  [is |-> "formula", tree |-> [t |-> "call", f |-> "SUBTOTAL", args |-> <<[t |-> "num", n |-> 9], Area(from, to)>>]]
TotalLine(row, c, width, from, to) == [p \in {row} \X (c .. c + width - 1) |-> SubtotalCell(<<from, p[2]>>, <<to, p[2]>>)]

\* The lines of a table; their order is left open.
Ordered(S) == CHOOSE s \in [1 .. Cardinality(S) -> S] : \A i, k \in DOMAIN s : i # k => s[i] # s[k]

\* What is stored for a cell.
Shows(table, row, col) == Excel!CachedValue([cells |-> table.cells, hidden |-> {}], <<row, col>>)

-----------------------------------------------------------------------------
(* Uploads in a workbook. *)

\* The cells of Val(_) over some of a sequence.
Adds(rows, Is(_), Val(_)) == FoldLeft(LAMBDA n, r : IF Is(r) THEN n + Val(r) ELSE n, 0, rows)

-----------------------------------------------------------------------------
(* GSTR-2B: uploads of [name, key: the name in small letters, code: of its *)
(* state, or NoCode if it is not named as exports are, content], in the    *)
(* order of their names.  A content has for each tab its heading's levels  *)
(* and its rows of cells: [is |-> "digits", n], "words" (says) or "blank". *)

NoCode == 0
\* mutant: a renamed copy counts as another export
Duplicate_ByName(kept, u) == \E i \in DOMAIN kept : kept[i].key = u.key

Duplicate(kept, u) == \E i \in DOMAIN kept : kept[i].key = u.key \/ kept[i].content = u.content

Deduped(uploads) == FoldLeft(LAMBDA kept, u : IF Duplicate(kept, u) THEN kept ELSE Append(kept, u), <<>>, uploads)

\* Every level but the last reaches over the blanks to its right.
Filled(level) ==
  [c \in DOMAIN level |-> LET said == {k \in 1 .. c : level[k] # ""} IN IF said = {} THEN "" ELSE level[Max(said)]]
ColumnName(levels, c) ==
  LET parts == SelectSeq([l \in DOMAIN levels |-> IF l < Len(levels) THEN Filled(levels[l])[c] ELSE levels[l][c]], LAMBDA p : p # "")
      once == SelectSeq([i \in DOMAIN parts |-> i], LAMBDA i : i = 1 \/ parts[i] # parts[i - 1])
  IN [i \in DOMAIN once |-> parts[once[i]]]

\* Headings with a rupee sign; a column of theirs is made numbers if all of it is.
Rupees2B == {"Integrated", "Central"}
Money(name) == \E i \in DOMAIN name : name[i] \in Rupees2B
Coerced(name, column) ==
  IF Money(name) /\ \A i \in DOMAIN column : column[i].is \in {"digits", "blank"}
  THEN [i \in DOMAIN column |-> IF column[i].is = "digits" THEN [column[i] EXCEPT !.is = "number"] ELSE column[i]] ELSE column
\* The rows that are not all blank; of columns of one name only the first is used.
Filed(tab) == SelectSeq(tab.rows, LAMBDA row : \E c \in DOMAIN row : row[c].is # "blank")
ReadTab(tab) ==
  LET names == [c \in DOMAIN tab.levels[1] |-> ColumnName(tab.levels, c)]
      rows == Filed(tab)
      columns == [c \in DOMAIN names |-> Coerced(names[c], [i \in DOMAIN rows |-> rows[i][c]])]
      First(name) == Min({c \in DOMAIN names : names[c] = name})
  IN [i \in DOMAIN rows |-> [name \in {names[c] : c \in DOMAIN names} |-> columns[First(name)][i]]]

\* A cell of the summary: SUMIFS adds the numbers of the rows whose words match.
Says(row, name, says) == name \in DOMAIN row /\ row[name].is = "words" /\ row[name].says = says
Amount2B(row, name) == IF name \in DOMAIN row /\ row[name].is = "number" THEN row[name].n ELSE 0

Taxes == {<<"Tax", "Integrated">>, <<"Tax", "Central">>}
StateLine(sheets, state, tax) ==
  LET SumIfs(tab, total, Is(_)) == Adds(sheets[tab], Is, LAMBDA r : Amount2B(r.cells, total))
      Of(tab, Is(_)) == SumIfs(tab, tax, LAMBDA r : r.state = state /\ Is(r.cells))
      notes == Of("CDNR", LAMBDA c : Says(c, <<"RCM">>, "no"))
               - 2 * Of("CDNR", LAMBDA c : Says(c, <<"RCM">>, "no") /\ Says(c, <<"Note", "type">>, "Debit"))
      imports == IF tax = <<"Tax", "Integrated">>
                 THEN SumIfs("IMPG", <<"Duty", "Integrated">>, LAMBDA r : r.state = state) ELSE 0
  IN Of("B2B", LAMBDA c : Says(c, <<"RCM">>, "no")) + Of("B2B", LAMBDA c : Says(c, <<"RCM">>, "Yes"))
     - Of("B2B", LAMBDA c : Says(c, <<"ITC">>, "no")) - notes + imports

Tabs == {"B2B", "CDNR", "IMPG"}
Readable(input, u) == u.code # NoCode /\ DOMAIN input.contents[u.content] # {}

\* mutant: the codes of files that are read only
UnknownCodes_Read(input, kept) ==
  {kept[i].code : i \in {k \in DOMAIN kept : Readable(input, kept[k])}} \ DOMAIN input.codes

\* A code is taken from the name, before the file is opened.
UnknownCodes(input, kept) == {kept[i].code : i \in DOMAIN kept} \ ({NoCode} \cup DOMAIN input.codes)

CombinedReport(input) ==
  LET kept == Deduped(input.uploads)
      read == SelectSeq(kept, LAMBDA u : Readable(input, u))
      State(u) == IF u.code \in DOMAIN input.codes THEN input.codes[u.code] ELSE <<"Unknown", u.code>>
      unresolved == UnknownCodes(input, kept)
      Rows(u, tab) ==
        LET content == input.contents[u.content]
            rows == IF tab \in DOMAIN content THEN ReadTab(content[tab]) ELSE <<>>
        IN [i \in DOMAIN rows |-> [state |-> State(u), from |-> u.content, cells |-> rows[i]]]
      sheets == [tab \in Tabs |-> FlattenSeq([i \in DOMAIN read |-> Rows(read[i], tab)])]
      states == {State(read[i]) : i \in DOMAIN read}
      written == read # <<>> /\ (unresolved = {} \/ input.anyway)
  IN IF ~written THEN [written |-> FALSE, failed |-> read = <<>>, files |-> Len(read), unresolved |-> unresolved]
     ELSE [written |-> TRUE, failed |-> FALSE, files |-> Len(read), unresolved |-> unresolved, sheets |-> sheets,
           net |-> [s \in states |-> [t \in Taxes |-> StateLine(sheets, s, t)]]]

-----------------------------------------------------------------------------
(* Closing period: files of [html, location, header, rows].  A heading is   *)
(* [label: its date, or "", is: "Quantity", "Value" or "other"], a row      *)
(* [total: its first cell says so, sub, values].                            *)

Allowed == {"MOD-RM", "NMOD-RM", "STORES"}
FirstOr(S, otherwise) == IF S = {} THEN otherwise ELSE Min(S)
Detected(header) ==
  LET Dated(what) == {i \in DOMAIN header : header[i].label # "" /\ header[i].is = what}
      quantity == FirstOr(Dated("Quantity"), 6)
      value == FirstOr(Dated("Value"), 9)
  IN [quantity |-> quantity, value |-> value,
      label |-> CASE Dated("Quantity") # {} -> header[quantity].label
                  [] Dated("Quantity") = {} /\ Dated("Value") # {} -> header[value].label
                  [] OTHER -> "UNKNOWN"]
Records(file) ==
  LET found == Detected(file.header)
      Cell(row, c) == IF c \in DOMAIN row.values THEN row.values[c] ELSE 0
      rows == IF file.html THEN SelectSeq(file.rows, LAMBDA r : ~r.total /\ r.sub \in Allowed) ELSE <<>>
  IN [i \in DOMAIN rows |-> [location |-> file.location, sub |-> rows[i].sub, label |-> found.label,
                             quantity |-> Cell(rows[i], found.quantity), value |-> Cell(rows[i], found.value)]]

\* The label of most records; of equals, either.
Labels(records) ==
  LET Times(l) == Len(SelectSeq(records, LAMBDA r : r.label = l))
  IN {l \in {records[i].label : i \in DOMAIN records} : \A i \in DOMAIN records : Times(records[i].label) <= Times(l)}

MainFirst == 3
\* mutant: as if the title had not been put above
MainLast_Untitled(records) == 2 + Len(records) - 1

MainLast(records) == 3 + Len(records) - 1

\* The row of each record, and what the summary's SUMIFS finds from row to row.
OnMain(records) == [row \in 3 .. 2 + Len(records) |-> records[row - 2]]
RowsOfKey(main, rows, key) == {row \in rows \cap DOMAIN main : <<main[row].location, main[row].sub>> = key}
SummaryCells(records) ==
  LET keys == Ordered({<<records[i].location, records[i].sub>> : i \in DOMAIN records})
      main == OnMain(records)
      Figure(r, c) == IF c = 3 THEN r.quantity ELSE r.value
      Formula(k, c) == FoldSet(LAMBDA row, n : n + Figure(main[row], c), 0, RowsOfKey(main, MainFirst .. MainLast(records), keys[k]))
      Stored(k, c) == Adds(records, LAMBDA r : <<r.location, r.sub>> = keys[k], LAMBDA r : Figure(r, c))
      grand == 2 + Len(keys)
  IN [keys |-> keys, grand |-> grand,
      formula |-> [p \in (2 .. grand - 1) \X (3 .. 4) |-> Formula(p[1] - 1, p[2])],
      stored |-> [p \in (2 .. grand) \X (3 .. 4) |->
                    IF p[1] < grand THEN Stored(p[1] - 1, p[2])
                    ELSE FoldLeft(LAMBDA n, k : n + Stored(k, p[2]), 0, [k \in DOMAIN keys |-> k])]]

ClosingReport(input) ==
  LET read == [f \in DOMAIN input.files |-> Records(input.files[f])]
      ok == Len(SelectSeq(read, LAMBDA records : records # <<>>))
      records == FlattenSeq(read)
  IN IF records = <<>> THEN [written |-> FALSE, ok |-> ok]
     ELSE [written |-> TRUE, ok |-> ok, labels |-> Labels(records), rows |-> records, summary |-> SummaryCells(records)]

-----------------------------------------------------------------------------
(* Properties *)

\* Each export's rows are in the workbook once, whatever copies of it were uploaded
\* and under whatever names, unless another came under its name or its copy under no
\* export's; the summary nets for each state what its rows say, if the amounts are
\* numbers; and nothing is written unasked while any upload has an unknown code,
\* also one that cannot be read, unless it counts as a copy of another.
Sheet(input, content, tab) ==
  IF tab \in DOMAIN input.contents[content] THEN Filed(input.contents[content][tab]) ELSE <<>>
Rivals(u, v) == (v.content = u.content /\ v.code = NoCode) \/ (v.key = u.key /\ v.content # u.content)
Figures(tab) ==
  \A c \in DOMAIN tab.levels[1] : Money(ColumnName(tab.levels, c)) => \A i \in DOMAIN tab.rows : tab.rows[i][c].is # "words"
Worth(cells) ==
  LET Said(name) == IF cells[name].is = "blank" THEN 0 ELSE cells[name].n
      tax == Said(<<"Tax", "Integrated">>)
  IN CASE <<"Duty", "Integrated">> \in DOMAIN cells -> Said(<<"Duty", "Integrated">>)
       [] <<"Note", "type">> \in DOMAIN cells ->
            IF ~Says(cells, <<"RCM">>, "no") THEN 0 ELSE IF Says(cells, <<"Note", "type">>, "Debit") THEN tax ELSE -tax
       [] <<"ITC">> \in DOMAIN cells -> IF Says(cells, <<"ITC">>, "no") THEN 0 ELSE tax
ExportsCombined(input, report) ==
  LET ups == Range(input.uploads)
      Rows(tab, content) == Len(SelectSeq(report.sheets[tab], LAMBDA r : r.from = content))
      all == report.sheets["B2B"] \o report.sheets["CDNR"] \o report.sheets["IMPG"]
  IN report.written =>
       /\ input.anyway \/ \A u \in ups : u.code \in {NoCode} \cup DOMAIN input.codes
                          \/ \E v \in ups : v # u /\ (v.key = u.key \/ v.content = u.content)
       /\ \A u \in ups, tab \in Tabs : Rows(tab, u.content) \in {0, Len(Sheet(input, u.content, tab))}
       /\ \A u \in ups : Readable(input, u) /\ (\A v \in ups : ~Rivals(u, v)) =>
            \A tab \in Tabs : Rows(tab, u.content) = Len(Sheet(input, u.content, tab))
       /\ (\A u \in ups : \A tab \in DOMAIN input.contents[u.content] : Figures(input.contents[u.content][tab])) =>
            \A s \in DOMAIN report.net :
              report.net[s][<<"Tax", "Integrated">>] = Adds(all, LAMBDA r : r.state = s, LAMBDA r : Worth(r.cells))

\* Each allowed row of each readable report is in the list and counted once in the
\* summary: its formulas and what is stored beside them come to the same.
ClosingAddsUp(input, report) ==
  report.written =>
    LET s == report.summary
        kept(f) == IF input.files[f].html THEN Len(SelectSeq(input.files[f].rows, LAMBDA r : ~r.total /\ r.sub \in Allowed)) ELSE 0
    IN /\ Len(report.rows) = FoldSet(LAMBDA f, n : n + kept(f), 0, DOMAIN input.files)
       /\ \A p \in DOMAIN s.formula : s.formula[p] = s.stored[p]
       /\ s.stored[<<s.grand, 3>>] = Adds(report.rows, LAMBDA r : TRUE, LAMBDA r : r.quantity)
       /\ s.stored[<<s.grand, 4>>] = Adds(report.rows, LAMBDA r : TRUE, LAMBDA r : r.value)
       /\ report.ok <= Len(input.files) /\ report.labels # {}
=============================================================================
