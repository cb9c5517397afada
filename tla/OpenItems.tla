------------------------------ MODULE OpenItems ------------------------------
(***************************************************************************)
(* The workbooks of the debtors' open items: invoices by age               *)
(* (untagged_invoices/processor.py), receipts by age                       *)
(* (unapplied_receipts/processor.py) and the GST invoice numbers           *)
(* (gst_invoice_adder/processor.py).                                       *)
(***************************************************************************)
EXTENDS Combiners, Integers, Sequences, FiniteSets, SequencesExt

\* A row without a readable date.
Undated == 0
SumBy(rows, Val(_)) == FoldLeft(LAMBDA n, r : n + Val(r), 0, rows)

Edges == <<15, 30, 60, 90, 120, 150, 180, 360>>
AgeBucket(days) == 1 + Cardinality({e \in DOMAIN Edges : days > Edges[e]})
Aged(rows, asOn) ==
  [i \in DOMAIN rows |->
     [bucket |-> IF rows[i].date = Undated THEN 0 ELSE AgeBucket(asOn - rows[i].date), row |-> i] @@ rows[i]]

-----------------------------------------------------------------------------
(* Invoices: rows of [place, date, amount, receipt], amounts in 100 rupees. *)

InvoiceSummary(rows) ==
  [p \in {rows[i].place : i \in DOMAIN rows} |->
     LET here == SelectSeq(rows, LAMBDA r : r.place = p)
     IN [count |-> Len(here), amount |-> SumBy(here, LAMBDA r : r.amount),
         buckets |-> [b \in 1 .. 9 |-> SumBy(SelectSeq(here, LAMBDA r : r.bucket = b), LAMBDA r : r.amount)]]]

\* Values are in thousandths of a sheet's unit: a lakh, or a rupee.
Lakhs == 1
Rupees == 100000
Snap(n) == IF -5 < n /\ n < 5 THEN 0 ELSE n
\* What Python's round may make, in hundredths: to the even neighbour if the
\* halves are exact, else to either.
Rounded(n, exact) ==
  LET low == (n - 5) \div 10
  IN IF n % 10 # 5 THEN {(n + 5) \div 10} ELSE IF exact THEN {low + (low % 2)} ELSE {low, low + 1}
Above30(line) ==
  Rounded(line[2] - line[3] - line[4], \A c \in 2 .. 4 : line[c] % 125 = 0)

\* mutant: the totals are of what the line was before it was written
Summed_Unsnapped(lines, shown, c) == SumBy(lines, LAMBDA l : l[c])

Summed(lines, shown, c) == SumBy(shown, LAMBDA l : l[c])

\* A line is the count, the amount and the nine buckets, from column 3 on.
PlaceSheet(summary, unit) ==
  LET places == Ordered(DOMAIN summary)
      lines == [i \in DOMAIN places |->
                  LET s == summary[places[i]] IN <<s.count, unit * s.amount>> \o [b \in 1 .. 9 |-> unit * s.buckets[b]]]
      shown == [i \in DOMAIN lines |-> [c \in 1 .. 11 |-> IF c = 1 THEN lines[i][1] ELSE Snap(lines[i][c])]]
      sums == [c \in 1 .. 11 |-> Summed(lines, shown, c)]
      grand == Len(places) + 2
  IN [grand |-> grand, shown |-> shown, sums |-> sums,
      above |-> [i \in 1 .. grand - 1 |-> Above30(IF i < grand - 1 THEN shown[i] ELSE sums)],
      cells |-> [p \in (2 .. grand - 1) \X (3 .. 13) |-> Number(shown[p[1] - 1][p[2] - 2])]
                @@ IF places = <<>> THEN [p \in {grand} \X (3 .. 13) |-> Number(0)] ELSE TotalLine(grand, 3, 11, 2, grand - 1)]

\* A dash in every bucket of a row without a date.
Detail(rows) ==
  [i \in DOMAIN rows |->
     [row |-> rows[i].row, amount |-> rows[i].amount,
      buckets |-> IF rows[i].bucket = 0 THEN <<>> ELSE [b \in 1 .. 9 |-> IF b = rows[i].bucket THEN rows[i].amount ELSE 0]]]

InvoicesReport(input) ==
  LET rows == Aged(input.rows, input.asOn)
      untagged == SelectSeq(rows, LAMBDA r : ~r.receipt /\ r.amount < 0)
      below == SelectSeq(rows, LAMBDA r : ~r.receipt /\ 0 < r.amount /\ r.amount < 10)
  IN [ageing |-> Detail(rows),
      untagged |-> [unit |-> Lakhs, detail |-> Detail(untagged), sheet |-> PlaceSheet(InvoiceSummary(untagged), Lakhs)],
      below |-> [unit |-> Rupees, detail |-> Detail(below), sheet |-> PlaceSheet(InvoiceSummary(below), Rupees)]]

-----------------------------------------------------------------------------
(* Receipts: rows of [place, date, unapplied, prepaid, list].               *)

FirstRow(titled) == IF titled THEN 3 ELSE 2
\* mutant: the total is written for a sheet with a title
TotalFrom_Titled(first) == 3

TotalFrom(first) == first

InColumn(row, c) == IF c = 1 THEN row.unapplied ELSE row.prepaid
ListSheet(rows, titled) ==
  LET first == FirstRow(titled)
      foot == first + Len(rows)
      summed == {c \in 1 .. 2 : SumBy(rows, LAMBDA r : InColumn(r, c)) # 0}
  IN [foot |-> foot,
      cells |-> [p \in (first .. foot - 1) \X (1 .. 2) |-> Number(InColumn(rows[p[1] - first + 1], p[2]))]
                @@ [p \in {foot} \X summed |-> SubtotalCell(<<TotalFrom(first), p[2]>>, <<foot - 1, p[2]>>)]]
\* An empty list is a line of text.
OtherSheet(rows, titled) == IF rows = <<>> THEN [foot |-> 0, cells |-> <<>>] ELSE ListSheet(rows, titled)
\* The unidentified receipts are also a workbook of their own.
UnidentifiedSheet(rows, titled) == OtherSheet(rows, titled)

ReceiptSummary(rows) ==
  [c \in {<<rows[i].place, rows[i].bucket>> : i \in DOMAIN rows} |->
     SumBy(SelectSeq(rows, LAMBDA r : <<r.place, r.bucket>> = c), LAMBDA r : r.unapplied + r.prepaid)]
\* Zeros are left blank, and a total is a formula unless it is zero.
AgeSheet(pivot, titled) ==
  LET head == IF titled THEN 3 ELSE 1
      places == Ordered({c[1] : c \in DOMAIN pivot})
      buckets == SelectSeq(<<1, 2, 3, 4, 5, 6, 7, 8, 9, 0>>, LAMBDA b : \E c \in DOMAIN pivot : c[2] = b)
      Value(g, b) == IF <<places[g], buckets[b]>> \in DOMAIN pivot THEN pivot[<<places[g], buckets[b]>>] ELSE 0
      Across(g) == SumBy([b \in DOMAIN buckets |-> b], LAMBDA b : Value(g, b))
      Down(b) == SumBy([g \in DOMAIN places |-> g], LAMBDA g : Value(g, b))
      last == 3 + Len(buckets)
      bottom == head + 1 + Len(places)
      filled == {p \in (head + 1 .. bottom - 1) \X (4 .. last) : Value(p[1] - head, p[2] - 3) # 0}
      totals == {b + 3 : b \in {b \in DOMAIN buckets : Down(b) # 0}}
                \cup {c \in {3} : SumBy([g \in DOMAIN places |-> g], Across) # 0}
  IN [head |-> head, bottom |-> bottom, places |-> places, buckets |-> buckets,
      cells |-> [p \in filled |-> Number(Value(p[1] - head, p[2] - 3))]
                @@ [p \in {head + g : g \in {g \in DOMAIN places : Across(g) # 0}} \X {3} |-> SumCell(<<p[1], 4>>, <<p[1], last>>)]
                @@ [p \in {bottom} \X totals |-> SubtotalCell(<<head + 1, p[2]>>, <<bottom - 1, p[2]>>)]]

UnappliedReport(input) ==
  LET On(list) == SelectSeq(Aged(input.rows, input.asOn), LAMBDA r : r.list = list)
  IN [main |-> ListSheet(On("main"), input.titled), advance |-> OtherSheet(On("advance"), input.titled),
      unidentified |-> UnidentifiedSheet(On("unidentified"), input.titled),
      summary |-> AgeSheet(ReceiptSummary(On("main")), input.titled)]

-----------------------------------------------------------------------------
(* GST: rows of [no, date, account, amount]; a number is its text, with or  *)
(* without ".0" behind it.                                                  *)

Clean(no) == <<no[1]>>
HasNumber(row) == Clean(row.no) # <<"">>
\* mutant: numbers are asked for as they stand
KeyAsked_Raw(row) == <<row.no, row.date>>

KeyAsked(row) == <<Clean(row.no), row.date>>

KeyShown(row) == <<Clean(row.no), row.date>>

WithGst(columns) == LET at == CHOOSE c \in DOMAIN columns : columns[c] = "no" IN InsertAt(columns, at, "gst")
\* Digits in the account column become a number; a blank, a dash.
Written(row, name) ==
  CASE name # "no" /\ row[name] = "" -> "-"
    [] name = "account" /\ row[name] = "digits" -> "number"
    [] OTHER -> row[name]
GstReport(input) ==
  LET rows == SelectSeq(input.rows, HasNumber)
      asked == {KeyAsked(rows[i]) : i \in DOMAIN rows}
      answers == [k \in asked \cap DOMAIN input.erp |-> input.erp[k]]
      Gst(r) == IF KeyShown(r) \in DOMAIN answers THEN answers[KeyShown(r)] ELSE "-"
      columns == WithGst(input.columns)
      found == Len(SelectSeq(rows, LAMBDA r : Gst(r) # "-"))
  IN [columns |-> columns, total |-> Len(rows), found |-> found, blank |-> Len(rows) - found,
      lines |-> [i \in DOMAIN rows |-> [c \in DOMAIN columns |-> IF columns[c] = "gst" THEN Gst(rows[i]) ELSE Written(rows[i], columns[c])]]]

-----------------------------------------------------------------------------
(* Properties *)

\* Excel's own value of the column above 30 days: half away from zero.
ByExcel(line) == LET n == line[2] - line[3] - line[4] IN IF n < 0 THEN -((5 - n) \div 10) ELSE (n + 5) \div 10
AboveLines(sheet) == Append(sheet.shown, sheet.sums)

\* Every row of a summary is in its count and its amount, and in a bucket if it is
\* dated; what is stored as a total is what the formula gives over the shown lines,
\* within half a hundredth a line of the real amount; and the stored amount above 30
\* days is off by a hundredth at most, at a half only.
SheetAddsUp(rows, part) ==
  LET sheet == part.sheet
      undated == SelectSeq(rows, LAMBDA r : r.date = Undated)
      Real(some) == part.unit * SumBy(some, LAMBDA r : r.amount)
      slack == 5 * Len(sheet.shown)
      Off(a, b) == IF a < b THEN b - a ELSE a - b
  IN /\ sheet.sums[1] = Len(rows)
     /\ \A c \in 1 .. 11 : Shows(sheet, sheet.grand, c + 2) = Excel!N(sheet.sums[c])
     /\ Off(sheet.sums[2], Real(rows)) <= slack
     /\ Off(SumBy([c \in 3 .. 11 |-> c], LAMBDA c : sheet.sums[c]), Real(rows) - Real(undated)) <= 9 * slack
     /\ part.unit = Rupees => sheet.sums[2] = Real(rows)
     /\ \A i \in DOMAIN AboveLines(sheet) : \A stored \in sheet.above[i] :
          LET line == AboveLines(sheet)[i]
          IN Off(stored, ByExcel(line)) <= IF (line[2] - line[3] - line[4]) % 10 = 5 THEN 1 ELSE 0
InvoicesAddUp(input, report) ==
  LET Open(i) == ~input.rows[i].receipt
      Of(Is(_)) == LET ks == SelectSeq([i \in DOMAIN input.rows |-> i], Is) IN [n \in DOMAIN ks |-> input.rows[ks[n]]]
      Ages(row) == input.asOn - input.rows[row].date
  IN /\ SheetAddsUp(Of(LAMBDA i : Open(i) /\ input.rows[i].amount < 0), report.untagged)
     /\ SheetAddsUp(Of(LAMBDA i : Open(i) /\ input.rows[i].amount \in 1 .. 9), report.below)
     /\ \A n \in DOMAIN report.ageing : LET line == report.ageing[n] IN
          /\ line.buckets = <<>> <=> input.rows[line.row].date = Undated
          /\ line.buckets # <<>> =>
               /\ SumBy(line.buckets, LAMBDA x : x) = line.amount
               /\ line.buckets[1] + line.buckets[2] = IF Ages(line.row) <= 30 THEN line.amount ELSE 0
               /\ line.buckets[9] = IF Ages(line.row) > 360 THEN line.amount ELSE 0

\* A reader that does not calculate sees, for each list and for each place and each
\* bucket of the summary, what its rows come to: a blank is a zero.
Reads(sheet, row, col) == IF <<row, col>> \in DOMAIN sheet.cells THEN Shows(sheet, row, col) ELSE Excel!N(0)
UnappliedAddsUp(input, report) ==
  LET Of(Is(_)) == SelectSeq(input.rows, Is)
      Both(rows) == Excel!N(SumBy(rows, LAMBDA r : r.unapplied + r.prepaid))
      InBucket(r, b) == IF r.date = Undated THEN b = 0 ELSE AgeBucket(input.asOn - r.date) = b
      s == report.summary
  IN /\ \A list \in {"main", "advance", "unidentified"} : \A c \in 1 .. 2 :
          Reads(report[list], report[list].foot, c) = Excel!N(SumBy(Of(LAMBDA r : r.list = list), LAMBDA r : InColumn(r, c)))
     /\ Reads(s, s.bottom, 3) = Both(Of(LAMBDA r : r.list = "main"))
     /\ \A g \in DOMAIN s.places : Reads(s, s.head + g, 3) = Both(Of(LAMBDA r : r.list = "main" /\ r.place = s.places[g]))
     /\ \A b \in DOMAIN s.buckets : Reads(s, s.bottom, b + 3) = Both(Of(LAMBDA r : r.list = "main" /\ InBucket(r, s.buckets[b])))

\* Each numbered row is one line, with its own values under its own headers, and
\* with the GST number the ERP has for it.
GstAdded(input, report) ==
  LET numbered == SelectSeq(input.rows, HasNumber)
      Under(i, name) == report.lines[i][CHOOSE c \in DOMAIN report.columns : report.columns[c] = name]
      key(r) == <<<<r.no[1]>>, r.date>>
  IN /\ report.total = Len(numbered) /\ Len(report.lines) = Len(numbered)
     /\ report.found = Len(SelectSeq(numbered, LAMBDA r : key(r) \in DOMAIN input.erp))
     /\ \A i \in DOMAIN numbered : LET r == numbered[i] IN
          /\ Under(i, "gst") = IF key(r) \in DOMAIN input.erp THEN input.erp[key(r)] ELSE "-"
          /\ Under(i, "no") = r.no /\ Under(i, "date") = r.date /\ Under(i, "amount") = r.amount
=============================================================================
