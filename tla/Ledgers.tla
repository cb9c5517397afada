------------------------------- MODULE Ledgers -------------------------------
(***************************************************************************)
(* The ledger reports.  Creditors Ageing (services/creditors_ageing): a    *)
(* trial balance and its pending bills, read by their headers, become      *)
(* three ageing sheets whose formulas and stored values must say the same. *)
(* The ERP's detail trial balance, placed by location and summed by        *)
(* region (services/trial_balance), and Tally's, whose groups and signs    *)
(* are worked out from the figures (services/trial_balance_formatter).     *)
(***************************************************************************)
EXTENDS Integers, Sequences, FiniteSets, SequencesExt, FiniteSetsExt

CONSTANTS
  Capitals,  \* a name in capitals, as the mapping has it
  NoDay,     \* no date, and no value in a cell
  NoReport   \* nothing can be built

Total(s, Val(_)) == FoldLeft(LAMBDA sum, x : sum + Val(x), 0, s)

-----------------------------------------------------------------------------
(* Reading.  A sheet is [head, rows]: head is a sequence of rows of cells   *)
(* [says (its words), is ("words", "to" or "date"), day], of which the      *)
(* header is one, and a row is a sequence of values.                        *)

\* _find_header_row and _column_index: the first row, the first column.
HeaderRow(sheet, words) ==
  LET rows == {i \in 1 .. Min({20, Len(sheet.head)}) : \A w \in words : \E k \in DOMAIN sheet.head[i] : w \in sheet.head[i][k].says}
  IN IF rows = {} THEN 0 ELSE Min(rows)
Column(header, words) ==
  LET cols == {k \in DOMAIN header : header[k].says \cap words # {}} IN IF cols = {} THEN 0 ELSE Min(cols)
At(row, col) == IF col \in DOMAIN row THEN row[col] ELSE NoDay

TbRows(sheet) ==
  LET header == sheet.head[HeaderRow(sheet, {"debit", "credit"})]
      Amount(row, word) == LET v == At(row, Column(header, {word})) IN IF v \in Int THEN v ELSE 0
      ledgers == SelectSeq(sheet.rows, LAMBDA row : row[1] \notin {NoDay, "Grand Total"})
  IN [i \in DOMAIN ledgers |-> [name |-> ledgers[i][1], debit |-> Amount(ledgers[i], "debit"), credit |-> Amount(ledgers[i], "credit")]]

\* Tally writes the side in the format of the number.
Signed(value, format) ==
  LET amount == IF value \in Int THEN value ELSE 0
       size == IF amount < 0 THEN -amount ELSE amount
  IN CASE format = "Dr" -> -size [] format = "Cr" -> size [] OTHER -> amount

Limits == <<30, 60, 90, 120, 150, 180, 365>>
\* mutant: a limit belongs to the bucket after it
Bucket_Before(days) == LET fit == {b \in DOMAIN Limits : days < Limits[b]} IN IF fit = {} THEN 8 ELSE Min(fit)

Bucket(days) == LET fit == {b \in DOMAIN Limits : days <= Limits[b]} IN IF fit = {} THEN 8 ELSE Min(fit)

\* A row of the bills is <<date, party, place, amount>>, in any order of columns;
\* formats has the format of each amount.
BillRows(sheet, through) ==
  LET header == sheet.head[HeaderRow(sheet, {"party"})]
      Get(row, word) == At(row, Column(header, {word}))
      bills == SelectSeq([i \in DOMAIN sheet.rows |-> i],
                         LAMBDA i : Get(sheet.rows[i], "party") \notin {NoDay, "-"} /\ Get(sheet.rows[i], "date") \in Int)
  IN [k \in DOMAIN bills |-> LET row == sheet.rows[bills[k]] IN
        [party |-> Get(row, "party"), place |-> Get(row, "place"), days |-> through - Get(row, "date"),
         bucket |-> Bucket(through - Get(row, "date")), amount |-> Signed(Get(row, "pending"), sheet.formats[bills[k]])]]

\* _infer_as_on_from_rows: "... to 31-Mar-2025" anywhere, then a cell that is a date.
HeaderDay(sheet, words) ==
  LET last == HeaderRow(sheet, words)
      cells == FlattenSeq(SubSeq(sheet.head, 1, IF last = 0 THEN Min({10, Len(sheet.head)}) ELSE last))
      Said(kind) == SelectSeq(cells, LAMBDA c : c.is = kind)
  IN CASE Said("to") # <<>> -> Said("to")[1].day
       [] Said("to") = <<>> /\ Said("date") # <<>> -> Said("date")[1].day
       [] OTHER -> NoDay
FirstDay(days) == LET known == SelectSeq(days, LAMBDA d : d # NoDay) IN known[1]
AsOn(input, today) ==
  FirstDay(<<input.chosen, HeaderDay(input.bills, {"party"}), HeaderDay(input.tb, {"party"}), input.file, today>>)

-----------------------------------------------------------------------------
(* The vendors.  mapping gives a name in capitals [place, kind, own].       *)

\* The place most of its bills have, the first of those that tie.
Guess(bills, name) ==
  LET of == SelectSeq(bills, LAMBDA b : b.party = name)
      Times(p) == Len(SelectSeq(of, LAMBDA b : b.place = p))
      best == {i \in DOMAIN of : \A k \in DOMAIN of : Times(of[k].place) <= Times(of[i].place)}
  IN IF of = <<>> THEN "" ELSE of[Min(best)].place
Unmapped(tb, mapping) ==
  LET key(i) == Capitals[tb[i].name]
      first == SelectSeq([i \in DOMAIN tb |-> i], LAMBDA i : key(i) \notin DOMAIN mapping /\ \A k \in 1 .. i - 1 : key(k) # key(i))
  IN [n \in DOMAIN first |-> tb[first[n]].name]
Classified(tb, bills, mapping, name) ==
  IF Capitals[name] \in DOMAIN mapping THEN mapping[Capitals[name]]
  ELSE LET first == Unmapped(tb, mapping) IN
       [place |-> Guess(bills, CHOOSE n \in ToSet(first) : Capitals[n] = Capitals[name]), kind |-> "", own |-> FALSE]

Net(tb, name) == LET of == SelectSeq(tb, LAMBDA r : r.name = name) IN Last(of).credit - Last(of).debit
SheetOf(tb, bills, mapping, name) ==
  CASE Classified(tb, bills, mapping, name).own -> "Intercompany"
    [] ~Classified(tb, bills, mapping, name).own /\ Net(tb, name) >= 0 -> "Only Creditors"
    [] OTHER -> "Advances"

\* A row has the stored values of its formulas.
AgeingRow(tb, bills, name) ==
  LET balance == Total(SelectSeq(tb, LAMBDA r : r.name = name), LAMBDA r : r.credit - r.debit)
      aged == [b \in 1 .. 8 |-> Total(SelectSeq(bills, LAMBDA x : x.party = name /\ x.bucket = b), LAMBDA x : x.amount)]
      total == Total(aged, LAMBDA n : n)
  IN [name |-> name, balance |-> balance, aged |-> aged, total |-> total, difference |-> balance - total]
Ageing(tb, bills, mapping, sheet) ==
  LET mine == SelectSeq(tb, LAMBDA r : SheetOf(tb, bills, mapping, r.name) = sheet)
      rows == [i \in DOMAIN mine |-> AgeingRow(tb, bills, mine[i].name)]
  IN [rows |-> rows, places |-> [i \in DOMAIN mine |-> Classified(tb, bills, mapping, mine[i].name).place],
      grand |-> [balance |-> Total(rows, LAMBDA r : r.balance), total |-> Total(rows, LAMBDA r : r.total),
                 difference |-> Total(rows, LAMBDA r : r.difference)]]

Sheets3 == {"Only Creditors", "Advances", "Intercompany"}
\* _build_workbook and generate_report.
CreditorsReport(input, mapping, today) ==
  IF HeaderRow(input.tb, {"debit", "credit"}) = 0 \/ HeaderRow(input.bills, {"party"}) = 0 THEN NoReport
  ELSE LET day == AsOn(input, today)  tb == TbRows(input.tb)  bills == BillRows(input.bills, day - 1)
           new == Unmapped(tb, mapping)
       IN CASE tb = <<>> \/ bills = <<>> -> NoReport
            [] tb # <<>> /\ bills # <<>> /\ new # <<>> /\ ~input.anyway -> [fix |-> [i \in DOMAIN new |-> <<new[i], Guess(bills, new[i])>>]]
            [] OTHER -> [day |-> day, tb |-> tb, bills |-> bills, new |-> new, sheets |-> [s \in Sheets3 |-> Ageing(tb, bills, mapping, s)]]

-----------------------------------------------------------------------------
(* Properties *)

\* Excel's SUMIFS, which takes no notice of capitals.
SumIfs(s, Name(_), name, Also(_), Val(_)) == Total(SelectSeq(s, LAMBDA x : Capitals[Name(x)] = Capitals[name] /\ Also(x)), Val)

\* Each ledger stands on one sheet, once; what the sheets say of balances and ages
\* is what their formulas give, adds up to the trial balance and to the bills of
\* its ledgers, and a bill of n days stands under the heading that n belongs to.
CreditorsAddUp(report) ==
  report # NoReport /\ "sheets" \in DOMAIN report =>
    LET all == FlattenSeq(<<report.sheets["Only Creditors"].rows, report.sheets["Advances"].rows, report.sheets["Intercompany"].rows>>)
        from == <<-10000, 31, 61, 91, 121, 151, 181, 366>>
        names == {report.tb[i].name : i \in DOMAIN report.tb}
    IN /\ Len(all) = Cardinality(names) /\ {all[i].name : i \in DOMAIN all} = names
       /\ \A i \in DOMAIN all : LET r == all[i] IN
            /\ r.balance = SumIfs(report.tb, LAMBDA t : t.name, r.name, LAMBDA t : TRUE, LAMBDA t : t.credit - t.debit)
            /\ \A b \in 1 .. 8 :
                 r.aged[b] = SumIfs(report.bills, LAMBDA x : x.party, r.name,
                                    LAMBDA x : from[b] <= x.days /\ (b = 8 \/ x.days < from[b + 1]), LAMBDA x : x.amount)
       /\ Total(all, LAMBDA r : r.balance) = Total(report.tb, LAMBDA t : t.credit - t.debit)
       /\ Total(all, LAMBDA r : r.total) = Total(SelectSeq(report.bills, LAMBDA x : x.party \in names), LAMBDA x : x.amount)
       /\ \A s \in Sheets3 : report.sheets[s].grand.difference = report.sheets[s].grand.balance - report.sheets[s].grand.total
       /\ \A i \in DOMAIN report.sheets["Advances"].rows : report.sheets["Advances"].rows[i].balance < 0

-----------------------------------------------------------------------------
(* The trial balance tools. *)

CONSTANTS
  Stripped,   \* a location segment without its leading zeros
  Tolerance,  \* figures this close are the same
  Usual       \* the nature a primary group has by habit

SumOf(s, Val(_)) == FoldLeft(LAMBDA n, x : n + Val(x), 0, s)
Lookup(map, key) == IF key \in DOMAIN map THEN map[key] ELSE ""

-----------------------------------------------------------------------------
(* By location.  A row of the report has cells (how many), dots (in the     *)
(* account combination), segment, account and ending; maps has the places'  *)
(* names, their regions and the regions' accountants.                       *)

Banner == 9
DataRows(rows) == SelectSeq(SubSeq(rows, Banner + 1, Len(rows)), LAMBDA r : r.cells = 6 /\ r.dots >= 2)
Code(row) == Stripped[row.segment]
RegionBehind(row, maps) == LET name == Lookup(maps.names, Code(row)) IN IF name = "" THEN "" ELSE Lookup(maps.regions, name)
\* mutant: only a place without a name is reported
MissingCodes_Names(rows, maps) == {Code(rows[i]) : i \in {k \in DOMAIN rows : Code(rows[k]) # "" /\ Lookup(maps.names, Code(rows[k])) = ""}}

MissingCodes(rows, maps) == {Code(rows[i]) : i \in {k \in DOMAIN rows : Code(rows[k]) # "" /\ RegionBehind(rows[k], maps) = ""}}

MissingPersons(rows, maps) == {rows[i].account : i \in DOMAIN rows} \ (DOMAIN maps.persons \cup {""})
Placed(row, maps) ==
  [row |-> row, region |-> RegionBehind(row, maps), incharge |-> Lookup(maps.incharges, RegionBehind(row, maps)), person |-> Lookup(maps.persons, row.account)]

\* _build_pivot_sheet: picked is a sequence of accounts.
Pivot(placed, picked) ==
  LET mapped == SelectSeq(placed, LAMBDA p : p.region # "")
      regions == {mapped[i].region : i \in DOMAIN mapped}
      Cell(region, account) == SumOf(SelectSeq(mapped, LAMBDA p : p.region = region /\ p.row.account = account), LAMBDA p : p.row.ending)
      lines == [g \in regions |-> [cells |-> [k \in DOMAIN picked |-> Cell(g, picked[k])],
                                   incharge |-> SelectSeq(mapped, LAMBDA p : p.region = g)[1].incharge]]
  IN [lines |-> [g \in regions |-> [lines[g] EXCEPT !.cells = Append(@, SumOf(@, LAMBDA n : n))]],
      totals |-> [k \in 1 .. Len(picked) + 1 |->
                    FoldSet(LAMBDA g, n : n + (IF k <= Len(picked) THEN lines[g].cells[k] ELSE SumOf(lines[g].cells, LAMBDA x : x)), 0, regions)]]

LocationReport(input) ==
  LET rows == DataRows(input.rows)  placed == [i \in DOMAIN rows |-> Placed(rows[i], input.maps)]
  IN [placed |-> placed, missing |-> MissingCodes(rows, input.maps), persons |-> MissingPersons(rows, input.maps), pivot |-> Pivot(placed, input.picked)]

-----------------------------------------------------------------------------
(* Tally's.  A row has name, indent, opening, debit, credit and closing.    *)

Near(a, b) == a - b <= Tolerance /\ b - a <= Tolerance
SectionEnd(rows, i) == Min({k \in i + 1 .. Len(rows) : rows[k].indent = 0} \cup {Len(rows) + 1})

\* mutant: a roll-up is followed by the rows it stands for
EndOf_Own(ends, j) == j

EndOf(ends, j) == IF j \in DOMAIN ends THEN ends[j] ELSE j

\* _detect_hierarchy: one row against the run of rows after it, where a row that
\* rolls others up stands for them.  ends has for each roll-up the last row it took
\* (subtree_end): the end of what is below it, unless that row is a roll-up, too.
Absorbs(rows, i, ends) ==
  LET Match(s, j) ==
        /\ Near(s.debit, rows[i].debit) /\ Near(s.credit, rows[i].credit)
        /\ ~(s.steps = 1 /\ rows[j].indent <= rows[i].indent)
        /\ rows[i].debit = 0 /\ rows[i].credit = 0 => Near(s.opening, rows[i].opening) /\ Near(s.closing, rows[i].closing)
      Take(s, j) ==
        IF s.found \/ j # s.next THEN s
        ELSE LET t == [s EXCEPT !.opening = @ + rows[j].opening, !.debit = @ + rows[j].debit, !.credit = @ + rows[j].credit,
                                !.closing = @ + rows[j].closing, !.steps = @ + 1, !.last = j,
                                !.next = EndOf(ends, j) + 1]
             IN [t EXCEPT !.found = Match(t, j)]
      start == [opening |-> 0, debit |-> 0, credit |-> 0, closing |-> 0, steps |-> 0, last |-> i, next |-> i + 1, found |-> FALSE]
  IN FoldLeft(Take, start, [k \in 1 .. SectionEnd(rows, i) - 1 - i |-> i + k])
\* From the last row to the first; what stands before the first group is in none.
RollUps(rows) ==
  FoldLeft(LAMBDA ends, n : LET i == Len(rows) + 1 - n  run == Absorbs(rows, i, ends)
                            IN IF run.found /\ \E k \in 1 .. i : rows[k].indent = 0
                               THEN [k \in DOMAIN ends \cup {i} |-> IF k = i THEN run.last ELSE ends[k]] ELSE ends,
           <<>>, [n \in DOMAIN rows |-> n])

Nature(r) ==
  LET dr == Near(r.opening + r.debit - r.credit, r.closing)  cr == Near(r.opening - r.debit + r.credit, r.closing)
  IN CASE dr /\ ~cr -> "Dr" [] cr /\ ~dr -> "Cr" [] dr /\ cr -> "either" [] OTHER -> "conflict"
GroupOf(rows, i) == LET tops == {k \in 1 .. i : rows[k].indent = 0} IN IF tops = {} THEN "" ELSE rows[Max(tops)].name

\* _classify_rows: a saved classification (nature, sub) counts before the figures.
Classify(rows, saved) ==
  LET ends == RollUps(rows)
      top(i) == rows[i].indent = 0
      known(i) == rows[i].name \in DOMAIN saved
      sub(i) == IF known(i) THEN saved[rows[i].name].sub /\ ~top(i) ELSE i \in DOMAIN ends
      nature(i) == CASE known(i) -> saved[rows[i].name].nature
                     [] ~known(i) /\ Nature(rows[i]) \in {"Dr", "Cr"} -> Nature(rows[i])
                     [] OTHER -> IF GroupOf(rows, i) \in DOMAIN Usual THEN Usual[GroupOf(rows, i)] ELSE "Dr"
  IN [i \in DOMAIN rows |->
        [name |-> rows[i].name, top |-> top(i), sub |-> sub(i), shown |-> top(i) \/ ~sub(i), nature |-> nature(i), review |-> ~known(i),
         conflict |-> ~known(i) /\ Nature(rows[i]) = "conflict",
         balance |-> IF ~(top(i) \/ ~sub(i)) THEN 0 ELSE IF nature(i) = "Cr" THEN -rows[i].closing ELSE rows[i].closing]]

\* generate_report: the rows end at the grand total.
TallyReport(input) ==
  LET lines == Classify(input.rows, input.saved)
      review == SelectSeq(lines, LAMBDA l : l.review)
      warned == Len(SelectSeq(lines, LAMBDA l : l.conflict)) + (IF Near(input.grand.debit, input.grand.credit) THEN 0 ELSE 1)
  IN IF review # <<>> /\ ~input.anyway THEN [written |-> FALSE, review |-> review, warned |-> warned]
     ELSE [written |-> TRUE, lines |-> lines, review |-> review, warned |-> warned + (IF review = <<>> THEN 0 ELSE 1),
           total |-> SumOf(lines, LAMBDA l : l.balance)]

-----------------------------------------------------------------------------
(* Properties *)

\* No amount of a picked account is left out of the regions' sums without its
\* location being reported, and the sums agree across and down.
PivotComplete(input, report) ==
  LET all == SelectSeq(report.placed, LAMBDA p : p.row.account \in ToSet(input.picked))
      left == SelectSeq(all, LAMBDA p : p.region = "")
      n == Len(input.picked) + 1
  IN /\ \A i \in DOMAIN left : Code(left[i].row) \in report.missing \cup {""}
     /\ report.pivot.totals[n] = SumOf(all, LAMBDA p : p.row.ending) - SumOf(left, LAMBDA p : p.row.ending)
     /\ report.pivot.totals[n] = SumOf(SubSeq(report.pivot.totals, 1, n - 1), LAMBDA x : x)
     /\ \A g \in DOMAIN report.pivot.lines : \A i \in DOMAIN report.placed : report.placed[i].region = g => report.placed[i].incharge = report.pivot.lines[g].incharge

\* A group whose sub-group ends in a group of its own and has rows after that: the
\* rows of the inner one are taken twice, against what the code says of itself.
TakesTwice(input) ==
  LET ends == input.groups
  IN {p \in DOMAIN ends : input.rows[p].indent > 0 /\ \E g, h \in DOMAIN ends :
        p < g /\ g < h /\ ends[h] = ends[g] /\ ends[g] < ends[p]}

\* Where the figures do not happen to add up by chance (groups has the last row of
\* each group), the groups are found; and where every figure tells its side, the
\* ledgers' balances below a primary group come to the group's own.  Not so above
\* or at a group that takes rows twice: that one is not found, and is added beside
\* its ledgers.
GroupsFound(input, report) ==
  \A i \in DOMAIN report.lines :
    LET l == report.lines[i]
        e == IF l.top THEN SectionEnd(input.rows, i) - 1 ELSE IF i \in DOMAIN input.groups THEN input.groups[i] ELSE i
    IN TakesTwice(input) \cap i .. e = {} =>
         /\ ~l.top => (l.sub <=> i \in DOMAIN input.groups)
         /\ l.top /\ e > i /\ (\A k \in i .. e : Nature(input.rows[k]) \in {"Dr", "Cr"})
              => l.balance = SumOf(SubSeq(report.lines, i + 1, e), LAMBDA x : x.balance)
=============================================================================
