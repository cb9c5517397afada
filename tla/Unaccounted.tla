---------------------------- MODULE Unaccounted ----------------------------
(***************************************************************************)
(* The three reports of the unaccounted-transactions tool: who each row    *)
(* belongs to (services/unaccounted/processing.py), and the tables its     *)
(* workbooks open with (excel_writers.py, vendorwise_pivot.py), whose      *)
(* totals are formulas.                                                    *)
(***************************************************************************)
EXTENDS Combiners, Integers, Sequences, FiniteSets, SequencesExt, FiniteSetsExt, TLC

CONSTANTS
  Builtin,      \* the [place, incharge] of a supplier site, as shipped
  SpecialSites  \* sites without a place: their rows go by who created them

-----------------------------------------------------------------------------
(* Placing.  store has the saved sites and creators ([place, incharge]),    *)
(* the incharges of places and the excluded orders.                         *)

Unplaced == [place |-> "", incharge |-> ""]
InchargeOf(store, place, saved) ==
  IF place \in DOMAIN store.incharges /\ store.incharges[place] # "" THEN store.incharges[place] ELSE saved
AllSites(store) == store.sites @@ Builtin
\* mutant: a saved place for a special site counts like any other
EffectiveSites_All(store) == AllSites(store)

EffectiveSites(store) == [s \in DOMAIN store.sites \ SpecialSites |-> store.sites[s]] @@ Builtin

AtSite(rows, sites, store) ==
  [i \in DOMAIN rows |->
     LET p == IF rows[i].site \in DOMAIN sites THEN sites[rows[i].site] ELSE Unplaced
     IN [place |-> p.place, incharge |-> InchargeOf(store, p.place, p.incharge)] @@ rows[i]]
Without(rows) == SelectSeq(rows, LAMBDA r : r.place = "")
With(rows) == SelectSeq(rows, LAMBDA r : r.place # "")

\* Where most of a creator's rows are, the first of those that tie.
Usually(rows, by) ==
  LET of == SelectSeq(With(rows), LAMBDA r : r.by = by)
      Times(r) == Len(SelectSeq(of, LAMBDA q : q.place = r.place /\ q.incharge = r.incharge))
      most == of[Min({i \in DOMAIN of : \A k \in DOMAIN of : Times(of[k]) <= Times(of[i])})]
  IN [place |-> most.place, incharge |-> most.incharge]
Creators(rows, store) ==
  store.creators @@ [by \in {With(rows)[i].by : i \in DOMAIN With(rows)} \ {""} |-> Usually(rows, by)]
Infers(row, rows, store) == row.site \in SpecialSites /\ row.place = "" /\ row.by \in DOMAIN Creators(rows, store)
Inferred(row, rows, store) ==
  LET c == Creators(rows, store)[row.by] IN [place |-> c.place, incharge |-> InchargeOf(store, c.place, c.incharge)]
Learned(rows, store) ==
  [by \in {rows[i].by : i \in {k \in DOMAIN rows : Infers(rows[k], rows, store)}} \ DOMAIN store.creators |->
     Inferred([by |-> by], rows, store)]

-----------------------------------------------------------------------------
(* Tables.  A line has its counts in the columns after its names, and a     *)
(* table says where its totals are.                                         *)

\* From column c on, with a total at its end if there is one.
Line(row, c, counts, total) ==
  LET last == c + Len(counts) - 1
  IN [p \in {row} \X (c .. IF total THEN last + 1 ELSE last) |->
        IF p[2] <= last THEN Number(counts[p[2] - c + 1]) ELSE SumCell(<<row, c>>, <<row, last>>)]

\* A place with one incharge is one line; one with several is a heading, its lines
\* and their total.
Block(table, lines, total) ==
  LET n == Len(lines)  row == table.next  width == Len(lines[1]) + (IF total THEN 1 ELSE 0)
  IN IF n = 1 THEN [cells |-> table.cells @@ Line(row, 3, lines[1], total), next |-> row + 1, ends |-> Append(table.ends, row)]
     ELSE [cells |-> FoldLeft(LAMBDA cells, i : cells @@ Line(row + i, 3, lines[i], total),
                              table.cells @@ TotalLine(row + n + 1, 3, width, row + 1, row + n), [i \in 1 .. n |-> i]),
           next |-> row + n + 2, ends |-> Append(table.ends, row + n + 1)]
Blocks(groups, width, total) ==
  LET t == FoldLeft(LAMBDA table, lines : Block(table, lines, total), [cells |-> <<>>, next |-> 2, ends |-> <<>>], groups)
  IN [cells |-> t.cells @@ TotalLine(t.next, 3, width + (IF total THEN 1 ELSE 0), 2, t.next - 1), ends |-> t.ends, grand |-> t.next]

\* mutant: the last line is left out
LastRow_Short(first, n) == first + n - 2

LastRow(first, n) == first + n - 1

Flat(lines, first, c, width) ==
  LET foot == first + Len(lines)
  IN [cells |-> FoldLeft(LAMBDA cells, i : cells @@ Line(first + i - 1, c, lines[i], TRUE),
                         TotalLine(foot, c, width + 1, first, LastRow(first, Len(lines))), [i \in DOMAIN lines |-> i]),
      grand |-> foot]

Months(rows) == {rows[i].month : i \in DOMAIN rows}
Counts(months, Is(_), rows) == [m \in DOMAIN months |-> Len(SelectSeq(rows, LAMBDA r : Is(r) /\ r.month = months[m]))]
\* For each of the places, a line of each of its incharges.
ByPlace(places, months, rows) ==
  [g \in DOMAIN places |->
     LET who == Ordered({rows[i].incharge : i \in {k \in DOMAIN rows : rows[k].place = places[g]}})
     IN [w \in DOMAIN who |-> Counts(months, LAMBDA r : r.place = places[g] /\ r.incharge = who[w], rows)]]
PlacesOf(rows) == Ordered({rows[i].place : i \in DOMAIN rows})

-----------------------------------------------------------------------------
(* Unaccounted transactions: files of [period, rows] of [site, by, no]. *)

MainTable(rows) ==
  LET mapped == With(rows)  months == Ordered(Months(mapped))  places == PlacesOf(mapped)
      many == Cardinality(Months(rows)) > 1
  IN [months |-> months, places |-> places, many |-> many, table |-> Blocks(ByPlace(places, months, mapped), Len(months), many)]
\* The rows without a place, and how many of them but the blank ones are at each site.
UnmappedSites(rows, blank) ==
  LET left == Without(rows)
  IN [detail |-> left,
      counts |-> [s \in {left[i].site : i \in DOMAIN left} \ {""} |-> Len(SelectSeq(left, LAMBDA r : r.site = s /\ r \notin blank))]]

\* process_report_multi and _job_unaccounted.
UnaccountedReport(input) ==
  LET rows == FlattenSeq([f \in DOMAIN input.files |->
                [i \in DOMAIN input.files[f].rows |-> [month |-> input.files[f].period] @@ input.files[f].rows[i]]])
      sited == AtSite(rows, EffectiveSites(input.store), input.store)
      lines == [i \in DOMAIN sited |-> IF Infers(sited[i], sited, input.store) THEN Inferred(sited[i], sited, input.store) @@ sited[i] ELSE sited[i]]
      written == Without(lines) = <<>> \/ input.anyway
      blank == ToSet(SelectSeq(lines, LAMBDA r : r.no = ""))
  IN [lines |-> lines, written |-> written, unmapped |-> UnmappedSites(lines, blank), main |-> IF written THEN MainTable(lines) ELSE <<>>,
      store |-> [input.store EXCEPT !.creators = @ @@ Learned(sited, input.store)]]

-----------------------------------------------------------------------------
(* Orders without an invoice (rows of [po, month, site, like: the keywords  *)
(* its description resembles]) and pending receipts ([supplier, month,      *)
(* site]), both without the months the user leaves out.                     *)

\* _require_detected_periods and _validate_excluded_periods.
Accepted(input) ==
  LET found == Months(input.rows) \ {""} IN found # {} /\ input.exclude \subseteq found
Remaining(input) == AtSite(SelectSeq(input.rows, LAMBDA r : r.month \notin input.exclude), AllSites(input.store), input.store)

Sorted(r, input) == r.like \cap input.keywords # {} \/ r.po \in input.store.excluded
\* mutant: an order is counted by its lines
Distinct_Lines(rows) == rows

Distinct(rows) ==
  LET Same(a, b) == a.po = b.po /\ a.place = b.place /\ a.incharge = b.incharge /\ a.month = b.month
      first == SelectSeq([i \in DOMAIN rows |-> i], LAMBDA i : \A k \in 1 .. i - 1 : ~Same(rows[k], rows[i]))
  IN [n \in DOMAIN first |-> rows[first[n]]]

OrderTable(rows) ==
  LET once == Distinct(rows)  months == Ordered(Months(once))  places == PlacesOf(once)
  IN [months |-> months, places |-> places, table |-> Blocks(ByPlace(places, months, once), Len(months), TRUE)]
\* process_po_report and _job_po.
OrdersReport(input) ==
  IF ~Accepted(input) THEN [written |-> FALSE, refused |-> TRUE]
  ELSE LET rows == Remaining(input)
           main == SelectSeq(With(rows), LAMBDA r : ~Sorted(r, input))
           written == Without(rows) = <<>> \/ input.anyway
       IN [written |-> written, refused |-> FALSE, unmapped |-> Without(rows), moved |-> SelectSeq(With(rows), LAMBDA r : Sorted(r, input)),
           main |-> main, first |-> IF written /\ main # <<>> THEN OrderTable(main) ELSE <<>>]

LocationTable(rows) ==
  LET mapped == With(rows)  months == Ordered(Months(mapped))
      who == Ordered({<<mapped[i].place, mapped[i].incharge>> : i \in DOMAIN mapped})
  IN [months |-> months, table |-> Flat([w \in DOMAIN who |-> Counts(months, LAMBDA r : <<r.place, r.incharge>> = who[w], mapped)], 2, 3, Len(months))]
\* A receipt without a supplier is in no line.
VendorTable(rows) ==
  LET months == Ordered(Months(SelectSeq(rows, LAMBDA r : r.supplier # "")))
      suppliers == Ordered({rows[i].supplier : i \in DOMAIN rows} \ {""})
  IN [months |-> months, suppliers |-> suppliers,
      table |-> Flat([s \in DOMAIN suppliers |-> Counts(months, LAMBDA r : r.supplier = suppliers[s], rows)], 5, 2, Len(months))]
\* attach_vendorwise_pivot: the supplier each record of the pivot's cache refers to.
CacheRecords(rows, suppliers) ==
  [i \in DOMAIN rows |-> IF \E s \in DOMAIN suppliers : suppliers[s] = rows[i].supplier
                         THEN CHOOSE s \in DOMAIN suppliers : suppliers[s] = rows[i].supplier ELSE 1]
\* process_mrn_report and _job_mrn.
ReceiptsReport(input) ==
  IF ~Accepted(input) THEN [written |-> FALSE, refused |-> TRUE]
  ELSE LET rows == Remaining(input)  written == Without(rows) = <<>> \/ input.anyway
           vendors == VendorTable(rows)
       IN IF ~written THEN [written |-> FALSE, refused |-> FALSE]
          ELSE [written |-> TRUE, refused |-> FALSE, rows |-> rows, unmapped |-> UnmappedSites(rows, {}), locations |-> LocationTable(rows),
                vendors |-> vendors, cache |-> CacheRecords(rows, vendors.suppliers)]

-----------------------------------------------------------------------------
(* Properties *)

Many(rows, Is(_)) == Excel!N(Len(SelectSeq(rows, Is)))
\* A table's grand total counts its rows, by month and together.
Totals(t, c, rows, together) ==
  /\ \A m \in DOMAIN t.months : Shows(t.table, t.table.grand, c + m - 1) = Many(rows, LAMBDA r : r.month = t.months[m])
  /\ together => Shows(t.table, t.table.grand, c + Len(t.months)) = Many(rows, LAMBDA r : TRUE)
PlaceTotals(t, rows) ==
  \A g \in DOMAIN t.places : \A m \in DOMAIN t.months :
    Shows(t.table, t.table.ends[g], 2 + m) = Many(rows, LAMBDA r : r.place = t.places[g] /\ r.month = t.months[m])

\* Each transaction is counted once on the first sheet or, if it has a site and a
\* number, at its unmapped site; one of a special site is where its creator's others
\* are, whatever is saved for that site; and the report run again on what it learned
\* places every row the same.
TransactionsPlaced(input, report) ==
  /\ report.written =>
       /\ Totals(report.main, 3, With(report.lines), report.main.many)
       /\ PlaceTotals(report.main, With(report.lines))
       /\ Len(With(report.lines)) + FoldSet(LAMBDA s, n : n + report.unmapped.counts[s], 0, DOMAIN report.unmapped.counts)
            = Len(SelectSeq(report.lines, LAMBDA r : r.place # "" \/ (r.site # "" /\ r.no # "")))
  /\ \A i \in DOMAIN report.lines : LET r == report.lines[i] IN
       r.site \in SpecialSites /\ r.place # "" =>
         \/ r.by \in DOMAIN input.store.creators /\ r.place = input.store.creators[r.by].place
         \/ \E k \in DOMAIN report.lines : report.lines[k].by = r.by /\ report.lines[k].site \notin SpecialSites /\ report.lines[k].place = r.place
  /\ UnaccountedReport([input EXCEPT !.store = report.store]).lines = report.lines

\* Each order line is on one of the three sheets unless its month is left out; the
\* first sheet counts an order once a place, incharge and month.
OrdersSorted(input, report) ==
  report.written =>
    LET all == report.main \o report.moved \o report.unmapped
        orders == {[po |-> report.main[i].po, place |-> report.main[i].place, who |-> report.main[i].incharge, month |-> report.main[i].month] : i \in DOMAIN report.main}
    IN /\ {all[i].line : i \in DOMAIN all} = {input.rows[i].line : i \in {k \in DOMAIN input.rows : input.rows[k].month \notin input.exclude}}
       /\ IsInjective([i \in DOMAIN all |-> all[i].line])
       /\ {report.main[i].po : i \in DOMAIN report.main} \cap input.store.excluded = {}
       /\ report.main # <<>> => Totals(report.first, 3, Ordered(orders), TRUE) /\ PlaceTotals(report.first, Ordered(orders))

\* The tables of receipts count every receipt with a place, and with a supplier;
\* if all have one, the pivot's records count as the table does.
PivotAgrees(report) ==
  \A s \in DOMAIN report.vendors.suppliers :
    Shows(report.vendors.table, 4 + s, 2 + Len(report.vendors.months)) = Many(report.cache, LAMBDA k : k = s)
ReceiptsCounted(report) ==
  report.written =>
    /\ Without(report.rows) # report.rows => Totals(report.locations, 3, With(report.rows), TRUE)
    /\ Totals(report.vendors, 2, SelectSeq(report.rows, LAMBDA r : r.supplier # ""), TRUE)
    /\ (\A i \in DOMAIN report.rows : report.rows[i].supplier # "") => PivotAgrees(report)
=============================================================================
