---------------------------- MODULE ReportRules ----------------------------
(***************************************************************************)
(* The reports that are worked out from uploaded sheets, one run of a tool *)
(* at a time; the finishing of their files, one piece of work at a time;   *)
(* the move of their mappings to the regions of the ERP; and the mails of  *)
(* the tools that send their reports to customers and executives.          *)
(***************************************************************************)
EXTENDS Ledgers, Unaccounted, OpenItems, Combiners, BulkMail

CONSTANTS
  Inputs,  \* for each tool or piece of work, the inputs there are
  NotYet,
  One, EvalLimit, RkBits, Plain, MaxCol,  \* of the files
  Legacy,     \* old place and its region, in the order of the code's table
  ErpRegions,
  Upper,      \* [spelling -> in capitals]
  Fold,       \* [spelling -> what does not tell two spellings apart]
  Nobody

Files == INSTANCE Xlsb

-----------------------------------------------------------------------------
(* services/customer_region.py: the one-time move of two mapping tables,   *)
(* place -> accounts incharge and name -> place, to the ERP's names of the *)
(* regions.  Tables are functions to [who, on] and [at, on]; rows that are *)
(* not on are archived.                                                    *)

OldPlaces == {Legacy[i][1] : i \in DOMAIN Legacy}
RegionOf(place) == Legacy[CHOOSE i \in DOMAIN Legacy : Legacy[i][1] = place][2]

Held(db, place) == place \in DOMAIN db.incharges /\ db.incharges[place].on /\ db.incharges[place].who # Nobody

\* The incharge of most of a region's old places; of equals, the one met first.
Elected(db, region) ==
  LET own == {i \in DOMAIN Legacy : Legacy[i][2] = region /\ Held(db, Legacy[i][1])}
      Who(i) == db.incharges[Legacy[i][1]].who
      Times(i) == Cardinality({k \in own : Who(k) = Who(i)})
  IN IF own = {} THEN Nobody ELSE Who(Min({i \in own : \A k \in own : Times(k) <= Times(i)}))

\* mutant: a region's row is always a new one
SameSpelling_Never(db, regions) == {}

\* A row spelled like one of the regions is renamed to it; of two such rows, which
\* the database keeps apart, one (by_fold has the one read last).
Alike(db, region) == {s \in DOMAIN db.incharges : Fold[s] = Fold[region]}
SameSpelling(db, regions) == {CHOOSE s \in Alike(db, r) : TRUE : r \in {x \in regions : Alike(db, x) # {}}}

\* The row of an old place is archived; no name is left there that would use it.
Archived(row, place) == IF place \in OldPlaces THEN [row EXCEPT !.on = FALSE] ELSE row
Moved(row) == IF row.on /\ Upper[row.at] \in OldPlaces THEN [row EXCEPT !.at = RegionOf(Upper[row.at])] ELSE row

Migrated(db) ==
  LET regions == {r \in ErpRegions : Elected(db, r) # Nobody}
      kept == DOMAIN db.incharges \ SameSpelling(db, regions)
  IN IF DOMAIN db.incharges \cap ErpRegions # {} \/ regions = {} THEN db
     ELSE [incharges |-> [s \in kept \cup regions |->
                            IF s \in regions THEN [who |-> Elected(db, s), on |-> TRUE] ELSE Archived(db.incharges[s], s)],
           places |-> [n \in DOMAIN db.places |-> Moved(db.places[n])]]

-----------------------------------------------------------------------------
(* The runs. *)

VARIABLES
  run,    \* the tool and its input
  report  \* what came of it

reports == <<run, report, bulkMail>>

Given == run[2]
ReportsInit ==
  /\ \E t \in DOMAIN Inputs : \E x \in Inputs[t] : run = <<t, x>>
  /\ report = NotYet
  /\ BulkInit /\ (bulk.tool # "none" <=> run[1] = "mails")
Comes(tool, what) == run[1] = tool /\ report = NotYet /\ report' = what /\ UNCHANGED <<run, bulkMail>>

AgesCreditors == Comes("creditors", CreditorsReport(Given, Given.mapping, Given.today))
PlacesBalances == Comes("locations", LocationReport(Given))
FormatsTally == Comes("tally", TallyReport(Given))
PlacesTransactions == Comes("transactions", UnaccountedReport(Given))
SortsOrders == Comes("orders", OrdersReport(Given))
CountsReceipts == Comes("receipts", ReceiptsReport(Given))
AgesInvoices == Comes("invoices", InvoicesReport(Given))
ListsUnapplied == Comes("unapplied", UnappliedReport(Given))
AddsGst == Comes("gst", GstReport(Given))
CombinesExports == Comes("gst2b", CombinedReport(Given))
CombinesPeriods == Comes("closing", ClosingReport(Given))
MovesRegions == Comes("regions", Migrated(Given))

WritesRecord == Comes("record", Files!Record(Given.id, Given.size))
WritesNumber == Comes("number", Files!CellNumber(Given))
CompilesFormula ==
  Comes("formula", LET p == Files!ParseFormula(Given)
                   IN IF p.refused THEN Files!Refused ELSE [tokens |-> Files!Compile(p.tree, "value"), refused |-> FALSE])
WritesFormat == Comes("format", Files!CellFormat(Given))
ReadsLayout == Comes("layout", Files!Layout(Given))
FeedsSheet == Comes("blocks", Files!FeedSheet(Given))
ConvertsBook == Comes("book", Files!ConvertBook(Given, TRUE))
CachesValues == Comes("values", [p \in Files!FormulaCells(Given) |-> Files!CachedValue(Given, p)])
InjectsValues == Comes("inject", Files!Injected(Given.book, Given.values))

SendsMails == run[1] = "mails" /\ BulkNext /\ UNCHANGED <<run, report>>

ReportsNext ==
  \/ AgesCreditors \/ PlacesBalances \/ FormatsTally
  \/ PlacesTransactions \/ SortsOrders \/ CountsReceipts
  \/ AgesInvoices \/ ListsUnapplied \/ AddsGst
  \/ CombinesExports \/ CombinesPeriods \/ MovesRegions
  \/ WritesRecord \/ WritesNumber \/ CompilesFormula \/ WritesFormat \/ ReadsLayout
  \/ FeedsSheet \/ ConvertsBook \/ CachesValues \/ InjectsValues
  \/ SendsMails
ReportsSpec == ReportsInit /\ [][ReportsNext]_reports

-----------------------------------------------------------------------------
(* Properties *)

\* A name whose place had an incharge has one after the move, the same if the old
\* places of its region agree (not so for places a user spelled like a region);
\* no region gets a row beside one spelled like it; and to move again changes nothing.
RegionsMoved(db, after) ==
  LET OneOf(place) == \A i, k \in DOMAIN Legacy :
        Legacy[i][2] = RegionOf(place) /\ Legacy[k][2] = RegionOf(place) /\ Held(db, Legacy[i][1]) /\ Held(db, Legacy[k][1])
          => db.incharges[Legacy[i][1]].who = db.incharges[Legacy[k][1]].who
      spelled == {s \in DOMAIN Fold : s \notin OldPlaces /\ \E r \in ErpRegions : Fold[s] = Fold[r]}
  IN /\ \A n \in DOMAIN db.places :
          LET at == db.places[n].at
              now == after.places[n].at
          IN db.places[n].on /\ Held(db, at) /\ at \notin spelled =>
               /\ Held(after, now)
               /\ (at \in OldPlaces => OneOf(at)) => after.incharges[now].who = db.incharges[at].who
     /\ \A r \in ErpRegions : Cardinality(Alike(after, r)) <= Max({1, Cardinality(Alike(db, r))})
     /\ Migrated(after) = after

Came(tool) == run[1] = tool /\ report # NotYet

\* The ageing of creditors adds up, in its formulas and in what is stored beside them;
\* neither trial balance loses or doubles an amount.
LedgersRight ==
  /\ Came("creditors") => CreditorsAddUp(report)
  /\ Came("locations") => PivotComplete(Given, report)
  /\ Came("tally") /\ report.written /\ Given.generic => GroupsFound(Given, report)

\* Every transaction, order line and receipt is placed once, and the totals its
\* workbook stores are those of its rows.
TransactionsRight ==
  /\ Came("transactions") => TransactionsPlaced(Given, report)
  /\ Came("orders") => OrdersSorted(Given, report)
  /\ Came("receipts") => ReceiptsCounted(report)

\* The summaries of open invoices and of unapplied receipts are those of their rows,
\* for a reader that does not calculate too; each numbered item is listed once with
\* the GST number of its own key.
OpenItemsRight ==
  /\ Came("invoices") => InvoicesAddUp(Given, report)
  /\ Came("unapplied") => UnappliedAddsUp(Given, report)
  /\ Came("gst") => GstAdded(Given, report)

\* Exports and closing reports are combined without loss, and their summaries add up.
CombinedRight ==
  /\ Came("gst2b") => ExportsCombined(Given, report)
  /\ Came("closing") => ClosingAddsUp(Given, report)

\* The move to the ERP's regions leaves no name without the incharge it had.
RegionsRight == Came("regions") => RegionsMoved(Given, report)

\* What is written to a file is read back as what was meant: headers, numbers,
\* formats, formulas with the binding of their operators, layouts, sheets whatever
\* the blocks they are read in, and workbooks by either route of a row.  The numbers
\* beside the formulas are Excel's, in the mail, in the .xlsx and, as far as it goes,
\* in the .xlsb.
FilesRight ==
  /\ Came("record") => Files!ReadRecord(report) = [id |-> Given.id, size |-> Given.size, whole |-> TRUE]
  /\ Came("number") => Files!ReadNumber(report) = Given
  /\ Came("formula") /\ ~report.refused => Files!FormulaKept(Given, report.tokens)
  /\ Came("format") /\ ~report.refused => Files!ReadFormat(report.flags) = Given
  /\ Came("layout") => Files!LayoutKept(Given, report)
  /\ Came("blocks") => Files!BlocksKept(Given, report)
  /\ Came("book") => Files!BookKept(Given, report)
  /\ Came("values") => Files!MailAndCacheAreRight(Given) /\ Files!BinaryIsRight(Given)
  /\ Came("inject") => Files!InjectedRight(Given.book, Given.values, report)
=============================================================================
