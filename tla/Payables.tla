------------------------------ MODULE Payables ------------------------------
(***************************************************************************)
(* RDC Payables: the ERP document is parsed, its rows are placed, typed    *)
(* and filtered by six mapping tables (services/rdc_payables/processor.py),*)
(* and the report is written unless a vendor site has no region; users     *)
(* edit the tables meanwhile (routers/rdc_payables.py).                    *)
(***************************************************************************)
EXTENDS Integers, Sequences, FiniteSetsExt, SequencesExt, Functions, TLC

CONSTANTS
  Bills,         \* the data rows of the document
  Bill,          \* [b -> [gl, date, site, code, vendor, invoice, amount, marks]]
  MonthEnds,     \* day numbers: the last day of each month
  Derived,       \* sites placed by the location code in the distribution account
  Sites, Codes, Regions,
  Vendors, Invoices,
  Threads,       \* worker processes the parser may use
  Accountants,       \* users who edit the tables
  PayScenarios,  \* [tables, doc, months, clerks, edits, budget, allow]
  Nobody, Missing

VARIABLES
  tables,  \* the active rows of the mapping tables
  revise,  \* each user's edit between its two transactions
  run,     \* the report job: its snapshot and what came of it
  paydesk, revisions

payables == <<tables, revise, run, paydesk, revisions>>

Wide == ""   \* the invoice number of an entry for the whole vendor
Pairs == Vendors \X (Invoices \cup {Wide})
NoPlace == [region |-> "", incharge |-> ""]

-----------------------------------------------------------------------------
(* parse_html_report: a document is a sequence of rows, each "skip",       *)
(* "header", "stop" or a bill.                                             *)

Reduced(rows) ==
  LET stops == {i \in DOMAIN rows : rows[i] = "stop"}
      before == IF stops = {} THEN rows ELSE SubSeq(rows, 1, Min(stops) - 1)
  IN SelectSeq(before, LAMBDA r : r \in Bills)

\* _find_chunk_boundaries, in rows: where each worker's slice ends.
Boundaries(rows, n) ==
  LET chunks == Max({1, Min({n, Len(rows)})})
  IN IF Len(rows) < 2 THEN {0, Len(rows)}
     ELSE {0, Len(rows)} \cup {(i * Len(rows)) \div chunks : i \in 1..(chunks - 1)}
Parallel(rows, n) ==
  LET cuts == SetToSortSeq(Boundaries(rows, n), <)
      slices == [i \in 1..(Len(cuts) - 1) |-> SubSeq(rows, cuts[i] + 1, cuts[i + 1])]
  IN Reduced(FlattenSeq(slices))

-----------------------------------------------------------------------------
(* process_report *)

SiteEntry(t, b) ==
  IF Bill[b].site \in Derived /\ \E c \in Codes : t.code[c] # Missing THEN t.code[Bill[b].code] ELSE t.site[Bill[b].site]

\* An entry for the invoice beats one for its vendor, which beats the default.
Pinned(table, b, default) ==
  LET exact == table[<<Bill[b].vendor, Bill[b].invoice>>]
      wide == table[<<Bill[b].vendor, Wide>>]
  IN IF exact # Missing THEN exact ELSE IF wide # Missing THEN wide ELSE default

Master(t, region) == IF region \in Regions /\ t.master[region] # Missing THEN t.master[region] ELSE ""
\* mutant: the region's incharge is put in before the overrides
Place_MasterFirst(t, b) ==
  LET mapped == SiteEntry(t, b)
      place == IF mapped = Missing THEN NoPlace ELSE mapped
  IN Pinned(t.override, b,
       IF Master(t, place.region) # "" THEN [place EXCEPT !.incharge = Master(t, place.region)] ELSE place)

Place(t, b) ==
  LET mapped == SiteEntry(t, b)
      place == Pinned(t.override, b, IF mapped = Missing THEN NoPlace ELSE mapped)
  IN IF Master(t, place.region) # "" THEN [place EXCEPT !.incharge = Master(t, place.region)] ELSE place

BaseTypes == <<"Security Deposit", "TDS", "IOCL", "Prepayment", "Other">>
TypeOf(t, b) ==
  LET fits == {i \in DOMAIN BaseTypes : BaseTypes[i] \in Bill[b].marks}
  IN Pinned(t.type, b, IF fits = {} THEN "Other" ELSE BaseTypes[Min(fits)])

WithinCutoff(bills, month) == {b \in bills : Bill[b].gl = Missing \/ Bill[b].gl <= MonthEnds[month]}
\* The end of the month of the newest entry that is within the cutoff.
RefDate(bills) ==
  LET dated == {Bill[b].gl : b \in bills} \ {Missing}
  IN IF dated = {} THEN Missing ELSE Min({MonthEnds[m] : m \in {x \in DOMAIN MonthEnds : MonthEnds[x] >= Max(dated)}})
The25th(ref) == Max({0} \cup {MonthEnds[m] : m \in {x \in DOMAIN MonthEnds : MonthEnds[x] < ref}}) + 25

TooLate(t, b, ref) ==
  /\ TypeOf(t, b) = "IOCL" /\ ref # Missing
  /\ Bill[b].date # Missing /\ Bill[b].date > The25th(ref)
Excluded(t, b) == Pinned(t.exclude, b, Missing) # Missing
Bucket(b, ref) == IF ref # Missing /\ Bill[b].date # Missing /\ ref - Bill[b].date <= 30 THEN "upto30" ELSE "over30"

Processed(t, bills, month) ==
  LET within == WithinCutoff(bills, month)
      ref == RefDate(within)
  IN {[bill |-> b, region |-> Place(t, b).region, incharge |-> Place(t, b).incharge,
       type |-> TypeOf(t, b), bucket |-> Bucket(b, ref)] :
        b \in {x \in within : Bill[x].amount < 0 /\ ~TooLate(t, x, ref) /\ ~Excluded(t, x)}}

UnmappedSites(report) == {Bill[r.bill].site : r \in {x \in report : x.region = ""}}

\* mutant: a type that a user invented has no columns
Types_Base(report) == ToSet(BaseTypes)

\* to_excel_bytes: the cells of the "Main" sheet, by region and incharge, for
\* the base types and those users invented, and its grand total.
Types(report) == ToSet(BaseTypes) \cup ({r.type : r \in report} \ {""})
Cell(report, region, incharge, type, bucket) ==
  MapThenSumSet(LAMBDA r : Bill[r.bill].amount,
    {r \in report : r.region = region /\ r.incharge = incharge /\ r.type = type /\ r.bucket = bucket})
GrandTotal(report) ==
  MapThenSumSet(LAMBDA c : Cell(report, c[1][1], c[1][2], c[2], c[3]),
    {<<r.region, r.incharge>> : r \in report} \X Types(report) \X {"upto30", "over30"})

-----------------------------------------------------------------------------
(* The report job. *)

PayInit ==
  /\ paydesk \in PayScenarios
  /\ tables = paydesk.tables
  /\ revise = [c \in Accountants |-> Nobody]
  /\ run = [state |-> "idle", view |-> Nobody]
  /\ revisions = 0

\* load_all: one snapshot of the six tables.
RunStarts ==
  /\ run.state # "running" /\ paydesk.doc # <<>>
  /\ run' = [state |-> "running", view |-> tables]
  /\ UNCHANGED <<tables, revise, paydesk, revisions>>

\* _run_process_job: a report with an unmapped site is not written, unless
\* the user allowed it.
RunEnds ==
  /\ run.state = "running"
  /\ \E n \in Threads, month \in paydesk.months, allow \in paydesk.allow :
       LET bills == IF n = 1 THEN Reduced(paydesk.doc) ELSE Parallel(paydesk.doc, n)
           report == Processed(run.view, ToSet(bills), month)
           sites == UnmappedSites(report)
       IN run' = [state |-> IF sites # {} /\ ~allow THEN "needs_fix" ELSE "written", view |-> run.view,
                  bills |-> bills, month |-> month, report |-> report, sites |-> sites, total |-> GrandTotal(report)]
  /\ UNCHANGED <<tables, revise, paydesk, revisions>>

-----------------------------------------------------------------------------
(* Edits.  A place is saved with the incharge of its region, if it has one.*)

Revised(t, q) ==
  CASE q.op = "delete" -> [t EXCEPT ![q.table][q.key] = Missing]
    [] q.table \in {"site", "code", "override"} ->
         [t EXCEPT ![q.table][q.key] =
            IF Master(t, q.value.region) # "" THEN [q.value EXCEPT !.incharge = Master(t, q.value.region)] ELSE q.value]
    [] OTHER -> [t EXCEPT ![q.table][q.key] = q.value]

\* Every edit but a new key is one transaction.
Revise(c) ==
  /\ c \in paydesk.clerks /\ revise[c] = Nobody /\ revisions < paydesk.budget
  /\ \E q \in paydesk.edits :
       IF q.op = "rename"
       THEN /\ tables[q.table][q.key] # Missing
            /\ tables' = [tables EXCEPT ![q.table][q.key] = Missing]
            /\ revise' = [revise EXCEPT ![c] = [op |-> "upsert", table |-> q.table, key |-> q.to, value |-> q.value]]
       ELSE tables' = Revised(tables, q) /\ UNCHANGED revise
  /\ revisions' = revisions + 1
  /\ UNCHANGED <<run, paydesk>>

\* A new key: the old row is archived and committed, then the new one saved;
\* a failure in between leaves neither.
RenameEnds(c) ==
  /\ revise[c] # Nobody
  /\ tables' = Revised(tables, revise[c]) \/ UNCHANGED tables
  /\ revise' = [revise EXCEPT ![c] = Nobody]
  /\ UNCHANGED <<run, paydesk, revisions>>

PayNext == RunStarts \/ RunEnds \/ \E c \in Accountants : Revise(c) \/ RenameEnds(c)

-----------------------------------------------------------------------------
(* Properties *)

Finished == run.state \in {"needs_fix", "written"}

\* However many workers parse it, the rows are those above the sentinel.
RowsAreAll == Finished => run.bills = Reduced(paydesk.doc)

\* No paisa of a bill is lost between the rows and the first sheet; a region
\* with an incharge has that one on every row; and a bill of a late IOCL
\* delivery is left out, also when a user made it one.
SheetIsTrue ==
  Finished =>
    /\ run.total = MapThenSumSet(LAMBDA r : Bill[r.bill].amount, run.report)
    /\ \A r \in run.report : Master(run.view, r.region) \in {"", r.incharge}
    /\ (\E b \in WithinCutoff(ToSet(run.bills), run.month) : Bill[b].gl # Missing) =>
         \A r \in run.report :
           r.type = "IOCL" /\ Bill[r.bill].date # Missing => Bill[r.bill].date <= The25th(MonthEnds[run.month])

\* A report that asks for regions gets written once the sites it named have
\* them, whatever region the user picks: unless a site is placed by its
\* location code, or a bill was pinned to no region by hand.
FixHelps ==
  run.state = "needs_fix" =>
    \A region \in Regions :
      LET fixed == [run.view EXCEPT !.site = [s \in Sites |-> IF s \in run.sites
                      THEN [region |-> region, incharge |-> Master(run.view, region)] ELSE @[s]]]
      IN \A r \in Processed(fixed, ToSet(run.bills), run.month) :
           r.region = "" =>
             \/ Bill[r.bill].site \in Derived
             \/ Pinned(run.view.override, r.bill, Missing) # Missing

PayablesRight == RowsAreAll /\ SheetIsTrue /\ FixHelps
=============================================================================
