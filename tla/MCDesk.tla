------------------------------- MODULE MCDesk -------------------------------
(* The scenarios of the report tools for TLC. *)
EXTENDS Desk

(* Cashflow *)

MCParties == {"p1", "p2", "p3"}
MCLocations == {"l1", "l2", "Plant"}
MCCfLocations == {"c1", "Plant"}
MCGroups == {"g"}
MCRatioSets == {<<"g", 1>>, <<"g", 2>>}
MCLines == {<<"a", 1>>, <<"a", 2>>, <<"b", 1>>}
MCAmount(k) == IF k[1] = "a" THEN 3 ELSE 5
MCDate(k) == IF k[1] = "a" THEN 1 ELSE 2
MCDesc(k) == IF k[1] = "a" THEN "da" ELSE "db"
MCNamedLike(l) == IF l = "Plant" THEN "Plant" ELSE None
MCStatements == [s1 |-> [a |-> 1, b |-> 1], s2 |-> [a |-> 2], bad |-> [a |-> 0]]
MCFiles == [old |-> <<"s1">>, j1 |-> <<"s1", "s2">>, j2 |-> <<"bad", "s2">>]

Share(l, cf, percent) == [loc |-> l, cf |-> cf, percent |-> percent]
Part(l, cf, amount) == [loc |-> l, cf |-> cf, amount |-> amount]

Masters ==
  Put("cf", "c1", [is |-> "on"]) @@ Put("cf", "Plant", [is |-> "on"])
  @@ Put("loc", "l1", [is |-> "on", cf |-> None]) @@ Put("loc", "l2", [is |-> "none", cf |-> None])
  @@ Put("loc", "Plant", [is |-> "on", cf |-> None])
  @@ Put("group", "g", [is |-> "on"])
  @@ Put("set", <<"g", 1>>, [is |-> "on", lines |-> <<Share("l1", "c1", 50), Share("Plant", "Plant", 50)>>])
  @@ Put("set", <<"g", 2>>, [is |-> "none", lines |-> <<>>])
  @@ Put("party", "p1", [is |-> "on", loc |-> "l1", cf |-> "c1", group |-> None])
  @@ Put("party", "p2", [is |-> "on", loc |-> None, cf |-> None, group |-> "g"])
  @@ Put("party", "p3", [is |-> "none", loc |-> None, cf |-> None, group |-> None])
  @@ Put("alias", "da", [is |-> "on", party |-> "p1"]) @@ Put("alias", "db", [is |-> "on", party |-> "p2"])
  @@ Put("input", "c1", [is |-> "none"]) @@ Put("input", "Plant", [is |-> "none"])
Empty ==
  Masters
  @@ [c \in {<<"txn", k, f>> : k \in Lines, f \in {"is", "upload", "party"}} |-> IF c[3] = "is" THEN "none" ELSE None]
  @@ [c \in {<<"split", k, d>> : k \in Lines, d \in Clerks} |-> <<>>]
  @@ [c \in {<<"upload", u, "is">> : u \in Uploads} |-> "none"]
  @@ Put("book", Months[1], [lines |-> {}])
MCMonths == <<"month">>
Old == <<"old", 1>>
Filled == Ingested(Empty, Old) @@ Empty
\* No ratios; p1 is placed by the name of its location alone.
NoRatios == Put("set", <<"g", 1>>, [is |-> "none", lines |-> <<>>]) @@ Filled
Named == Put("party", "p1", [loc |-> "Plant", cf |-> None]) @@ NoRatios

Removals == {[op |-> "remove", upload |-> u] : u \in Uploads}
Generates == {[op |-> "generate", anyway |-> b] : b \in BOOLEAN}
Archives == {[op |-> "archive", table |-> t[1], row |-> t[2]] :
  t \in {<<"party", "p1">>, <<"loc", "l1">>, <<"cf", "c1">>, <<"cf", "Plant">>, <<"group", "g">>,
         <<"set", <<"g", 1>> >>, <<"alias", "da">>}}
TwoSplits == <<Part("l1", "c1", 1), Part("Plant", "Plant", 2)>>
Overrides ==
  {[op |-> "line", txn |-> <<"a", 1>>, party |-> p, loc |-> "l2", cf |-> "c1", splits |-> s] :
     p \in {None, "p3"}, s \in {<<>>, TwoSplits}}
Edits ==
  {[op |-> "party", party |-> "p1", edit |-> TRUE, loc |-> "l2", cf |-> "c1", group |-> None],
   [op |-> "party", party |-> "p1", edit |-> TRUE, loc |-> None, cf |-> None, group |-> "g"],
   [op |-> "party", party |-> "p3", edit |-> FALSE, loc |-> None, cf |-> None, group |-> None],
   [op |-> "location", loc |-> "l1", edit |-> TRUE, cf |-> "Plant"],
   [op |-> "location", loc |-> "l1", edit |-> FALSE, cf |-> None],
   [op |-> "cf", cf |-> "c1"],
   [op |-> "set", set |-> <<"g", 2>>, lines |-> <<Share("l2", "c1", 35), Share("l1", "c1", 40), Share("Plant", None, 25)>>],
   [op |-> "set", set |-> <<"g", 2>>, lines |-> <<Share("l2", "c1", 100)>>],
   [op |-> "alias", desc |-> "db", party |-> "p1"],
   [op |-> "alias", desc |-> "da", party |-> "p2"],
   [op |-> "fix", party |-> "p3", loc |-> "l2", cf |-> "c1"],
   [op |-> "fix", party |-> "p1", loc |-> "l1", cf |-> "c1"],
   [op |-> "key", desc |-> "da", party |-> "p3", loc |-> "l1", cf |-> "Plant"],
   [op |-> "setup", cf |-> "c1", typed |-> TRUE]}

\* A name is archived with its location and comes back through the fix panel.
Returns == {[op |-> "archive", table |-> "alias", row |-> "da"], [op |-> "archive", table |-> "party", row |-> "p1"],
            [op |-> "archive", table |-> "loc", row |-> "l1"],
            [op |-> "key", desc |-> "da", party |-> "p1", loc |-> "l2", cf |-> "c1"]}

\* Overlapping statements in two jobs beside removals and a workbook; the
\* masters under stored lines, with two users; a line typed over by two.
Busy == [db |-> Filled, jobs |-> {}, clerks |-> Clerks, requests |-> {}, budget |-> 3]
NoBooks == [Busy EXCEPT !.clerks = {}, !.db = Empty]
MCScenarios ==
  {NoBooks,
   [Busy EXCEPT !.db = Empty, !.jobs = {"j1", "j2"}, !.clerks = {"ann"}, !.requests = Removals \cup Generates],
   [Busy EXCEPT !.jobs = {"j2"}, !.requests = Removals],
   [Busy EXCEPT !.requests = Archives \cup Edits],
   [Busy EXCEPT !.db = Named, !.requests = Archives \cup {[op |-> "setup", cf |-> "c1", typed |-> FALSE]}],
   [Busy EXCEPT !.db = NoRatios, !.requests = Returns, !.budget = 4],
   [Busy EXCEPT !.requests = Overrides \cup Archives \cup Removals]}

(* MappingStore *)

MCSeedRows == [k \in {"a", "b"} |-> "seed"]
MCLearnt == [k \in {"a", "c"} |-> "learnt"]
OldRows == [k \in Keys |-> CASE k = "a" -> [is |-> "on", value |-> "x"]
                             [] k = "b" -> [is |-> "off", value |-> "y"]
                             [] OTHER -> NewRow]
RowEdits ==
  {[op |-> "upsert", key |-> k, value |-> "x"] : k \in Keys}
  \cup {[op |-> o, key |-> k] : o \in {"delete", "restore"}, k \in Keys}
ListEdits ==
  {[op |-> o, key |-> k] : o \in {"add", "remove"}, k \in {"a", "b"}}
  \cup {[op |-> "clear"], [op |-> "edit", key |-> "a", to |-> "b"]}
NoStore == [rows |-> OldRows, editors |-> {}, reports |-> {}, seeders |-> {}, edits |-> {}, budget |-> 0]
MCStoreScenarios ==
  {NoStore,
   [NoStore EXCEPT !.editors = Editors, !.reports = {"r"}, !.seeders = Seeders, !.edits = RowEdits, !.budget = 2],
   [NoStore EXCEPT !.editors = {"ann"}, !.reports = ReportJobs, !.edits = RowEdits, !.budget = 2],
   [NoStore EXCEPT !.editors = Editors, !.edits = ListEdits, !.budget = 4],
   [NoStore EXCEPT !.editors = Editors, !.seeders = Seeders, !.edits = ListEdits, !.budget = 2]}

(* Payables *)

Entry(gl, date, site, vendor, invoice, amount, marks) ==
  [gl |-> gl, date |-> date, site |-> site, code |-> "L", vendor |-> vendor, invoice |-> invoice,
   amount |-> amount, marks |-> marks]
MCBill ==
  [b1 |-> Entry(20, 20, "S", "v", "i", -1, {"IOCL"}),
   b2 |-> Entry(31, 28, "HOME", "v", "j", -2, {"TDS", "IOCL"}),
   b3 |-> Entry(40, 26, "S", "w", "i", -4, {"IOCL", "Prepayment"}),
   b4 |-> Entry(Missing, Missing, "T", "w", "j", -8, {}),
   b5 |-> Entry(20, 1, "T", "w", "i", 16, {"Security Deposit"})]
MCMonthEnds == <<31, 59>>
Site(region, incharge) == [region |-> region, incharge |-> incharge]
MCTables ==
  [site |-> ("S" :> Site("r1", "x") @@ "HOME" :> Site("r2", "x") @@ "T" :> Site("r2", "y")),
   code |-> [c \in Codes |-> Missing], master |-> ("r1" :> "y" @@ "r2" :> Missing),
   override |-> [p \in Pairs |-> Missing], type |-> [p \in Pairs |-> Missing], exclude |-> [p \in Pairs |-> Missing]]
Save(table, key, value) == [op |-> "upsert", table |-> table, key |-> key, value |-> value]
Drop(table, key) == [op |-> "delete", table |-> table, key |-> key]
Rename(table, key, to, value) == [op |-> "rename", table |-> table, key |-> key, to |-> to, value |-> value]
MCEdits ==
  {Save("site", "T", Site("r1", "z")), Drop("site", "S"), Rename("site", "S", "T", Site("r1", "z")),
   Save("code", "L", Site("r1", "x")), Save("code", "L", Site("", "x")),
   Save("master", "r2", "w"), Drop("master", "r1"),
   Save("override", <<"v", "">>, Site("r2", "z")), Save("override", <<"v", "i">>, Site("", "z")),
   Rename("override", <<"v", "">>, <<"w", "">>, Site("r1", "y")),
   Save("type", <<"w", "">>, "Rent"), Save("type", <<"w", "j">>, "TDS"), Save("type", <<"v", "">>, "IOCL"),
   Save("exclude", <<"v", "">>, "yes"), Save("exclude", <<"w", "i">>, "yes")}
Document == <<"skip", "header", "b1", "b2", "header", "b3", "skip", "b4", "b5", "stop", "b1">>
NoPayables == [tables |-> MCTables, doc |-> <<>>, months |-> {1, 2}, clerks |-> {}, edits |-> {},
               budget |-> 2, allow |-> BOOLEAN]
MCPayScenarios == {NoPayables, [NoPayables EXCEPT !.doc = Document, !.clerks = Accountants, !.edits = MCEdits]}

(* DebtorsBuild: a build that is cancelled, one that is held and fails at    *)
(* the ageing or the GST report, one without open items, one without pairs   *)
(* enough whose look-ups fail.                                               *)

Cancelled == [on |-> TRUE, cancel |-> TRUE, many |-> TRUE, unidentified |-> TRUE, hold |-> FALSE, fails |-> {}]
MCBuildScenarios ==
  {[Cancelled EXCEPT !.on = FALSE], Cancelled,
   [Cancelled EXCEPT !.cancel = FALSE, !.unidentified = FALSE, !.hold = TRUE, !.fails = {"s1", "gst"}],
   [Cancelled EXCEPT !.cancel = FALSE, !.unidentified = FALSE, !.fails = {"open", "b1", "b2"}],
   [Cancelled EXCEPT !.cancel = FALSE, !.many = FALSE, !.fails = {"register", "region", "comments", "locations"}]}

(* DebtorsMail: three workbooks, one with a row heavier than the others. *)

MCFileSize(p, f) ==
  LET cells == p.head + (IF f.sheets THEN p.sheets ELSE 0) + 4 * Cardinality(f.first..f.last)
               + (IF p.heavy \in f.first..f.last THEN 24 ELSE 0)
  IN (cells * (CASE f.form = "xlsx" -> 6 [] f.form = "compact" -> 5 [] f.form = "xlsb" -> p.xlsb)) \div 6
Workbooks == <<"gst", "unapplied", "untagged">>
MCParcels ==
  [books: {Workbooks}, cut: {[gst |-> "rows", unapplied |-> "no", untagged |-> "sheets"]},
   rows: [ToSet(Workbooks) -> 1..5], limit: {16, 24, 30}, head: {1}, sheets: {3, 12}, heavy: {0, 2}, xlsb: {3, 6}]
  \cup {[books |-> <<>>]}

(* Its reports *)

Open(customer, name, amount, bucket, receipt) ==
  [customer |-> customer, name |-> name, amount |-> amount, bucket |-> bucket, receipt |-> receipt]
MCInvoice ==
  [i1 |-> Open("c1", "YARD", -5, "0-30", FALSE), i2 |-> Open("c2", "YARD", -7, "", FALSE),
   i3 |-> Open("c2", "PUNE", 600, "0-30", FALSE), i4 |-> Open("c3", "YARD", -9, "0-30", TRUE),
   i5 |-> Open("c4", "", -2, "0-30", FALSE)]
Paid(customer, name, amount, bucket, unidentified) ==
  [customer |-> customer, name |-> name, amount |-> amount, bucket |-> bucket, unidentified |-> unidentified]
MCReceipt ==
  [r1 |-> Paid("c1", "YARD", 3, "0-30", FALSE), r2 |-> Paid("c2", "PUNE", 4, "", FALSE),
   r3 |-> Paid("c3", "PUNE", 8, "0-30", FALSE), r4 |-> Paid("", "YARD", 16, "0-30", FALSE),
   r5 |-> Paid("", "", 32, "0-30", TRUE)]
MCRegionOf == [c1 |-> "Pune", c2 |-> Absent, c3 |-> "Goa", c4 |-> Absent] @@ ("" :> Absent)
MCUpper(p) == CASE p = "Pune" -> "PUNE" [] p = "Goa" -> "GOA" [] OTHER -> p
MCDebtors ==
  {[name |-> n, incharge |-> i, regions |-> r, lookup |-> l, edits |-> 2] :
     n \in [Names -> {Absent, "", "Pune", "PUNE", "Goa"}],
     i \in {x \in [Places -> {"none", "on", "off"}] : x["YARD"] = "none"},
     r \in BOOLEAN, l \in BOOLEAN}
  \cup {[name |-> [n \in Names |-> Absent], incharge |-> [q \in Places |-> "none"], regions |-> TRUE, lookup |-> TRUE,
         edits |-> 0]}
=============================================================================
