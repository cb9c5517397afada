--------------------------- MODULE MCReportRules ---------------------------
(* The inputs of the reports for TLC. *)
EXTENDS ReportRules

(* Creditors *)

MCCapitals == [a |-> "A", z |-> "Z", b |-> "B", c |-> "C"]
Words(says) == [is |-> "words", says |-> says, day |-> NoDay]
To(day) == [is |-> "to", says |-> {}, day |-> day]
Date(day) == [is |-> "date", says |-> {}, day |-> day]
Tbs ==
  {[head |-> <<<<To(1500)>>, <<Words({"name"}), Words({"debit"}), Words({"credit"})>>>>,
    rows |-> <<<<"a", 0, x>>, <<"b", 70, NoDay>>, <<NoDay, 9, 9>>, <<"c", y, 4>>, <<"Grand Total", 70 + y, x + 4>>>>] : x \in {0, 50}, y \in {4, 9}}
\* Bills of n days, on either side, for a ledger, another or none of the books.
BillSheets ==
  {[head |-> h \o <<<<Words({"date"}), Words({"ref"}), Words({"party"}), Words({"place"}), Words({"pending"}), Words({"due on"})>>>>,
    formats |-> <<f, "", "Dr", "Cr">>,
    rows |-> <<<<1499 - n, "r1", "a", "P", 50>>, <<1499 - m, "r2", "a", "Q", 7>>, <<NoDay, "r3", "b", "Q", 1>>, <<1300, "r4", p, "Q", 3>>>>] :
     h \in {<<>>, <<<<Date(1400)>>, <<To(1500), Words({"party x"})>>>>}, f \in {"Dr", "Cr", ""},
     n \in {-1, 0, 30, 31, 60, 61, 90, 120, 121, 150, 180, 181, 365, 366}, m \in {30, 400}, p \in {"a", "b", "z"}}
Known == [place |-> "P", kind |-> "k", own |-> FALSE]
Mappings == {[B |-> Known], [A |-> Known, B |-> [Known EXCEPT !.own = TRUE], C |-> Known]}
CreditorInputs ==
  {[tb |-> t, bills |-> b, chosen |-> c, file |-> NoDay, today |-> 1600, mapping |-> m, anyway |-> w] :
     t \in Tbs, b \in BillSheets, c \in {NoDay, 1500}, m \in Mappings, w \in BOOLEAN}

(* By location *)

MCStripped == [s0 |-> "0", s3023 |-> "3023", s0007 |-> "7", s |-> ""]
TbLine(cells, dots, segment, account, ending) == [cells |-> cells, dots |-> dots, segment |-> segment, account |-> account, ending |-> ending]
Banners == [i \in 1 .. 9 |-> TbLine(6, 2, "s0", "1", 999)]
LocationInputs ==
  {[rows |-> Banners \o <<TbLine(6, 6, s1, "1", 10), TbLine(6, 6, s2, "2", -10), TbLine(6, 6, s3, "1", 3), TbLine(6, 0, "s0", "Total", 3), TbLine(5, 6, "s0", "1", 5)>>,
    picked |-> p,
    maps |-> [names |-> ("0" :> "HO") @@ ("3023" :> "Pune"), regions |-> g, incharges |-> [W |-> "ann"], persons |-> ("1" :> "bob")]] :
     s1, s2, s3 \in DOMAIN MCStripped, p \in {<<>>, <<"1">>, <<"2", "1">>}, g \in {[HO |-> "W"], [HO |-> "W", Pune |-> "N"], [HO |-> "W", Pune |-> "W"]}}

(* Tally's: a group and what is below it, with ledgers that share no sum. *)

MCUsual == [assets |-> "Dr"]
Shaped(d) == d[1] = 0 /\ d[2] >= 1 /\ \A i \in 2 .. Len(d) - 1 : d[i + 1] >= 1 /\ d[i + 1] <= d[i] + 1
Depths == {d \in [1 .. 5 -> 0 .. 3] : Shaped(d)} \cup {d \in [1 .. 6 -> 0 .. 4] : Shaped(d) /\ d[2] = 1}
Below(d, i) == LET ends == {k \in i + 1 .. Len(d) : d[k] <= d[i]} IN i + 1 .. (IF ends = {} THEN Len(d) ELSE Min(ends) - 1)
GroupsIn(d) == {i \in DOMAIN d : Below(d, i) # {}}
Children(d, i) == {k \in Below(d, i) : d[k] = d[i] + 1}
Tree(d, cr, still, flat) ==
  LET groups == GroupsIn(d)
      leaves(i) == IF i \in groups THEN Below(d, i) \ groups ELSE {i}
      Over(i, Val(_)) == FoldSet(LAMBDA k, n : n + Val(k), 0, leaves(i))
      size(k) == 10 * 3 ^ k
      moved(k) == IF k \in still THEN 0 ELSE size(k)
      debit(i) == Over(i, LAMBDA k : IF k \in cr THEN 0 ELSE moved(k))
      credit(i) == Over(i, LAMBDA k : IF k \in cr THEN moved(k) ELSE 0)
      opening(i) == Over(i, LAMBDA k : IF k \in cr THEN -size(k) ELSE size(k))
      Unsigned(n) == IF n < 0 THEN -n ELSE n
  IN [groups |-> [i \in groups |-> Max(Below(d, i))], generic |-> TRUE, grand |-> [debit |-> debit(1), credit |-> debit(1)], saved |-> <<>>, anyway |-> TRUE,
      rows |-> [i \in DOMAIN d |->
                  [name |-> <<"assets", "l2", "l3", "l4", "l5", "l6">>[i], indent |-> IF i \in Below(d, flat) /\ flat # 1 THEN d[i] - 1 ELSE d[i],
                   opening |-> Unsigned(opening(i)), debit |-> debit(i), credit |-> credit(i), closing |-> Unsigned(opening(i) + debit(i) - credit(i))]]]
\* A group may stand at the indentation of its children if there are several; the
\* ledgers without movement are on one side.
Trees ==
  UNION {LET ledgers == DOMAIN d \ GroupsIn(d)
             flats == {1} \cup {i \in GroupsIn(d) \ {1} : Cardinality(Children(d, i)) > 1}
         IN {Tree(d, x[1], x[2], x[3]) : x \in {y \in (SUBSET ledgers) \X (SUBSET ledgers) \X flats : y[2] \subseteq y[1] \/ y[1] \cap y[2] = {}}} : d \in Depths}
Ledger(name, indent, o, dr, c) == [name |-> name, indent |-> indent, opening |-> o, debit |-> dr, credit |-> 0, closing |-> c]
Twins ==
  {[groups |-> 1 :> 4, generic |-> FALSE, grand |-> [debit |-> 20, credit |-> 20], saved |-> <<>>, anyway |-> TRUE,
    rows |-> <<Ledger("assets", 0, 10, 100, 110), Ledger("input CGST", 2, 0, 50, 50), Ledger("input SGST", 2, 0, 50, 50), Ledger("input IGST", 2, 10, 0, 10)>>]}
Reviewed ==
  {[t EXCEPT !.anyway = FALSE, !.generic = FALSE, !.saved = s, !.grand.credit = c] :
     t \in Twins, c \in {20, 30}, s \in {<<>>, [n \in {"assets", "input CGST", "input SGST", "input IGST"} |-> [nature |-> "Dr", sub |-> n = "assets"]]}}

(* Unaccounted *)

MCBuiltin == "plant" :> [place |-> "P", incharge |-> "ann"]
MCSpecial == {"office"}
Q == [place |-> "Q", incharge |-> "cyd"]
Stores == [sites : {<<>>, "yard" :> Q, ("yard" :> Q) @@ ("office" :> Q)}, creators : {<<>>, "x" :> Q},
           incharges : {<<>>, "P" :> "dee"}, excluded : {{"o1"}}]
Transactions == [site : {"plant", "yard", "office"}, by : {"x", "y", ""}, no : {"1"}]
Blanks == [site : {"yard", ""}, by : {"x"}, no : {"1", ""}]
TransactionInputs ==
  {[files |-> <<[period |-> "m1", rows |-> <<[site |-> "plant", by |-> "y", no |-> "1"], a>>], [period |-> p, rows |-> <<b, c>>]>>, store |-> s, anyway |-> w] :
     a, b \in Transactions, c \in Transactions \cup Blanks, p \in {"m1", "m2"}, s \in {t \in Stores : t.incharges = <<>> => t.creators = <<>>}, w \in BOOLEAN}
\* Lines of the order o1, left out, and of two that resemble a keyword or do not.
Order(n, po, month, site, like) == [line |-> n, po |-> po, month |-> month, site |-> site, like |-> like]
OrderInputs ==
  {[rows |-> <<Order(1, "o2", "m1", "plant", {}), Order(2, p, m, s, {}), Order(3, "o2", n, t, l), Order(4, "o1", "m2", s, {})>>,
    exclude |-> e, keywords |-> {"hire"}, store |-> x, anyway |-> w] :
     p \in {"o2", "o3"}, m, n \in {"m1", "m2", ""}, s, t \in {"plant", "yard", "none"}, l \in {{}, {"hire"}}, e \in {{}, {"m2"}, {"m3"}},
     x \in {y \in Stores : y.creators = <<>>}, w \in BOOLEAN}
Receipts(suppliers) ==
  {[rows |-> <<[supplier |-> "u", month |-> "m1", site |-> "plant"], [supplier |-> p, month |-> m, site |-> s], [supplier |-> q, month |-> n, site |-> t]>>,
    exclude |-> e, store |-> x, anyway |-> w] :
     p, q \in suppliers, m, n \in {"m1", "m2"}, s, t \in {"plant", "yard", "none"}, e \in {{}, {"m2"}},
     x \in {y \in Stores : y.creators = <<>>}, w \in BOOLEAN}

(* Open items *)

\* In 100 rupees: amounts that are halves of a hundredth of a lakh, too small to
\* show, and below 1,000 rupees; of ages at the limits.
OpenRow(place, days, amount) == [place |-> place, date |-> IF days = 999 THEN Undated ELSE 1000 - days, amount |-> amount, receipt |-> amount \in {-250, 40}]
InvoiceInputs ==
  {[asOn |-> 1000, rows |-> <<OpenRow("P", 61, a), OpenRow(p, d, b), OpenRow("Q", e, c), OpenRow("Q", 31, 5), OpenRow("P", 361, -2)>>] :
     p \in {"P", "Q", ""}, d \in {-1, 15, 16, 30, 31, 90, 91, 120, 121, 150, 151, 180, 181, 360, 361, 999}, e \in {0, 30, 60, 999},
     a \in {-125, -375, 7}, b \in {-250, -3, 4, 40}, c \in {-125, -4, -1003, 9}}
Unapplied(list, place, days, u, v) == [list |-> list, place |-> place, date |-> IF days = 999 THEN Undated ELSE 1000 - days, unapplied |-> u, prepaid |-> v]
UnappliedInputs ==
  {[asOn |-> 1000, titled |-> t,
    rows |-> <<Unapplied(l, "P", 61, 5, 2), Unapplied(m, p, d, a, 7), Unapplied(n, "Q", 400, 9, -9), Unapplied("main", "Q", 61, b, 3)>>] :
     t \in BOOLEAN, l, m, n \in {"main", "advance", "unidentified"}, p \in {"P", "Q", ""}, d \in {15, 16, 61, 999}, a \in {-7, -12, 4}, b \in {-3, 6}}
GstRow(no, date, account, amount) == [no |-> no, date |-> date, account |-> account, amount |-> amount]
GstInputs ==
  {[columns |-> o, erp |-> e, rows |-> <<GstRow(<<"1">>, "d1", a, "x"), GstRow(n, d, "digits", "y"), GstRow(m, "d2", "name", "z")>>] :
     o \in {<<"account", "no", "date", "amount">>, <<"no", "amount", "account", "date">>}, a \in {"", "digits"},
     n, m \in {<<"1">>, <<"1", ".0">>, <<"2", ".0">>, <<"">>}, d \in {"d1", "d2"},
     e \in {<<>>, (<<<<"1">>, "d1">> :> "g1") @@ (<<<<"2">>, "d2">> :> "g2"), <<<<"1">>, "d2">> :> "g3"}}

(* Combiners *)

Say(says) == [is |-> "words", says |-> says]
Digits(n) == [is |-> "digits", n |-> n]
NoCell == [is |-> "blank"]
B2bTab(rows) == [levels |-> <<<<"RCM", "ITC", "Tax", "">>, <<"", "", "Integrated", "Central">>>>, rows |-> rows]
NotesTab(rows) == [levels |-> <<<<"Note", "RCM", "Tax", "">>, <<"type", "", "Integrated", "Central">>>>, rows |-> rows]
ImportTab(rows) == [levels |-> <<<<"Duty", "">>, <<"Integrated", "Cess">>>>, rows |-> rows]
\* Three exports: an amount that may be no number or missing, one tab, no tab.
Exports(rcm, itc, cell, note) ==
  <<[B2B |-> B2bTab(<<<<Say(rcm), Say("Yes"), Digits(10), Digits(1)>>, <<NoCell, NoCell, NoCell, NoCell>>, <<Say("no"), Say(itc), cell, Digits(2)>>>>),
     CDNR |-> NotesTab(<<<<Say(note), Say(rcm), Digits(300), NoCell>>, <<Say("Credit"), Say("no"), Digits(1000), NoCell>>>>)],
    [CDNR |-> NotesTab(<<<<Say(note), Say("no"), Digits(5000), NoCell>>>>), IMPG |-> ImportTab(<<<<Digits(20000), NoCell>>, <<cell, NoCell>>>>)],
    <<>>>>
Export(key, code, content) == [name |-> key, key |-> key, code |-> code, content |-> content]
ExportInputs ==
  {[uploads |-> <<Export(k, x, c), Export("k2", 27, d), Export(l, 29, e)>>, contents |-> Exports(r, i, w, n), codes |-> m, anyway |-> a] :
     k \in {"k1", "k2"}, l \in {"k2", "k3"}, x \in {NoCode, 27, 33}, c, d, e \in 1 .. 3, r, i \in {"no", "Yes"},
     w \in {Digits(7), NoCell, Say("7 -")}, n \in {"Credit", "Debit"}, m \in {27 :> <<"MH">> @@ 29 :> <<"KA">>}, a \in BOOLEAN}
Heading(label, is) == [label |-> label, is |-> is]
Headings ==
  {<<Heading("", "other"), Heading("", "other"), Heading("", "other"), Heading(a, "Quantity"), Heading(b, "Value"), Heading("aug", "Quantity"), Heading("aug", "Value")>> :
     a, b \in {"", "jul", "jun"}}
Item(total, sub, q) == [total |-> total, sub |-> sub, values |-> <<0, 0, 0, q, 10 * q, q + 1, 10 * q + 1>>]
ClosingInputs ==
  {[files |-> <<[html |-> TRUE, location |-> "P", header |-> g, rows |-> <<Item(FALSE, "STORES", 1), Item(t, s, 2), Item(FALSE, "STORES", 4)>>],
                [html |-> h, location |-> p, header |-> f, rows |-> <<Item(FALSE, s, 8), Item(u, "MOD-RM", 16), Item(TRUE, "STORES", 32)>>]>>] :
     g, f \in Headings, t, h, u \in BOOLEAN, s \in {"MOD-RM", "STORES", "SCRAP"}, p \in {"P", "Q"}}

(* Regions *)

MCLegacy == <<<<"NCR", "Delhi">>, <<"GUJ-1", "Gujarat">>, <<"GUJ-2", "Gujarat">>, <<"GUJ-3", "Gujarat">>, <<"MUMBAI", "Mumbai">>>>
MCErp == {"Delhi", "Gujarat", "Mumbai"}
Spellings == {"NCR", "GUJ-1", "GUJ-2", "GUJ-3", "MUMBAI", "DELHI", "delhi", "Delhi", "Gujarat", "Mumbai", "guj-1", "UNIDENTIFIED"}
MCUpper == [s \in Spellings |-> CASE s = "guj-1" -> "GUJ-1" [] s = "Mumbai" -> "MUMBAI" [] s \in {"delhi", "Delhi"} -> "DELHI" [] OTHER -> s]
MCFold == [s \in Spellings |-> CASE s \in {"DELHI", "delhi", "Delhi"} -> "delhi" [] s \in {"MUMBAI", "Mumbai"} -> "mumbai"
                               [] s \in {"GUJ-1", "guj-1"} -> "guj-1" [] OTHER -> s]
Incharge(who, on) == [who |-> who, on |-> on]
InchargeTables ==
  {[places |-> p, incharges |-> ("GUJ-1" :> Incharge(a, x)) @@ ("GUJ-2" :> Incharge(b, TRUE)) @@ ("GUJ-3" :> Incharge(c, TRUE))
                                @@ ("UNIDENTIFIED" :> Incharge("eve", x)) @@ m @@ d] :
     a, b, c \in {"ann", "bob", Nobody}, x \in BOOLEAN,
     m \in {<<>>, "MUMBAI" :> Incharge("cyd", TRUE), "MUMBAI" :> Incharge("cyd", FALSE), "Mumbai" :> Incharge("cyd", TRUE)},
     d \in {<<>>, "NCR" :> Incharge("dee", TRUE), ("NCR" :> Incharge("dee", TRUE)) @@ ("DELHI" :> Incharge("eve", FALSE)),
           ("NCR" :> Incharge("dee", TRUE)) @@ ("DELHI" :> Incharge("eve", FALSE)) @@ ("delhi" :> Incharge("eve", TRUE))},
     p \in {[n1 |-> [at |-> u, on |-> TRUE], n2 |-> [at |-> v, on |-> y]] : u \in {"GUJ-1", "guj-1", "NCR", "DELHI"}, v \in {"GUJ-3", "MUMBAI", "UNIDENTIFIED"}, y \in BOOLEAN}}

(* Files and mails *)

Pieces == INSTANCE MCReportFiles
MCNames == Pieces!Names
MCMailboxes == Pieces!Mailboxes
MCStanding == Pieces!Standing
MCEveryone == Pieces!Everyone
MCCaseless(name) == Pieces!Lowercase(name)
MCTrimmed(cell) == Pieces!WithoutBlanks(cell)
MCMailings == Pieces!Mailings \cup {Pieces!NoBulk}

MCInputs ==
  [creditors |-> CreditorInputs, locations |-> LocationInputs, tally |-> Trees \cup Reviewed,
   transactions |-> TransactionInputs, orders |-> OrderInputs, receipts |-> Receipts({"u", "v", ""}),
   invoices |-> InvoiceInputs, unapplied |-> UnappliedInputs, gst |-> GstInputs,
   gst2b |-> ExportInputs, closing |-> ClosingInputs, regions |-> InchargeTables, mails |-> {NotYet}]
  @@ Pieces!FileInputs
=============================================================================
