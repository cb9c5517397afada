--------------------------- MODULE MCReportFiles ---------------------------
(* The inputs of the finishing of report files, and the bulk mails, for TLC. *)
EXTENDS Xlsb

Num(n) == [t |-> "num", n |-> n]
Ref(r, c) == [t |-> "ref", at |-> <<r, c>>]
Area(from, to) == [t |-> "area", from |-> from, to |-> to]
Call(f, args) == [t |-> "call", f |-> f, args |-> args]
Bin(op, l, r) == [t |-> "bin", op |-> op, l |-> l, r |-> r]
Column(a, b) == Area(<<a, 1>>, <<b, 1>>)

Records == [id : {0, 7, 127, 128, 159, 485}, size : {0, 1, 127, 128, 255, 16383, 16384, 2097151, 2097152}]
Numbers == [is : {"integer"}, n : -40 .. 40] \cup [is : {"fraction"}, high : 1 .. 15, low : BOOLEAN]

Formats ==
  [horizontal : {0, 1, 7}, vertical : {0, 2, 4}, wrap : 0 .. 1, shrink : 0 .. 1, reading : 0 .. 2, locked : 0 .. 1, hidden : 0 .. 1, pivot : {0}, quoted : 0 .. 1]
  \cup [horizontal : {-1, 0}, vertical : {-1}]
Elements ==
  [el : {"view"}, odd : BOOLEAN, grid : BOOLEAN] \cup [el : {"pane"}, x : {0, 1}, y : {1, 2}, frozen : BOOLEAN, top : {2, 3}]
  \cup [el : {"col"}, styled : BOOLEAN, first : {1, 3}, last : {2, 4, 5}, width : {8}] \cup [el : {"format", "pageSetUpPr", "drawing"}, odd : BOOLEAN]
  \cup {[el |-> "autoFilter", area |-> <<1, 1, 2, 9>>]}
Layouts == {<<>>} \cup {<<e>> : e \in Elements} \cup {<<e, f>> : e \in {g \in Elements : g.el # "col"}, f \in {g \in Elements : g.el = "col"}}
\* Two sheets, with their parts either way round; values for both, one or a third.
Part(a, b) == (<<1, 1>> :> [formula |-> a, cached |-> 0]) @@ (<<2, 1>> :> [formula |-> b, cached |-> 0])
Injections ==
  {[book |-> [sheets |-> <<[name |-> "Main", id |-> i], [name |-> "Sub", id |-> IF i = "r1" THEN "r2" ELSE "r1"]>>,
              targets |-> [r1 |-> "part1", r2 |-> "part2"], parts |-> [part1 |-> Part(a, TRUE), part2 |-> Part(TRUE, b)]],
    values |-> v] : i \in {"r1", "r2"}, a, b \in BOOLEAN,
    v \in {[Main |-> (<<1, 1>> :> 5), Sub |-> (<<2, 1>> :> 6)], [Sub |-> (<<1, 1>> :> 7)], [Main |-> (<<2, 1>> :> 8), Other |-> (<<1, 1>> :> 9)]}}

Leaf == {Num(One), Ref(1, 1)}
Small ==
  Leaf \cup {[t |-> "neg", of |-> x] : x \in Leaf} \cup {[t |-> "paren", of |-> x] : x \in Leaf \cup {Bin("-", Ref(1, 1), Num(One))}}
  \cup {Bin(op, x, y) : op \in {"+", "-", "*", "/"}, x, y \in Leaf} \cup {Call("ABS", <<x>>) : x \in Leaf}
  \cup {Call("SUM", <<Column(1, 2), Ref(1, 1)>>), Call("SUBTOTAL", <<Num(9 * One), Column(1, 2)>>), Call("ROUND", <<Ref(1, 1), Num(0)>>)}
O(op) == [k |-> "op", op |-> op]
Texts ==
  {TextOf(x) : x \in Small} \cup {TextOf(Bin(op, x, y)) : op \in {"+", "-", "*", "/"}, x, y \in Small}
           \cup {TextOf([t |-> "neg", of |-> x]) : x \in Small}
           \cup {<<>>, <<O("(")>> \o TextOf(Num(One)), TextOf(Num(One)) \o TextOf(Num(One)), TextOf(Call("ROUND", <<Num(One)>>)),
                 TextOf(Call("VLOOKUP", <<Num(One)>>)), TextOf(Num(One)) \o <<O("+")>>}

Docs == {Open \o <<"x">> \o RowEnd \o <<"y">> \o RowEnd \o Close \o <<"z">>, <<"a">> \o Open \o Close \o <<"z">>, <<"<sheet", "Data/>", "z">>}
\* A document cut before each of some of its pieces.
Cut(doc, at) ==
  LET all == {i - 1 : i \in at} \cup {Len(doc)}
      ends == [k \in 1 .. Cardinality(all) |-> CHOOSE e \in all : Cardinality({f \in all : f < e}) = k - 1]
  IN [k \in DOMAIN ends |-> SubSeq(doc, (IF k = 1 THEN 0 ELSE ends[k - 1]) + 1, ends[k])]
Blocks == UNION {{Cut(doc, at) : at \in SUBSET (2 .. Len(doc))} : doc \in Docs}

Cell(col, style, what) == [col |-> col, style |-> style] @@ what
Text(raw) == [is |-> "text", raw |-> raw]
CellRows ==
  <<[bare |-> TRUE, cells |-> <<Cell(1, 0, Text(<<"&", "amp;", "lt;">>)), Cell(3, 1, [is |-> "number", n |-> 3]), Cell(0, 0, Text(<<"b">>))>>],
    [bare |-> TRUE, cells |-> <<Cell(0, 1, Text(<<"b">>)), Cell(0, 0, [is |-> "blank"]), Cell(0, 0, Text(<<"CR", "LF", "c", "CR", "_x000D_">>))>>],
    [bare |-> TRUE, cells |-> <<Cell(1, 0, Text(<<"&", "#13;", "b">>)), Cell(0, 0, Text(<<"&", "lt;", "b">>))>>],
    [bare |-> TRUE, cells |-> <<Cell(1, 0, [is |-> "number", n |-> 50]), Cell(2, 0, [is |-> "formula", s |-> TextOf(Call("SUM", <<Area(<<1, 1>>, <<9, 1>>)>>))])>>],
    [bare |-> FALSE, cells |-> <<Cell(0, 0, Text(<<>>)), Cell(0, 0, [is |-> "bool", n |-> 1]), Cell(0, 0, Text(<<"b">>))>>],
    [bare |-> TRUE, cells |-> <<Cell(1, 0, Text(<<"d">>)), Cell(0, 7, [is |-> "number", n |-> 1])>>],
    [bare |-> TRUE, cells |-> <<Cell(4, 0, Text(<<"e">>)), Cell(0, 0, Text(<<"b">>))>>],
    [bare |-> TRUE, cells |-> <<Cell(1, 0, [is |-> "odd"])>>]>>
Row(n, k) == [n |-> n] @@ CellRows[k]
Books ==
  {<< <<Row(n[1], k[1]), Row(n[2], k[2])>>, <<Row(n[3], k[3])>> >> : n \in {<<1, 3, 1>>, <<0, 0, 2>>, <<2, 0, 0>>}, k \in [1 .. 3 -> DOMAIN CellRows]}

\* Two numbers, a total of them, a further cell, and a formula over all.
A(n) == [is |-> "number", n |-> n]
F(tree) == [is |-> "formula", tree |-> tree]
Totals == {Call("SUBTOTAL", <<Num(f * One), Column(1, 2)>>) : f \in {9, 109}} \cup {Call("SUM", <<Column(1, 2)>>), Call("SUM", <<Ref(1, 1), Ref(2, 1)>>)}
Grand ==
  {Call("SUBTOTAL", <<Num(f * One), Column(1, 4)>>) : f \in {9, 109}} \cup {Call("SUM", <<Column(1, 4)>>), Call("SUM", <<Column(3, 4), Ref(1, 1)>>)}
  \cup {Bin("-", Bin("+", Ref(3, 1), Ref(1, 1)), Ref(2, 1)), Call("ROUND", <<Bin("-", Ref(3, 1), Ref(1, 1)), Num(One)>>), Bin("/", Ref(3, 1), Ref(1, 1)), Call("ABS", <<Bin("-", Ref(2, 1), Ref(1, 1))>>)}
Sheets(totals, grand, others, hidden) ==
  {[cells |-> (<<1, 1>> :> A(a)) @@ (<<2, 1>> :> A(b)) @@ (<<3, 1>> :> F(t)) @@ (<<4, 1>> :> c) @@ (<<5, 1>> :> F(g)), hidden |-> h] :
     a \in {0, 125, 4}, b \in {-50, 15}, t \in totals, g \in grand, h \in hidden, c \in others}
Note == [is |-> "text", s |-> "note"]
Values == Sheets(Totals, Grand, {Note, A(10), [is |-> "bool", n |-> One]}, {{}, {1}, {2, 4}})

FileInputs ==
  [format |-> Formats, layout |-> Layouts, inject |-> Injections, record |-> Records, number |-> Numbers, formula |-> Texts, blocks |-> Blocks, book |-> Books, values |-> Values]

-----------------------------------------------------------------------------
(* The scenarios of the bulk mails. *)

Lowercase(name) == IF name = "ACME" THEN "Acme" ELSE name
WithoutBlanks(cell) == IF cell \in {"Acme ", " Acme"} THEN "Acme" ELSE cell
To(to, cc) == [to |-> to, cc |-> cc]
Due(kind, fse, target, received) ==
  [kind |-> kind, fse |-> fse, target |-> target, received |-> received, short |-> target - received]

\* Cells and names of the tracker: one of them lists two executives.
Names == ("jo" :> <<"jo">> @@ "ann" :> <<"ann">> @@ "jo, ann" :> <<"jo", "ann">> @@ "ann, jo" :> <<"ann", "jo">>)
Mailboxes == ("j@x" :> "j@x" @@ "Jo <j@x>" :> "j@x" @@ "a@x" :> "a@x" @@ "boss@x" :> "boss@x" @@ "bad" :> "bad" @@ "b@x" :> "b@x")
Standing == <<"boss@x", "Jo <j@x>">>
Everyone == <<"boss@x", "a@x">>

Mail(tool, customers, upload, table, edits) ==
  [tool |-> tool, customers |-> customers, upload |-> upload, saved |-> table, sheet |-> <<>>,
   pdfs |-> (1 :> "Acme" @@ 2 :> "Best" @@ 3 :> "ACME"), edits |-> edits, typed |-> {}, lossy |-> FALSE, faults |-> 2]
Contacts == ("Acme" :> To({"a@x"}, {"boss@x"}) @@ "Best" :> To({"b@x"}, {}))
Changed == {[name |-> "Acme", to |-> To({"b@x"}, {})], [name |-> "Best", to |-> To({"bad"}, {})]}
Uploaded == ("Acme" :> To({"j@x"}, {}) @@ "None" :> To({"bad"}, {"a@x"}))

Trackers ==
  {<<Due("party", "jo", 3, 1), Due("party", "jo, ann", 5, 0), Due("total", "jo", 8, 1), Due("party", "jo", 2, 2),
     Due("grand", "", 9, 9), Due("party", "ann", 7, 7)>>,
   <<Due("party", "ann, jo", 4, 6), Due("party", "", 9, 0), Due("party", "ann", 1, 1)>>,
   <<Due("total", "jo", 1, 1)>>}
AddressBooks ==
  {("jo" :> "j@x" @@ "ann" :> "a@x"), ("jo" :> "j@x" @@ "ann" :> "Jo <j@x>"), ("jo, ann" :> "b@x" @@ "ann" :> "bad"), ("jo" :> "bad")}
Fse(sheet, table) ==
  [Mail("fse", <<>>, [c \in {} |-> 0], table, {}) EXCEPT !.sheet = sheet, !.pdfs = [f \in {} |-> 0],
   !.typed = {[k \in {} |-> {}], [k \in {"jo"} |-> {"b@x"}], [k \in {"jo, ann"} |-> {}]}]

NoBulk == [Mail("none", <<>>, [c \in {} |-> 0], Contacts, {}) EXCEPT !.faults = 0]
Mailings ==
  {Mail("reminder", <<"Acme", "Best", "ACME", "None">>, Uploaded, Contacts, Changed),
   Mail("reminder", <<"Acme", "Acme ", "None">>, Uploaded, Contacts, Changed),
   Mail("reminder", <<"Acme", "Acme">>, Uploaded, Contacts, {}),
   [Mail("confirmation", <<"ACME", "Best", "None", "New">>, Uploaded, Contacts, Changed) EXCEPT !.lossy = TRUE],
   Mail("confirmation", <<"Acme ", "Best">>, Uploaded, Contacts, {}),
   Mail("confirmation", <<"ACME", "Acme ">>, Uploaded, Contacts, {})}
  \cup {Fse(s, b) : s \in Trackers, b \in AddressBooks}
=============================================================================
