------------------------------ MODULE Formulas ------------------------------
(***************************************************************************)
(* What a report's formulas come to, worked out three times without Excel: *)
(* for the table in a mail (mailer_shared.sheet_to_html), for the value    *)
(* stored beside the formula in the .xlsx (xlsx_formula_cache) and for the *)
(* one stored in the .xlsb (xlsb_writer).  Amounts are in hundredths.      *)
(***************************************************************************)
EXTENDS Integers, Sequences, FiniteSets, SequencesExt, FiniteSetsExt

CONSTANTS
  One,        \* 1 in the model's units
  EvalLimit   \* cells the .xlsb writer remembers

\* A sheet: [cells |-> [<<row, column>> -> content], hidden |-> rows].  A content is
\* [is |-> "number", n], [is |-> "text", s], [is |-> "bool", n] or [is |-> "formula", tree].
\* A tree is [t |-> "num", n], "ref" (at), "area" (from, to), "neg" or "paren" (of),
\* "bin" (op, l, r) or "call" (f, args).
N(n) == [v |-> "number", n |-> n]
Nothing == [v |-> "nothing"]
Error(e) == [v |-> "error", e |-> e]

\* Row by row, as both the sheets and the ranges are read.
Earlier(p, q) == p[1] < q[1] \/ (p[1] = q[1] /\ p[2] < q[2])
InOrder(places) == [i \in 1 .. Cardinality(places) |-> CHOOSE p \in places : Cardinality({q \in places : Earlier(q, p)}) = i - 1]
Between(a, b, x) == (a <= x /\ x <= b) \/ (b <= x /\ x <= a)
Places(sheet, tree) ==
  {p \in DOMAIN sheet.cells : IF tree.t = "ref" THEN p = tree.at
                              ELSE Between(tree.from[1], tree.to[1], p[1]) /\ Between(tree.from[2], tree.to[2], p[2])}

Calls(tree, f) == tree.t = "call" /\ tree.f = f
IsSubtotal(content) == content.is = "formula" /\ Calls(content.tree, "SUBTOTAL")
Ranges(tree) == IF Calls(tree, "SUBTOTAL") THEN Tail(tree.args) ELSE tree.args
SkipsHidden(tree) == Calls(tree, "SUBTOTAL") /\ tree.args[1].n = 109 * One

\* Half away from zero, to a number of decimals no finer than the unit.
Step(digits) == IF digits = 2 THEN 1 ELSE IF digits = 1 THEN One \div 10 ELSE One
RoundHalfUp(n, digits) ==
  LET s == Step(digits) IN IF n >= 0 THEN ((2 * n + s) \div (2 * s)) * s ELSE -(((2 * s - 2 * n - s) \div (2 * s)) * s)

-----------------------------------------------------------------------------
(* The reference: Excel. *)

RECURSIVE Truth(_, _), TruthOf(_, _)
Sums(sheet, tree, Val(_)) ==
  FoldLeft(LAMBDA sum, v : IF v.v = "number" THEN sum + v.n ELSE sum, 0,
           [i \in DOMAIN Ranges(tree) |->
              LET ps == InOrder(Places(sheet, Ranges(tree)[i]))
              IN N(FoldLeft(LAMBDA sum, p : IF Val(p).v = "number" THEN sum + Val(p).n ELSE sum, 0, ps))])
Truth(sheet, tree) ==
  CASE tree.t = "num" -> N(tree.n)
    [] tree.t = "ref" -> IF tree.at \notin DOMAIN sheet.cells THEN N(0)
                         ELSE IF TruthOf(sheet, tree.at).v = "nothing" THEN Error("#VALUE!") ELSE TruthOf(sheet, tree.at)
    [] tree.t = "paren" -> Truth(sheet, tree.of)
    [] tree.t = "neg" -> LET v == Truth(sheet, tree.of) IN IF v.v = "error" THEN v ELSE N(-v.n)
    [] tree.t = "bin" ->
         LET l == Truth(sheet, tree.l)  r == Truth(sheet, tree.r)
         IN CASE l.v = "error" -> l
              [] l.v # "error" /\ r.v = "error" -> r
              [] OTHER -> CASE tree.op = "+" -> N(l.n + r.n) [] tree.op = "-" -> N(l.n - r.n)
                            [] tree.op = "*" -> N((l.n * r.n) \div One)
                            [] OTHER -> IF r.n = 0 THEN Error("#DIV/0!") ELSE N((l.n * One) \div r.n)
    [] Calls(tree, "ABS") -> LET v == Truth(sheet, tree.args[1]) IN IF v.v = "error" THEN v ELSE N(IF v.n < 0 THEN -v.n ELSE v.n)
    [] Calls(tree, "ROUND") -> LET v == Truth(sheet, tree.args[1])
                               IN IF v.v = "error" THEN v ELSE N(RoundHalfUp(v.n, Truth(sheet, tree.args[2]).n \div One))
    [] OTHER -> N(Sums(sheet, tree, LAMBDA p :
                         IF \/ Calls(tree, "SUBTOTAL") /\ IsSubtotal(sheet.cells[p])
                            \/ SkipsHidden(tree) /\ p[1] \in sheet.hidden
                            \/ sheet.cells[p].is = "bool"
                         THEN Nothing ELSE TruthOf(sheet, p)))
TruthOf(sheet, p) ==
  LET c == sheet.cells[p]
  IN CASE c.is \in {"number", "bool"} -> N(c.n) [] c.is = "text" -> Nothing [] OTHER -> Truth(sheet, c.tree)

-----------------------------------------------------------------------------
(* The value beside the formula in the .xlsx, and the one in the mail. *)

\* mutant: a nested subtotal is counted again
Counted_All(sheet, tree, p) == ~(SkipsHidden(tree) /\ p[1] \in sheet.hidden)
Counted(sheet, tree, p) ==
  ~(Calls(tree, "SUBTOTAL") /\ IsSubtotal(sheet.cells[p])) /\ ~(SkipsHidden(tree) /\ p[1] \in sheet.hidden)

Aggregate(tree) ==
  \/ Calls(tree, "SUM") /\ \A i \in DOMAIN tree.args : tree.args[i].t \in {"ref", "area"}
  \/ Calls(tree, "SUBTOTAL") /\ Len(tree.args) = 2 /\ tree.args[1] \in {[t |-> "num", n |-> f * One] : f \in {9, 109}}
     /\ tree.args[2].t = "area"

\* A sum of cells, each with a sign: D2-E2-F2.
RECURSIVE Terms(_, _)
Terms(tree, sign) ==
  CASE tree.t = "ref" -> <<[sign |-> sign, at |-> tree.at]>>
    [] tree.t = "neg" /\ tree.of.t = "ref" -> <<[sign |-> -sign, at |-> tree.of.at]>>
    [] tree.t = "bin" -> Terms(tree.l, sign) \o Terms(tree.r, IF tree.op = "-" THEN -sign ELSE sign)
    [] OTHER -> <<>>
RECURSIVE OnlyTerms(_)
OnlyTerms(tree) ==
  \/ tree.t = "ref"
  \/ tree.t = "neg" /\ tree.of.t = "ref"
  \/ tree.t = "bin" /\ tree.op \in {"+", "-"} /\ OnlyTerms(tree.l) /\ tree.r.t = "ref"
Arithmetic(tree) == (OnlyTerms(tree) /\ tree.t = "bin") \/ (Calls(tree, "ROUND") /\ OnlyTerms(tree.args[1]))

\* _display_value and _value: a cell on the way to itself counts nothing.
RECURSIVE Resolved(_, _, _, _)
Resolved(sheet, p, resolving, arithmetic) ==
  LET c == sheet.cells[p]
      Val(q) == IF c.is = "formula" /\ Counted(sheet, c.tree, q) /\ sheet.cells[q].is # "bool"
                THEN Resolved(sheet, q, resolving \cup {p}, arithmetic) ELSE Nothing
      Plus(terms) == FoldLeft(LAMBDA sum, x : IF x.at \in DOMAIN sheet.cells /\ Val(x.at).v = "number"
                                              THEN sum + x.sign * Val(x.at).n ELSE sum, 0, terms)
  IN CASE c.is \in {"number", "bool"} -> N(c.n)
       [] c.is = "text" \/ p \in resolving -> Nothing
       [] c.is = "formula" /\ p \notin resolving /\ Aggregate(c.tree) -> N(Sums(sheet, c.tree, Val))
       [] c.is = "formula" /\ p \notin resolving /\ arithmetic /\ Arithmetic(c.tree) ->
            IF c.tree.t = "call" THEN N(RoundHalfUp(Plus(Terms(c.tree.args[1], 1)), c.tree.args[2].n \div One))
            ELSE N(Plus(Terms(c.tree, 1)))
       [] OTHER -> Nothing
CachedValue(sheet, p) == Resolved(sheet, p, {}, FALSE)
ShownValue(sheet, p) == Resolved(sheet, p, {}, TRUE)

\* inject_cached_values into a saved book: sheets is a sequence of [name, id], targets
\* gives an id its part, parts is [part -> [place -> [formula, cached]]].
PartOf(book, name) ==
  LET named == {i \in DOMAIN book.sheets : book.sheets[i].name = name /\ book.sheets[i].id \in DOMAIN book.targets}
  IN IF named = {} THEN "" ELSE book.targets[book.sheets[Max(named)].id]
Injected(book, values) ==
  [part \in DOMAIN book.parts |->
     LET names == {n \in DOMAIN values : PartOf(book, n) = part /\ DOMAIN values[n] # {}}
         known == IF names = {} THEN <<>> ELSE values[CHOOSE n \in names : TRUE]
     IN [p \in DOMAIN book.parts[part] |->
           IF p \in DOMAIN known /\ book.parts[part][p].formula THEN [formula |-> TRUE, cached |-> known[p]] ELSE book.parts[part][p]]]

-----------------------------------------------------------------------------
(* The value beside the formula in the .xlsb: from the cells read so far. *)

AsNumber(v) == CASE v.v = "number" \/ v.v = "error" -> v [] v.v = "nothing" -> N(0) [] OTHER -> Error("#VALUE!")
Known(known, p) == IF p \in DOMAIN known THEN known[p] ELSE Nothing

RECURSIVE Evaluate(_, _)
\* The first error, or what Combine(_) makes of the numbers.
Strict(vs, Combine(_)) ==
  LET bad == {i \in DOMAIN vs : vs[i].v = "error"} IN IF bad # {} THEN vs[Min(bad)] ELSE Combine([i \in DOMAIN vs |-> vs[i].n])
OfRange(known, tree) ==
  IF tree.t # "area" THEN <<Evaluate(tree, known)>>
  ELSE LET ps == InOrder({p \in DOMAIN known : Between(tree.from[1], tree.to[1], p[1]) /\ Between(tree.from[2], tree.to[2], p[2])})
       IN SelectSeq([i \in DOMAIN ps |-> known[ps[i]]], LAMBDA v : v.v \in {"number", "error"})
Evaluate(tree, known) ==
  CASE tree.t = "num" -> N(tree.n)
    [] tree.t = "ref" -> AsNumber(Known(known, tree.at))
    [] tree.t = "paren" -> Evaluate(tree.of, known)
    [] tree.t = "neg" -> Strict(<<Evaluate(tree.of, known)>>, LAMBDA n : N(-n[1]))
    [] tree.t = "bin" ->
         Strict(<<Evaluate(tree.l, known), Evaluate(tree.r, known)>>,
                LAMBDA n : CASE tree.op = "+" -> N(n[1] + n[2]) [] tree.op = "-" -> N(n[1] - n[2])
                             [] tree.op = "*" -> N((n[1] * n[2]) \div One)
                             [] OTHER -> IF n[2] = 0 THEN Error("#DIV/0!") ELSE N((n[1] * One) \div n[2]))
    [] Calls(tree, "ABS") -> Strict(<<Evaluate(tree.args[1], known)>>, LAMBDA n : N(IF n[1] < 0 THEN -n[1] ELSE n[1]))
    [] Calls(tree, "ROUND") ->
         Strict(<<Evaluate(tree.args[1], known), Evaluate(tree.args[2], known)>>, LAMBDA n : N(RoundHalfUp(n[1], n[2] \div One)))
    [] OTHER -> Strict(FlattenSeq([i \in DOMAIN Ranges(tree) |-> OfRange(known, Ranges(tree)[i])]),
                       LAMBDA n : N(FoldLeft(LAMBDA a, b : a + b, 0, n)))

-----------------------------------------------------------------------------
(* Properties *)

FormulaCells(sheet) == {p \in DOMAIN sheet.cells : sheet.cells[p].is = "formula"}

\* Where the formulas are of the kinds each evaluator knows, nested subtotals,
\* hidden rows and formulas over formulas included, the reader of the mail and
\* of an .xlsx that is not recalculated see Excel's number.
MailAndCacheAreRight(sheet) ==
  LET trees == {sheet.cells[p].tree : p \in FormulaCells(sheet)}
  IN \A p \in FormulaCells(sheet) :
       /\ (\A t \in trees : Aggregate(t)) => CachedValue(sheet, p) = TruthOf(sheet, p)
       /\ (\A t \in trees : Aggregate(t) \/ Arithmetic(t)) => ShownValue(sheet, p) = TruthOf(sheet, p)

\* A formula gets the value that was worked out for its own sheet and place, and
\* nothing else of the saved file changes.
InjectedRight(book, values, parts) ==
  \A i \in DOMAIN book.sheets : LET name == book.sheets[i].name  part == book.targets[book.sheets[i].id] IN
    \A p \in DOMAIN book.parts[part] :
      parts[part][p] = IF name \in DOMAIN values /\ p \in DOMAIN values[name] /\ book.parts[part][p].formula
                       THEN [formula |-> TRUE, cached |-> values[name][p]] ELSE book.parts[part][p]
=============================================================================
