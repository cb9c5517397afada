-------------------------------- MODULE Xlsb --------------------------------
(***************************************************************************)
(* A finished .xlsx written as .xlsb (services/xlsb_writer.py): records,   *)
(* numbers, formulas, the table of strings, and the rows of a sheet, which *)
(* are read in blocks and go one of two routes.  What cannot be converted  *)
(* is refused.                                                             *)
(***************************************************************************)
EXTENDS Formulas, TLC

CONSTANTS
  RkBits,    \* bits of the short form of a number
  Plain,     \* styles there are
  MaxCol     \* columns there are

Refused == [refused |-> TRUE]

-----------------------------------------------------------------------------
(* Records and numbers. *)

\* Seven bits a byte, the lowest first, the eighth bit says that more follow.
Groups[n \in Nat] == IF n < 128 THEN <<n>> ELSE <<(n % 128) + 128>> \o Groups[n \div 128]
Record(id, size) == (IF id < 128 THEN <<id>> ELSE <<(id % 128) + 128, id \div 128>>) \o Groups[size]

ShortInteger(n) == -(2 ^ (RkBits - 3)) < n /\ n < 2 ^ (RkBits - 3)

\* A number is an integer, or has bits after the point: then high is the upper
\* half of its double, and low says whether anything is set below it.
CellNumber(x) ==
  CASE x.is = "integer" /\ ShortInteger(x.n) -> [form |-> "short", bits |-> (4 * x.n + 2) % (2 ^ RkBits)]
    [] x.is = "fraction" /\ ~x.low /\ x.high % 4 = 0 -> [form |-> "short", bits |-> x.high]
    [] OTHER -> [form |-> "double", of |-> x]

\* The flags of a cell format, each field at its own bits (_xf).
CellFormat(x) ==
  IF x.horizontal < 0 \/ x.vertical < 0 THEN Refused  \* an alignment that its table lacks
  ELSE [refused |-> FALSE,
        flags |-> x.horizontal + 8 * x.vertical + 64 * x.wrap + 256 * x.shrink + 1024 * x.reading + 4096 * x.locked + 8192 * x.hidden
                  + 16384 * x.pivot + 32768 * x.quoted]

\* The layout of a sheet: what its elements say, or a refusal.
Kept(layout, e) ==
  CASE e.el = "view" /\ ~e.odd -> [layout EXCEPT !.grid = e.grid]
    [] e.el = "pane" /\ e.x = 0 /\ e.frozen /\ e.y > 0 /\ e.top = e.y + 1 -> [layout EXCEPT !.frozen = e.y]
    [] e.el = "format" /\ ~e.odd -> layout
    [] e.el = "col" /\ ~e.styled /\ e.first >= 1 /\ e.first <= e.last /\ e.last <= MaxCol ->
         [layout EXCEPT !.columns = Append(@, [first |-> e.first, last |-> e.last, width |-> e.width])]
    [] e.el = "autoFilter" -> [layout EXCEPT !.filter = e.area]
    [] e.el = "pageSetUpPr" /\ ~e.odd -> layout
    [] OTHER -> Refused
Layout(elements) ==
  FoldLeft(LAMBDA layout, e : IF "refused" \in DOMAIN layout THEN layout ELSE Kept(layout, e),
           [grid |-> TRUE, frozen |-> 0, columns |-> <<>>, filter |-> <<>>], elements)

-----------------------------------------------------------------------------
(* Formulas: text to a tree, the tree to tokens. *)

Functions == [ROUND |-> [least |-> 2, most |-> 2, classes |-> <<"value">>], ABS |-> [least |-> 1, most |-> 1, classes |-> <<"value">>],
              SUM |-> [least |-> 1, most |-> 255, classes |-> <<"reference">>],
              SUBTOTAL |-> [least |-> 2, most |-> 255, classes |-> <<"value", "reference">>]]
Class(f, i) == LET c == Functions[f].classes IN c[IF i <= Len(c) THEN i ELSE Len(c)]

\* A text is a sequence of [k |-> "leaf", tree], [k |-> "func", f] and [k |-> "op", op].
Op(s, ops) == s # <<>> /\ s[1].k = "op" /\ s[1].op \in ops
Parsed(tree, rest) == [tree |-> tree, rest |-> rest, refused |-> FALSE]
Levels == <<{"+", "-"}, {"*", "/"}>>

RECURSIVE Expression(_, _), Continued(_, _), Arguments(_, _, _)
Expression(level, s) ==
  CASE level < 3 -> Continued(level, Expression(level + 1, s))
    [] level = 3 /\ Op(s, {"-"}) ->
         LET p == Expression(3, Tail(s)) IN IF p.refused THEN Refused ELSE Parsed([t |-> "neg", of |-> p.tree], p.rest)
    [] level = 3 /\ Op(s, {"+"}) -> Expression(3, Tail(s))
    [] level = 3 /\ Op(s, {"("}) ->
         LET p == Expression(1, Tail(s))
         IN IF p.refused \/ ~Op(p.rest, {")"}) THEN Refused ELSE Parsed([t |-> "paren", of |-> p.tree], Tail(p.rest))
    [] level = 3 /\ s # <<>> /\ s[1].k = "leaf" -> Parsed(s[1].tree, Tail(s))
    [] level = 3 /\ s # <<>> /\ s[1].k = "func" ->
         IF s[1].f \notin DOMAIN Functions THEN Refused
         ELSE IF Op(Tail(s), {")"}) THEN Arguments(s[1].f, <<>>, Tail(s)) ELSE Arguments(s[1].f, <<>>, <<[k |-> "op", op |-> ","]>> \o Tail(s))
    [] OTHER -> Refused
\* node = ("bin", take()[1], node, term())
Continued(level, p) ==
  IF p.refused \/ ~Op(p.rest, Levels[level]) THEN p
  ELSE LET q == Expression(level + 1, Tail(p.rest))
       IN IF q.refused THEN Refused
          ELSE Continued(level, Parsed([t |-> "bin", op |-> p.rest[1].op, l |-> p.tree, r |-> q.tree], q.rest))
Arguments(f, args, s) ==
  CASE Op(s, {","}) -> LET p == Expression(1, Tail(s)) IN IF p.refused THEN Refused ELSE Arguments(f, Append(args, p.tree), p.rest)
    [] Op(s, {")"}) -> IF Functions[f].least <= Len(args) /\ Len(args) <= Functions[f].most
                       THEN Parsed([t |-> "call", f |-> f, args |-> args], Tail(s)) ELSE Refused
    [] OTHER -> Refused
ParseFormula(s) == LET p == Expression(1, s) IN IF p.refused \/ p.rest # <<>> THEN Refused ELSE p

RECURSIVE Compile(_, _)
Compile(tree, class) ==
  CASE tree.t \in {"num", "ref", "area"} -> <<[tree |-> tree, class |-> class]>>
    [] tree.t = "neg" -> Compile(tree.of, "value") \o <<[op |-> "neg", takes |-> 1]>>
    [] tree.t = "paren" -> Compile(tree.of, class) \o <<[op |-> "paren", takes |-> 1]>>
    [] tree.t = "bin" -> Compile(tree.l, "value") \o Compile(tree.r, "value") \o <<[op |-> tree.op, takes |-> 2]>>
    [] OTHER -> FlattenSeq([i \in DOMAIN tree.args |-> Compile(tree.args[i], Class(tree.f, i))])
                  \o <<[op |-> tree.f, takes |-> Len(tree.args)]>>

-----------------------------------------------------------------------------
(* Rows.  A cell is [col (0: after the last one), style, is, ...] with      *)
(* is "number" (n), "text" (raw), "formula" (s), "bool" (n) or "odd".       *)

\* The reader of a sheet; strings is the workbook's table, out what was written.
Fresh(strings) == [row |-> 0, strings |-> strings, known |-> <<>>, remembering |-> TRUE, out |-> <<>>, refused |-> FALSE]
Remember(r, p, v) ==
  CASE ~r.remembering -> r
    [] r.remembering /\ Cardinality(DOMAIN r.known) >= EvalLimit -> [r EXCEPT !.remembering = FALSE, !.known = <<>>]
    [] OTHER -> [r EXCEPT !.known = (p :> v) @@ @]

StringIndex(strings, text) == IF text \in ToSet(strings) THEN CHOOSE i \in DOMAIN strings : strings[i] = text ELSE Len(strings) + 1
WithString(strings, text) == IF text \in ToSet(strings) THEN strings ELSE Append(strings, text)
NextCol(col, cell) == IF cell.col = 0 THEN col + 1 ELSE cell.col
Wrote(r, row, col, style, what) == [r EXCEPT !.out = Append(@, [at |-> <<row, col>>, style |-> style, what |-> what])]

\* A raw text is a sequence of pieces.  The parser ends lines with LF and takes
\* entities from left to right; then _unescape takes the escaped characters.
Swap(text, old, new) ==
  LET at == {i \in 1 .. Len(text) + 1 - Len(old) : SubSeq(text, i, i + Len(old) - 1) = old}
  IN FlattenSeq([i \in DOMAIN text |-> CASE i \in at -> new [] i - 1 \in at /\ Len(old) = 2 -> <<>> [] OTHER -> <<text[i]>>])
LineEnds(text) == Swap(Swap(text, <<"CR", "LF">>, <<"LF">>), <<"CR">>, <<"LF">>)
Unescaped(text) == Swap(text, <<"_x000D_">>, <<"CR">>)
Entities == ("amp;" :> "&" @@ "lt;" :> "<" @@ "gt;" :> ">" @@ "#13;" :> "CR")
ParserText(raw) ==
  LET s == LineEnds(raw)
  IN Unescaped(FlattenSeq([i \in DOMAIN s |-> CASE s[i] = "&" -> <<Entities[s[i + 1]]>>
                                                [] i > 1 /\ s[i - 1] = "&" -> <<>>
                                                [] OTHER -> <<s[i]>>]))

\* mutant: the ampersand first, so that what it reveals is taken again
PlainText_AmpFirst(raw) ==
  Unescaped(LineEnds(Swap(Swap(Swap(raw, <<"&", "amp;">>, <<"&">>), <<"&", "lt;">>, <<"<">>), <<"&", "gt;">>, <<">">>)))

PlainText(raw) ==
  Unescaped(LineEnds(Swap(Swap(Swap(raw, <<"&", "lt;">>, <<"<">>), <<"&", "gt;">>, <<">">>), <<"&", "amp;">>, <<"&">>)))

OtherEntity(raw) == \E i \in DOMAIN raw : raw[i] = "&" /\ raw[i + 1] \notin {"amp;", "lt;", "gt;"}

\* _end_cell, and _end_row: the route of the parser.
ParserCell(s, cell) ==
  LET col == NextCol(s.col, cell)  p == <<s.r.row, col>>
      text == IF cell.is = "text" THEN ParserText(cell.raw) ELSE <<>>
      formula == IF cell.is = "formula" THEN ParseFormula(cell.s) ELSE Refused
      result == IF s.r.remembering /\ ~formula.refused THEN Evaluate(formula.tree, s.r.known) ELSE N(0)
      Writes(what) == Wrote(s.r, s.r.row, col, cell.style, what)
      r == CASE col > MaxCol \/ cell.style \notin Plain \/ cell.is = "odd" -> [s.r EXCEPT !.refused = TRUE]
             [] cell.is = "formula" /\ formula.refused -> [s.r EXCEPT !.refused = TRUE]
             [] cell.is = "formula" /\ ~formula.refused ->
                  Remember(Writes([is |-> "formula", tokens |-> Compile(formula.tree, "value"), result |-> result]), p, result)
             [] cell.is = "blank" \/ (cell.is = "text" /\ text = <<>>) -> Writes([is |-> "blank"])
             [] cell.is = "text" /\ text # <<>> ->
                  Remember([Writes([is |-> "text", index |-> StringIndex(s.r.strings, text)])
                              EXCEPT !.strings = WithString(@, text)], p, [v |-> "text"])
             [] cell.is = "number" -> Remember(Writes([is |-> "number", record |-> CellNumber([is |-> "integer", n |-> cell.n])]), p, N(cell.n))
             [] OTHER -> Remember(Writes([is |-> "bool", n |-> cell.n]), p, N(cell.n))
  IN IF s.r.refused THEN s ELSE [r |-> r, col |-> col]
ParserRow(r, row) ==
  IF r.refused THEN r
  ELSE FoldLeft(ParserCell, [r |-> [r EXCEPT !.row = IF row.n = 0 THEN @ + 1 ELSE row.n], col |-> 0], row.cells).r

\* _plain_row: the whole row is looked at first, then written.
IsPlain(row) ==
  /\ row.n # 0 /\ row.bare
  /\ \A i \in DOMAIN row.cells :
       /\ row.cells[i].is \in {"number", "blank", "text"} /\ row.cells[i].style \in Plain
       /\ row.cells[i].is = "text" => ~OtherEntity(row.cells[i].raw)
PlainCols(row) == [i \in DOMAIN row.cells |-> FoldLeft(NextCol, 0, SubSeq(row.cells, 1, i))]
PlainRow(r, row) ==
  LET col == PlainCols(row)
      Text(i) == IF row.cells[i].is = "text" THEN PlainText(row.cells[i].raw) ELSE <<>>
      Kind(i) == IF row.cells[i].is = "text" /\ Text(i) = <<>> THEN "blank" ELSE row.cells[i].is
      strings == FoldLeft(LAMBDA known, i : IF Kind(i) = "text" THEN WithString(known, Text(i)) ELSE known,
                          r.strings, [i \in DOMAIN row.cells |-> i])
      What(i) == CASE Kind(i) = "blank" -> [is |-> "blank"]
                   [] Kind(i) = "text" -> [is |-> "text", index |-> StringIndex(strings, Text(i))]
                   [] OTHER -> [is |-> "number", record |-> CellNumber([is |-> "integer", n |-> row.cells[i].n])]
      stored == SelectSeq([i \in DOMAIN row.cells |-> i], LAMBDA i : Kind(i) # "blank")
      written == [r EXCEPT !.row = row.n, !.strings = strings,
                           !.out = @ \o [i \in DOMAIN row.cells |-> [at |-> <<row.n, col[i]>>, style |-> row.cells[i].style, what |-> What(i)]]]
  IN FoldLeft(LAMBDA q, i : Remember(q, <<row.n, col[i]>>, IF Kind(i) = "text" THEN [v |-> "text"] ELSE N(row.cells[i].n)), written, stored)

\* _feed_rows over the sheets of a workbook: one table of strings for all.
FeedRow(r, row) ==
  CASE r.refused -> r
    [] ~r.refused /\ IsPlain(row) /\ \A i \in DOMAIN row.cells : PlainCols(row)[i] <= MaxCol -> PlainRow(r, row)
    [] OTHER -> ParserRow(r, row)
\* Every row by the parser, for comparison, or as the code chooses.
ConvertSheet(strings, rows, chosen) ==
  FoldLeft(LAMBDA r, row : IF chosen THEN FeedRow(r, row) ELSE ParserRow(r, row), Fresh(strings), rows)
ConvertBook(sheets, chosen) ==
  FoldLeft(LAMBDA done, rows : IF done # <<>> /\ Last(done).refused THEN done
                               ELSE Append(done, ConvertSheet(IF done = <<>> THEN <<>> ELSE Last(done).strings, rows, chosen)),
           <<>>, sheets)

-----------------------------------------------------------------------------
(* _feed_sheet: blocks that end anywhere; an empty one ends the file.      *)

Open == <<"<sheet", "Data>">>
Close == <<"</sheet", "Data>">>
RowEnd == <<"</r", "ow>">>
Found(text, tag) == {i \in 1 .. Len(text) - 1 : SubSeq(text, i, i + 1) = tag}
Feeds(s, to, text) == IF text = <<>> THEN s ELSE [s EXCEPT !.fed = Append(@, [to |-> to, text |-> text])]
Upto(text, i) == SubSeq(text, 1, i)
After(text, i) == SubSeq(text, i + 1, Len(text))

Rest(s, block) == LET f == Feeds(s, "parser", s.pending) IN [f EXCEPT !.pending = <<>>, !.over = block = <<>>]
FeedBlock(before, block) ==
  LET s == [before EXCEPT !.pending = @ \o block]
      at == Min(Found(s.pending, Open)) + 1
      in == IF s.inside THEN s
            ELSE [Feeds(s, "parser", Upto(s.pending, at)) EXCEPT !.pending = After(s.pending, at), !.inside = TRUE]
      ends == Found(in.pending, Close)  cuts == Found(in.pending, RowEnd)
      cut == Max(cuts) + 1
  IN CASE s.over -> s
       [] ~s.over /\ s.done -> Rest(s, block)
       [] ~s.over /\ ~s.done /\ ~s.inside /\ Found(s.pending, Open) = {} -> IF block # <<>> THEN s ELSE Rest(s, block)
       [] OTHER ->
            CASE ends # {} -> Rest([Feeds(in, "rows", Upto(in.pending, Min(ends) - 1)) EXCEPT !.pending = After(in.pending, Min(ends) - 1), !.done = TRUE], block)
              [] ends = {} /\ cuts = {} -> IF block # <<>> THEN in ELSE Rest(in, block)
              [] OTHER -> LET f == [Feeds(in, "rows", Upto(in.pending, cut)) EXCEPT !.pending = After(in.pending, cut)]
                          IN IF block = <<>> THEN Rest(f, block) ELSE f
FeedSheet(blocks) ==
  FoldLeft(FeedBlock, [pending |-> <<>>, inside |-> FALSE, done |-> FALSE, over |-> FALSE, fed |-> <<>>], Append(blocks, <<>>)).fed

-----------------------------------------------------------------------------
(* Properties *)

\* What a reader makes of a header and of a short number.
ReadRecord(bytes) ==
  LET wide == bytes[1] >= 128
      size == SubSeq(bytes, IF wide THEN 3 ELSE 2, Len(bytes))
  IN [id |-> IF wide THEN bytes[1] - 128 + 128 * bytes[2] ELSE bytes[1],
      size |-> FoldLeft(LAMBDA n, i : n + (size[i] % 128) * 128 ^ (i - 1), 0, [i \in DOMAIN size |-> i]),
      whole |-> \A i \in DOMAIN size : size[i] >= 128 <=> i < Len(size)]
ReadNumber(c) ==
  CASE c.form = "double" -> c.of
    [] c.form = "short" /\ (c.bits \div 2) % 2 = 1 ->
         LET n == c.bits \div 4 IN [is |-> "integer", n |-> IF n >= 2 ^ (RkBits - 3) THEN n - 2 ^ (RkBits - 2) ELSE n]
    [] OTHER -> [is |-> "fraction", high |-> c.bits, low |-> FALSE]

ReadFormat(flags) ==
  LET Bits(from, n) == (flags \div 2 ^ from) % 2 ^ n
  IN [horizontal |-> Bits(0, 3), vertical |-> Bits(3, 3), wrap |-> Bits(6, 1), shrink |-> Bits(8, 1), reading |-> Bits(10, 2),
      locked |-> Bits(12, 1), hidden |-> Bits(13, 1), pivot |-> Bits(14, 1), quoted |-> Bits(15, 1)]
\* What a sheet's elements ask of its window is all there, or the sheet is refused.
LayoutKept(elements, layout) ==
  \A i \in DOMAIN elements : LET e == elements[i] IN
    "refused" \in DOMAIN layout
    \/ CASE e.el = "pane" -> e.x = 0 /\ layout.frozen = e.y
         [] e.el = "view" -> layout.grid = e.grid
         [] e.el = "col" -> \E k \in DOMAIN layout.columns : layout.columns[k] = [first |-> e.first, last |-> e.last, width |-> e.width]
         [] e.el = "autoFilter" -> layout.filter = e.area
         [] OTHER -> ~e.odd

\* The text of a tree, and whether its operators bind as they are written.
RECURSIVE TextOf(_), WellBound(_), Rebuilt(_)
TextOf(tree) ==
  CASE tree.t \in {"num", "ref", "area"} -> <<[k |-> "leaf", tree |-> tree]>>
    [] tree.t = "neg" -> <<[k |-> "op", op |-> "-"]>> \o TextOf(tree.of)
    [] tree.t = "paren" -> <<[k |-> "op", op |-> "("]>> \o TextOf(tree.of) \o <<[k |-> "op", op |-> ")"]>>
    [] tree.t = "bin" -> TextOf(tree.l) \o <<[k |-> "op", op |-> tree.op]>> \o TextOf(tree.r)
    [] OTHER -> <<[k |-> "func", f |-> tree.f]>>
                  \o FlattenSeq([i \in DOMAIN tree.args |-> (IF i = 1 THEN <<>> ELSE <<[k |-> "op", op |-> ","]>>) \o TextOf(tree.args[i])])
                  \o <<[k |-> "op", op |-> ")"]>>
LevelOf(tree) == IF tree.t # "bin" THEN 3 ELSE IF tree.op \in Levels[1] THEN 1 ELSE 2
WellBound(tree) ==
  CASE tree.t \in {"num", "ref", "area"} -> TRUE
    [] tree.t = "neg" -> LevelOf(tree.of) = 3 /\ WellBound(tree.of)
    [] tree.t = "paren" -> WellBound(tree.of)
    [] tree.t = "bin" -> LevelOf(tree.l) >= LevelOf(tree) /\ LevelOf(tree.r) > LevelOf(tree) /\ WellBound(tree.l) /\ WellBound(tree.r)
    [] OTHER -> \A i \in DOMAIN tree.args : WellBound(tree.args[i])
\* The tree that a stack machine reads from tokens.
Rebuilt(tokens) ==
  FoldLeft(LAMBDA stack, t :
             IF "tree" \in DOMAIN t THEN Append(stack, t.tree)
             ELSE LET n == Len(stack) - t.takes
                      args == SubSeq(stack, n + 1, Len(stack))
                  IN Append(SubSeq(stack, 1, n),
                            CASE t.op \in {"neg", "paren"} -> [t |-> t.op, of |-> args[1]]
                              [] t.op \in DOMAIN Functions -> [t |-> "call", f |-> t.op, args |-> args]
                              [] OTHER -> [t |-> "bin", op |-> t.op, l |-> args[1], r |-> args[2]]), <<>>, tokens)

\* The formula that was written is the one that the .xlsb computes.
FormulaKept(text, tokens) ==
  LET tree == Rebuilt(tokens)[1] IN TextOf(tree) = text /\ WellBound(tree) /\ Len(Rebuilt(tokens)) = 1

\* Whatever the blocks, the parser and the rows get the file in order, and what
\* is taken for rows ends with one.
BlocksKept(blocks, fed) ==
  /\ FlattenSeq([i \in DOMAIN fed |-> fed[i].text]) = FlattenSeq(blocks)
  /\ \A i \in DOMAIN fed : fed[i].to = "rows" => LET x == fed[i].text IN SubSeq(x, Len(x) - 1, Len(x)) = RowEnd

\* Cells as the source has them, and as they are read back.
SourceCells(rows) ==
  FlattenSeq([k \in DOMAIN rows |->
    LET before == {j \in 1 .. k : rows[j].n # 0}
        n == IF before = {} THEN k ELSE rows[Max(before)].n + k - Max(before)
    IN [i \in DOMAIN rows[k].cells |->
          LET c == rows[k].cells[i]
              v == CASE c.is = "text" -> [is |-> IF ParserText(c.raw) = <<>> THEN "blank" ELSE "text", of |-> ParserText(c.raw)]
                     [] c.is = "formula" -> [is |-> "formula", of |-> c.s]
                     [] c.is = "blank" -> [is |-> "blank", of |-> <<>>]
                     [] OTHER -> [is |-> c.is, of |-> c.n]
          IN [at |-> <<n, PlainCols(rows[k])[i]>>, style |-> c.style, v |-> v]]])
ReadCell(strings, c) ==
  [at |-> c.at, style |-> c.style,
   v |-> CASE c.what.is = "blank" -> [is |-> "blank", of |-> <<>>]
           [] c.what.is = "text" -> [is |-> "text", of |-> strings[c.what.index]]
           [] c.what.is = "number" -> [is |-> "number", of |-> ReadNumber(c.what.record).n]
           [] c.what.is = "bool" -> [is |-> "bool", of |-> c.what.n]
           [] OTHER -> [is |-> "formula", of |-> TextOf(Rebuilt(c.what.tokens)[1])]]

\* The rows of a workbook come out the same by either route, with every cell, its
\* place and its text, or the workbook is refused.
BookKept(sheets, written) ==
  LET strings == Last(written).strings
  IN /\ written = ConvertBook(sheets, FALSE)
     /\ (\A k \in DOMAIN written : ~written[k].refused) =>
          \A k \in DOMAIN sheets :
            [i \in DOMAIN written[k].out |-> ReadCell(strings, written[k].out[i])] = SourceCells(sheets[k])

-----------------------------------------------------------------------------
\* The values an .xlsb has beside the formulas of a sheet.
BinaryValues(sheet) ==
  FoldLeft(LAMBDA known, p :
             LET c == sheet.cells[p]
             IN (p :> CASE c.is = "text" -> [v |-> "text"] [] c.is = "formula" -> Evaluate(c.tree, known) [] OTHER -> N(c.n)) @@ known,
           <<>>, InOrder(DOMAIN sheet.cells))

RECURSIVE Leaves(_)
Leaves(tree) ==
  CASE tree.t \in {"ref", "area"} -> {tree} [] tree.t = "num" -> {} [] tree.t \in {"neg", "paren"} -> Leaves(tree.of)
    [] tree.t = "bin" -> Leaves(tree.l) \cup Leaves(tree.r)
    [] OTHER -> UNION {Leaves(tree.args[i]) : i \in DOMAIN tree.args}

\* They are Excel's where a formula reads what stands before it, and no subtotal
\* reads a subtotal, a hidden row or a truth value.
BinaryIsRight(sheet) ==
  LET read(p) == UNION {Places(sheet, x) : x \in Leaves(sheet.cells[p].tree)}
      plain == \A p \in FormulaCells(sheet) :
                 \A q \in read(p) : /\ Earlier(q, p) /\ sheet.cells[q].is # "bool" /\ q[1] \notin sheet.hidden
                                    /\ ~(IsSubtotal(sheet.cells[p]) /\ IsSubtotal(sheet.cells[q]))
  IN plain => \A p \in FormulaCells(sheet) : BinaryValues(sheet)[p] = TruthOf(sheet, p)
=============================================================================
