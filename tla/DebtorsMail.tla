----------------------------- MODULE DebtorsMail -----------------------------
(***************************************************************************)
(* The Debtors mail: two of its reports, Untagged Invoices and Unapplied   *)
(* Receipts (where their rows go, what they sum up, what is reported as    *)
(* unmapped, and how users mend it), and how the workbooks of a mail are   *)
(* made smaller, cut into parts and put into mails                         *)
(* (untagged_invoices/, unapplied_receipts/, debtors_mailer/,              *)
(* customer_region.py, attachment_fit.py).                                 *)
(***************************************************************************)
EXTENDS Integers, Sequences, FiniteSets, FiniteSetsExt, SequencesExt, TLC

CONSTANTS
  OpenInvoices, Invoice,   \* [i -> [customer, name, amount, bucket, receipt]]: the open ageing
  Receipts, Receipt,   \* [r -> [customer, name, amount, bucket, unidentified]]
  RegionOf,            \* [customer -> a place, or Absent]: the ERP's regions
  Names,               \* location names of the ERP, in capitals
  Places,              \* Locations as users and the ERP spell them
  Upper(_),            \* in capitals
  Debtors,             \* [name, incharge, regions, lookup, edits]: the maps, what the ERP answers, edits left
  Absent

VARIABLES
  debtors,   \* the two maps: [name -> place], and for each place whether its incharge is "on", archived or "none"
  memo,      \* what the last build found: [place, rows and warnings of each report]
  answers,   \* of the ERP to this build: [regions, lookup]
  mends      \* edits left

debtorsMail == <<debtors, memo, answers, mends>>

Blank == ""
NoMemo == [built |-> FALSE]

-----------------------------------------------------------------------------
(* Untagged Invoices: add_location_column and what follows. *)

Region(a, customer) == IF a.regions THEN RegionOf[customer] ELSE Absent
Mapped(m, name) == IF name \in Names /\ m.name[name] # Absent THEN m.name[name] ELSE Blank
HasIncharge(m, p) == m.incharge[p] = "on"
InvoicePlace(m, a, i) ==
  LET region == Region(a, Invoice[i].customer) IN IF region # Absent THEN region ELSE Mapped(m, Invoice[i].name)

MissingNames(m, a) ==
  {Invoice[i].name : i \in {x \in OpenInvoices : Region(a, Invoice[x].customer) = Absent}}
  \cap {n \in Names : m.name[n] = Absent}

\* mutant: compared without case, as _merge_warnings compares
MissingIncharges_AnyCase(m, places) ==
  {p \in places \ {Blank} : \A q \in Places : Upper(q) = Upper(p) => ~HasIncharge(m, q)}

MissingIncharges(m, places) == {p \in places \ {Blank} : ~HasIncharge(m, p)}

Untagged == {i \in OpenInvoices : ~Invoice[i].receipt /\ Invoice[i].amount < 0}
Below1k == {i \in OpenInvoices : ~Invoice[i].receipt /\ Invoice[i].amount > 0 /\ Invoice[i].amount < 1000}

-----------------------------------------------------------------------------
(* Unapplied Receipts: the receipt's own location is its name when that is *)
(* not mapped, and blank when the look-up failed.                          *)

ReceiptPlace(m, a, r) ==
  LET region == Region(a, Receipt[r].customer)
      name == Receipt[r].name
  IN CASE region # Absent -> region
       [] region = Absent /\ ~a.lookup -> Blank
       [] OTHER -> IF name \in Names /\ m.name[name] # Absent THEN m.name[name] ELSE name

\* A customer without an open invoice paid in advance; no number is no customer.
Identified == {r \in Receipts : ~Receipt[r].unidentified}
Advance ==
  {r \in Identified : Receipt[r].customer # Blank
     /\ \A i \in OpenInvoices : Invoice[i].customer = Receipt[r].customer => Invoice[i].receipt}
Main == Identified \ Advance

-----------------------------------------------------------------------------
(* The summaries, by place and bucket, and the warnings of both reports.   *)

Amounts(rows, Amount(_)) == MapThenSumSet(Amount, rows)
Pivot(rows, Place(_), Row(_)) ==
  [c \in {<<Place(x), Row(x).bucket>> : x \in rows} |->
     Amounts({x \in rows : <<Place(x), Row(x).bucket>> = c}, LAMBDA x : Row(x).amount)]
PivotTotal(pivot) == MapThenSumSet(LAMBDA c : pivot[c], DOMAIN pivot)

\* _merge_warnings: an "incharge" that no Location has is a name to be mapped.
KnownPlaces(m, a) ==
  {Upper(p) : p \in ({m.name[n] : n \in Names} \ {Absent, Blank}) \cup {q \in Places : HasIncharge(m, q)}
                    \cup ({RegionOf[c] : c \in DOMAIN RegionOf} \ {Absent})}
Merged(m, a, names, places) ==
  [names |-> names \cup {Upper(p) : p \in {q \in places : Upper(q) \notin KnownPlaces(m, a)}},
   places |-> {q \in places : Upper(q) \in KnownPlaces(m, a)}]

Warnings(m, a) ==
  LET untagged == {InvoicePlace(m, a, i) : i \in OpenInvoices}
      main == {ReceiptPlace(m, a, r) : r \in Main}
  IN Merged(m, a, MissingNames(m, a), MissingIncharges(m, untagged) \cup MissingIncharges(m, main))
Held(warnings) == warnings.names # {} \/ warnings.places # {}

DebtorsInit ==
  /\ \E d \in Debtors :
       /\ debtors = [name |-> d.name, incharge |-> d.incharge]
       /\ answers = [regions |-> d.regions, lookup |-> d.lookup]
       /\ mends = d.edits
  /\ memo = NoMemo

Compiles ==
  /\ ~memo.built /\ mends > 0
  /\ memo' = [built |-> TRUE, maps |-> debtors, warnings |-> Warnings(debtors, answers),
              untagged |-> Pivot(Untagged, LAMBDA i : InvoicePlace(debtors, answers, i), LAMBDA i : Invoice[i]),
              below |-> Pivot(Below1k, LAMBDA i : InvoicePlace(debtors, answers, i), LAMBDA i : Invoice[i]),
              main |-> Pivot(Main, LAMBDA r : ReceiptPlace(debtors, answers, r), LAMBDA r : Receipt[r])]
  /\ UNCHANGED <<debtors, answers, mends>>

-----------------------------------------------------------------------------
(* Users mend what a held mail lists.  The database compares keys exactly  *)
(* (utf8mb4_bin): another spelling of a place is a row of its own.         *)

WithName(m, name, place) == [m EXCEPT !.name[name] = place]
\* mutant: an archived row is found and stays archived
WithIncharge_Archived(m, place) == [m EXCEPT !.incharge[place] = IF @ = "none" THEN "on" ELSE @]

WithIncharge(m, place) == [m EXCEPT !.incharge[place] = "on"]

Mends ==
  /\ memo.built /\ mends > 0
  /\ \/ \E name \in memo.warnings.names \cap Names, place \in Places \cup {Blank} :
          debtors' = WithName(debtors, name, place)
     \/ \E place \in memo.warnings.places : debtors' = WithIncharge(debtors, place)
  /\ memo' = NoMemo /\ mends' = mends - 1
  /\ UNCHANGED answers

-----------------------------------------------------------------------------
(* Properties *)

\* Every amount of a sheet is in its summary, also of rows without a place or
\* a date.
SummariesAddUp ==
  /\ PivotTotal(memo.untagged) = Amounts(Untagged, LAMBDA i : Invoice[i].amount)
  /\ PivotTotal(memo.below) = Amounts(Below1k, LAMBDA i : Invoice[i].amount)
  /\ PivotTotal(memo.main) = Amounts(Main, LAMBDA r : Receipt[r].amount)

\* In a mail that is not held every row has a place with an incharge, unless
\* the ERP names none, its look-up failed, or a user mapped the name to nothing.
NothingUntold ==
  LET m == memo.maps
      Nowhere(name) == name \notin Names \/ m.name[name] = Blank
      Placed(p, excused) == IF p = Blank THEN excused ELSE HasIncharge(m, p)
  IN ~Held(memo.warnings) =>
       /\ \A i \in OpenInvoices : Placed(InvoicePlace(m, answers, i), Nowhere(Invoice[i].name))
       /\ \A r \in Main : Placed(ReceiptPlace(m, answers, r), ~answers.lookup \/ Nowhere(Receipt[r].name))

\* Once every listed name is mapped to a place that has an incharge, and every
\* listed place is given one, the mail is no longer held: also over a place whose
\* incharge is archived, or stored under another spelling beside it.
MendingHelps ==
  \A place \in {p \in Places : HasIncharge(memo.maps, p)} :
    LET named == [memo.maps EXCEPT !.name = [n \in Names |-> IF n \in memo.warnings.names THEN place ELSE @[n]]]
        mended == FoldSet(LAMBDA p, m : WithIncharge(m, p), named, memo.warnings.places)
    IN ~Held(Warnings(mended, answers))

DebtorsRight == memo.built => SummariesAddUp /\ NothingUntold /\ MendingHelps

-----------------------------------------------------------------------------
(* The workbooks of a mail. *)

CONSTANTS
  Parcels,          \* [books, cut, rows, limit, ...]: the workbooks of a mail, in their order, how each is
                    \* cut ("rows", "sheets" or "no"), how many rows it has, and what one email carries
  FileSize(_, _),   \* of a file of a parcel, as it was written, compacted or converted
  NotSent           \* the job stops

VARIABLES
  parcel,
  mails     \* each the files it carries; none before they are made
attachments == <<parcel, mails>>

\* A file holds rows of a book, and maybe its other sheets.
File(b, first, last, sheets) == [book |-> b, first |-> first, last |-> last, sheets |-> sheets, form |-> "xlsx"]
Whole(p, b) == File(b, 1, p.rows[b], p.cut[b] = "sheets")
IsXlsx(f) == f.form \in {"xlsx", "compact"}
As(f, form) == [f EXCEPT !.form = form]
Ceil(n, d) == (n + d - 1) \div d
TotalSize(p, files) == FoldSeq(LAMBDA f, sum : sum + FileSize(p, f), 0, files)
LargestFirst(p, files) ==
  SortSeq([i \in 1..Len(files) |-> i], LAMBDA i, j : FileSize(p, files[i]) > FileSize(p, files[j])
                                                       \/ (FileSize(p, files[i]) = FileSize(p, files[j]) /\ i < j))

\* convert_to_xlsb is kept only when the file got smaller.
Converted(p, f) == IF IsXlsx(f) /\ FileSize(p, As(f, "xlsb")) < FileSize(p, f) THEN As(f, "xlsb") ELSE f
Compacted(p, f) == IF IsXlsx(f) THEN As(f, "compact") ELSE f
Shrunk(p, f) ==
  LET compact == IF FileSize(p, f) > p.limit THEN Compacted(p, f) ELSE f
  IN IF FileSize(p, compact) > p.limit THEN Converted(p, compact) ELSE compact

\* One after the other, the largest first, while they do not fit together.
UntilTheyFit(p, files, Smaller(_, _)) ==
  FoldLeft(LAMBDA now, i : IF TotalSize(p, now) <= p.limit THEN now ELSE [now EXCEPT ![i] = Smaller(p, @)],
           files, LargestFirst(p, files))

\* mutant: the last rows that make no full part are lost
RowSlices_Floor(b, rows, wanted) ==
  LET per == Ceil(rows, Min({wanted, rows}))
  IN [i \in 1..(rows \div per) |-> File(b, (i - 1) * per + 1, i * per, FALSE)]

\* row_splitter: consecutive slices, all but the last of the same length.
RowSlices(b, rows, wanted) ==
  LET per == Ceil(rows, Min({wanted, rows}))
  IN [i \in 1..Ceil(rows, per) |-> File(b, (i - 1) * per + 1, Min({i * per, rows}), FALSE)]
Parts(p, b, wanted) ==
  (IF p.cut[b] = "sheets" THEN <<File(b, 1, 0, TRUE)>> ELSE <<>>) \o RowSlices(b, p.rows[b], wanted)

\* _split_to_fit: at first as many parts as the size asks for, at 85 % of a mail.
MaxSplitRounds == 8
Wanted(p, f) ==
  LET wanted[r \in 1..MaxSplitRounds] ==
        IF r = 1 THEN Max({2, Ceil(100 * FileSize(p, f), 85 * p.limit)})
        ELSE Max({wanted[r - 1] + 1, Ceil(3 * wanted[r - 1], 2)})
  IN wanted
SplitToFit(p, f) ==
  LET Small(r) == [i \in DOMAIN Parts(p, f.book, Wanted(p, f)[r]) |-> Shrunk(p, Parts(p, f.book, Wanted(p, f)[r])[i])]
      fit == {r \in 1..MaxSplitRounds : \A i \in DOMAIN Small(r) : FileSize(p, Small(r)[i]) <= p.limit}
  IN IF p.rows[f.book] < 2 \/ fit = {} THEN NotSent ELSE Small(Min(fit))

\* Each file into the first mail with room, the largest first; in a mail they
\* are in their old order.
Packed(p, files) ==
  LET InRoom(groups, i) ==
        LET room == {g \in DOMAIN groups : TotalSize(p, [k \in 1..Len(groups[g]) |-> files[groups[g][k]]])
                                           + FileSize(p, files[i]) <= p.limit}
        IN IF room = {} THEN Append(groups, <<i>>) ELSE [groups EXCEPT ![Min(room)] = Append(@, i)]
      groups == FoldLeft(InRoom, <<>>, LargestFirst(p, files))
      InOrder(g) == SortSeq(groups[g], <)
  IN [g \in DOMAIN groups |-> [k \in DOMAIN InOrder(g) |-> files[InOrder(g)[k]]]]

FitTogether(p) ==
  LET whole == [i \in DOMAIN p.books |-> Whole(p, p.books[i])]
      compact == UntilTheyFit(p, whole, Compacted)
      small == UntilTheyFit(p, compact, Converted)
      Final(f) == IF FileSize(p, f) <= p.limit THEN <<f>>
                  ELSE IF p.cut[f.book] = "no" THEN NotSent ELSE SplitToFit(p, f)
      finals == [i \in DOMAIN small |-> Final(small[i])]
  IN CASE TotalSize(p, small) <= p.limit -> <<small>>
       [] TotalSize(p, small) > p.limit /\ (\E i \in DOMAIN finals : finals[i] = NotSent) -> NotSent
       [] OTHER -> Packed(p, FlattenSeq(finals))

AttachInit == parcel \in Parcels /\ mails = <<>>
Fit ==
  /\ mails = <<>> /\ parcel.books # <<>>
  /\ mails' = FitTogether(parcel)
  /\ UNCHANGED parcel

-----------------------------------------------------------------------------
(* Properties *)

Smallest(f) == CHOOSE n \in {FileSize(parcel, As(f, form)) : form \in {"xlsx", "compact", "xlsb"}} :
                 \A form \in {"xlsx", "compact", "xlsb"} : n <= FileSize(parcel, As(f, form))
Cuttable(b) ==
  /\ parcel.cut[b] # "no" /\ parcel.rows[b] > 1
  /\ \A i \in 1..parcel.rows[b] : Smallest(File(b, i, i, FALSE)) <= parcel.limit
  /\ parcel.cut[b] = "sheets" => Smallest(File(b, 1, 0, TRUE)) <= parcel.limit

\* Nothing is left out and nothing is mailed twice: each row of each workbook,
\* and its other sheets, is in one file of one mail.  Each mail is within the
\* limit, no two of them would fit in one, and the job stops only over a
\* workbook that is too big in every form and cannot be cut finely enough.
MailsCarryAll ==
  LET files == FlattenSeq(mails)
      Holders(b, i) == {k \in DOMAIN files : files[k].book = b /\ i \in files[k].first..files[k].last}
      Sheets(b) == {k \in DOMAIN files : files[k].book = b /\ files[k].sheets}
  IN CASE mails = <<>> -> TRUE
       [] mails = NotSent -> \E b \in ToSet(parcel.books) : Smallest(Whole(parcel, b)) > parcel.limit /\ ~Cuttable(b)
       [] OTHER ->
            /\ \A b \in ToSet(parcel.books) :
                 /\ \A i \in 1..parcel.rows[b] : Cardinality(Holders(b, i)) = 1
                 /\ Cardinality(Sheets(b)) = IF parcel.cut[b] = "sheets" THEN 1 ELSE 0
            /\ \A m, n \in DOMAIN mails :
                 TotalSize(parcel, mails[m]) <= parcel.limit
                 /\ (m # n => TotalSize(parcel, mails[m] \o mails[n]) > parcel.limit)
=============================================================================
