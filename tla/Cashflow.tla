------------------------------ MODULE Cashflow ------------------------------
(***************************************************************************)
(* The Ultrafine cashflow books: where the money of a bank line goes       *)
(* (resolver.py, mapping_store.py), ingest jobs that store statement lines *)
(* (ingest.py, _job_ingest), and users who remove statements, type over    *)
(* lines and edit the masters (routers/ultrafine_cashflow.py), all at      *)
(* once.  A request or a file of a job reads one snapshot, and commits     *)
(* later the columns it changed (REPEATABLE READ, no row is locked when it *)
(* is read); a unique key refuses the second of two new rows.              *)
(***************************************************************************)
EXTENDS Integers, Sequences, FiniteSets, SequencesExt, FiniteSetsExt

CONSTANTS
  Parties, Locations, CfLocations, Groups,
  RatioSets,   \* <<group, effective_from>>
  Lines,       \* bank lines by dedupe key
  Clerks,      \* users; a split is known by who typed it
  Amount(_), Date(_), Desc(_),  \* of a bank line, in paise, in days, its key
  NamedLike(_),\* the CF location that has a location's name
  None,
  Jobs, Files,     \* ingest jobs and, for each, the statements it was given
  Statements,      \* for each statement how often each bank line is in it; Unreadable has none
  Unreadable,
  Months,          \* <<the month>>: one month is kept
  Scenarios,       \* [db, jobs, clerks, requests, budget]: where a run begins and what is asked
  Idle, NoView

-----------------------------------------------------------------------------
(* Where the money of a bank line goes.  Nothing is stored for a line but  *)
(* what a person typed; its rows are worked out from the master tables     *)
(* each time.  The tables are a function v from cells, which are           *)
(* <<table, row, column>>, to values, so that one request can work on the  *)
(* snapshot its transaction sees.  A request yields the cells it writes.   *)

Is(v, t, r) == v[<<t, r, "is">>]
On(v, t, r) == r # None /\ Is(v, t, r) = "on"
Known(v, t, r) == r # None /\ Is(v, t, r) # "none"
Put(t, r, columns) == [c \in {<<t, r, f>> : f \in DOMAIN columns} |-> columns[c[3]]]
Over(f, g) == [c \in DOMAIN f \cup DOMAIN g |-> IF c \in DOMAIN f THEN f[c] ELSE g[c]]
Sum(s) == FoldSeq(+, 0, s)

\* The uploads, one for each file of a job.
Uploads == UNION {{<<j, i>> : i \in DOMAIN Files[j]} : j \in Jobs}
StatementOf(u) == Files[u[1]][u[2]]

\* How often a bank line is in a statement; an unreadable one has none.
Times(u, b) == IF b \in DOMAIN Statements[StatementOf(u)] THEN Statements[StatementOf(u)][b] ELSE 0
Stored(v) == {u \in Uploads : Is(v, "upload", u) # "none"}
Removed(v) == {u \in Uploads : Is(v, "upload", u) = "off"}

\* The lines of the books are those of the stored statements: each came with the
\* upload it names, and is archived only if a statement that holds it was removed.
BooksKept(v) ==
  /\ \A k \in Lines : {<<"txn", k, "is">>, <<"txn", k, "upload">>} \subseteq DOMAIN v /\ Is(v, "txn", k) \in {"none", "on", "off"}
  /\ \A u \in Uploads : <<"upload", u, "is">> \in DOMAIN v
  /\ \A k \in Lines : Is(v, "txn", k) # "none" <=> \E u \in Stored(v) : Times(u, k[1]) >= k[2]
  /\ \A k \in Lines : Is(v, "txn", k) = "off" => \E u \in Removed(v) : Times(u, k[1]) >= k[2]
  /\ \A k \in Lines : LET u == v[<<"txn", k, "upload">>] IN
       IF Is(v, "txn", k) = "none" THEN u = None ELSE u \in Stored(v) /\ Times(u, k[1]) >= k[2]

Operations == {"party", "location", "cf", "set", "alias", "fix", "key", "archive", "remove", "line", "setup", "generate"}
MasterTables == {"party", "loc", "cf", "group", "set", "alias", "input"}

\* What the masters, and what a person typed over a line, refer to.
OrNone(S) == S \cup {None}
Ratios == Seq([loc : Locations, cf : OrNone(CfLocations), percent : Int])
Typed == Seq([loc : Locations, cf : OrNone(CfLocations), amount : Int])
MasterCells ==
  {<<"txn", k, "party">> : k \in Lines} \cup {<<"split", k, c>> : k \in Lines, c \in Clerks}
  \cup {<<"alias", Desc(k), f>> : k \in Lines, f \in {"is", "party"}}
  \cup {<<"party", p, f>> : p \in Parties, f \in {"is", "loc", "cf", "group"}}
  \cup {<<"loc", l, f>> : l \in Locations, f \in {"is", "cf"}}
  \cup {<<"cf", c, "is">> : c \in CfLocations} \cup {<<"group", g, "is">> : g \in Groups}
  \cup {<<"set", s, f>> : s \in RatioSets, f \in {"is", "lines"}}
CellOK(c, x) ==
  /\ c[1] \in {"txn", "alias"} /\ c[3] = "party" => x \in OrNone(Parties)
  /\ c[1] = "party" /\ c[3] = "loc" => x \in OrNone(Locations)
  /\ c[1] \in {"party", "loc"} /\ c[3] = "cf" => x \in OrNone(CfLocations)
  /\ c[1] = "party" /\ c[3] = "group" => x \in OrNone(Groups)
  /\ c[1] = "set" /\ c[3] = "lines" => x \in Ratios
  /\ c[1] = "split" => x \in Typed
CellsOK(v) == \A c \in DOMAIN v : CellOK(c, v[c])
MastersOK(v) == MasterCells \subseteq DOMAIN v /\ CellsOK(v)

RequestFits(q) ==
  /\ q.op \in Operations
  /\ q.op = "remove" => q.upload \in Uploads
  /\ q.op = "archive" => q.table \in MasterTables
  /\ q.op = "party" => q.loc \in OrNone(Locations) /\ q.cf \in OrNone(CfLocations) /\ q.group \in OrNone(Groups)
  /\ q.op = "location" => q.cf \in OrNone(CfLocations)
  /\ q.op = "set" => q.lines \in Ratios
  /\ q.op = "alias" => q.party \in Parties
  /\ q.op \in {"fix", "key"} => q.party \in Parties /\ q.loc \in OrNone(Locations) /\ q.cf \in OrNone(CfLocations)
  /\ q.op = "line" =>
       /\ q.party \in OrNone(Parties) /\ q.loc \in OrNone(Locations) /\ q.cf \in OrNone(CfLocations)
       /\ q.splits \in Typed

ASSUME BooksConstants ==
  /\ IsFiniteSet(Lines) /\ \A k \in Lines : k = <<k[1], k[2]>> /\ k[2] \in Nat \ {0}
  /\ \A s \in DOMAIN Statements : \A b \in DOMAIN Statements[s] :
       Statements[s][b] \in Nat /\ \A n \in 1..Statements[s][b] : <<b, n>> \in Lines
  /\ \A j \in Jobs : Files[j] \in Seq(DOMAIN Statements)
  /\ IsFiniteSet(Clerks) /\ None \notin Lines \cup Uploads
  /\ \A l \in Locations : NamedLike(l) \in OrNone(CfLocations)
  /\ \A s \in RatioSets : s[2] \in Nat
  /\ \A k \in Lines : Date(k) \in Nat
  /\ \A x \in Scenarios :
       /\ DOMAIN x = {"db", "jobs", "clerks", "requests", "budget"} /\ BooksKept(x.db)
       /\ \A u \in Uploads : u[1] \in x.jobs => Is(x.db, "upload", u) = "none"
       /\ MastersOK(x.db) /\ \A q \in x.requests : RequestFits(q)

-----------------------------------------------------------------------------
(* resolver.py *)

CfFor(v, l, override) ==
  IF On(v, "cf", override) THEN override
  ELSE IF ~On(v, "loc", l) THEN None
  ELSE LET own == v[<<"loc", l, "cf">>]
           cf == IF own # None THEN own ELSE NamedLike(l)
       IN IF On(v, "cf", cf) THEN cf ELSE None

PartyFor(v, k) ==
  LET typed == v[<<"txn", k, "party">>]
      d == Desc(k)
      mapped == IF On(v, "alias", d) THEN v[<<"alias", d, "party">>] ELSE None
  IN CASE On(v, "party", typed) -> typed
       [] ~On(v, "party", typed) /\ On(v, "party", mapped) -> mapped
       [] OTHER -> None

\* The set with the latest start that is not after the line.
RatioLinesFor(v, g, when) ==
  LET inForce == {s \in RatioSets : s[1] = g /\ On(v, "set", s) /\ s[2] <= when}
  IN IF inForce = {} THEN <<>>
     ELSE v[<<"set", CHOOSE s \in inForce : \A t \in inForce : t[2] <= s[2], "lines">>]

\* Each share to the paisa, half up; the last takes the remainder.
SplitEvenly(total, percents) ==
  LET Share(i) == (2 * total * percents[i] + 100) \div 200
      n == Len(percents)
  IN [i \in 1..n |-> IF i < n THEN Share(i) ELSE total - Sum([j \in 1..n - 1 |-> Share(j)])]

Row(v, amount, l, override) ==
  LET cf == CfFor(v, l, override)
  IN [amount |-> amount, loc |-> IF On(v, "loc", l) THEN l ELSE None, cf |-> cf,
      issues |-> CASE ~On(v, "loc", l) -> {"no_location"}
                   [] On(v, "loc", l) /\ cf = None -> {"no_cf_location"}
                   [] OTHER -> {}]
Unplaced(amount, issue) == <<[amount |-> amount, loc |-> None, cf |-> None, issues |-> {issue}]>>
Flagged(rows, issue) == [i \in 1..Len(rows) |-> [rows[i] EXCEPT !.issues = @ \cup {issue}]]

Splits(v, k) ==
  LET typists == SetToSeq(Clerks) IN FlattenSeq([i \in DOMAIN typists |-> v[<<"split", k, typists[i]>>]])

SplitRows(v, total, splits) ==
  LET rows == [i \in 1..Len(splits) |-> Row(v, splits[i].amount, splits[i].loc, splits[i].cf)]
  IN IF Sum([i \in 1..Len(rows) |-> rows[i].amount]) = total THEN rows ELSE Flagged(rows, "split_mismatch")

RatioRows(v, total, lines) ==
  LET shares == SplitEvenly(total, [i \in 1..Len(lines) |-> lines[i].percent])
  IN [i \in 1..Len(lines) |-> Row(v, shares[i], lines[i].loc, lines[i].cf)]

PartyRow(v, total, p) ==
  LET row == Row(v, total, v[<<"party", p, "loc">>], v[<<"party", p, "cf">>])
  IN <<IF "no_location" \in row.issues THEN [row EXCEPT !.cf = None] ELSE row>>

Allocate(v, k) ==
  LET p == PartyFor(v, k)
      group == v[<<"party", p, "group">>]
      lines == RatioLinesFor(v, group, Date(k))
      splits == Splits(v, k)
  IN CASE splits # <<>> -> SplitRows(v, Amount(k), splits)
       [] splits = <<>> /\ p = None -> Unplaced(Amount(k), "no_party")
       [] splits = <<>> /\ p # None /\ On(v, "group", group) ->
            IF lines = <<>> THEN Unplaced(Amount(k), "no_ratio") ELSE RatioRows(v, Amount(k), lines)
       [] OTHER -> PartyRow(v, Amount(k), p)

Active(v) == {k \in Lines : Is(v, "txn", k) = "on"}
HasIssue(v, k) == \E i \in DOMAIN Allocate(v, k) : Allocate(v, k)[i].issues # {}

-----------------------------------------------------------------------------
(* mapping_store.py: what a request may do and the cells it writes.  A     *)
(* refused request writes nothing.                                         *)

Refused == <<>>

\* _resolve: with create it adds the row or brings it back from the archive.
Created(t, r) == IF r = None THEN <<>> ELSE Put(t, r, [is |-> "on"])
ActiveOrNone(v, t, r) == r = None \/ On(v, t, r)

\* _upsert_named: a new row may revive an archived one, an edit needs the row.
Upsertable(v, t, r, edit) == On(v, t, r) = edit

SaveParty(v, q) ==
  LET shared == q.group # None
  IN IF /\ Upsertable(v, "party", q.party, q.edit)
        /\ ActiveOrNone(v, "group", q.group) /\ ActiveOrNone(v, "cf", q.cf)
        /\ shared \/ q.loc = None \/ q.cf # None
     THEN Over(Put("party", q.party, [is |-> "on", loc |-> IF shared THEN None ELSE q.loc,
                                      cf |-> IF shared THEN None ELSE q.cf, group |-> q.group]),
               Created("loc", q.loc))
     ELSE Refused

SaveLocation(v, q) ==
  IF ActiveOrNone(v, "cf", q.cf) /\ Upsertable(v, "loc", q.loc, q.edit)
  THEN Put("loc", q.loc, [is |-> "on", cf |-> q.cf]) ELSE Refused

SaveCfLocation(v, q) == IF Upsertable(v, "cf", q.cf, FALSE) THEN Created("cf", q.cf) ELSE Refused

\* A particular that is itself a CF location goes to that one.
SaveRatioSet(v, q) ==
  LET Cf(line) == IF line.cf = None /\ Known(v, "cf", NamedLike(line.loc)) THEN NamedLike(line.loc) ELSE line.cf
      lines == [i \in 1..Len(q.lines) |-> [q.lines[i] EXCEPT !.cf = Cf(q.lines[i])]]
      created == [c \in {<<"loc", lines[i].loc, "is">> : i \in 1..Len(lines)} |-> "on"]
  IN IF /\ lines # <<>> /\ \A i, j \in 1..Len(lines) : lines[i].loc = lines[j].loc => i = j
        /\ \A i \in 1..Len(lines) : ActiveOrNone(v, "cf", lines[i].cf)
        /\ Sum([i \in 1..Len(lines) |-> lines[i].percent]) = 100
     THEN Over(Put("set", q.set, [is |-> "on", lines |-> lines]), Over(Created("group", q.set[1]), created))
     ELSE Refused

SaveAlias(v, d, p) == IF On(v, "party", p) THEN Put("alias", d, [is |-> "on", party |-> p]) ELSE Refused

\* get_or_create_party with require_placement: it places a name that has no
\* place yet, asks for both halves of the place, and never overwrites one.
CfKnown(v, p) ==
  LET l == v[<<"party", p, "loc">>]
  IN v[<<"party", p, "cf">>] # None \/ (l # None /\ (v[<<"loc", l, "cf">>] # None \/ Known(v, "cf", NamedLike(l))))
NeedsLocation(v, p) ==
  ~Known(v, "party", p) \/ (v[<<"party", p, "loc">>] = None /\ v[<<"party", p, "group">>] = None)
HalfPlaced(v, p) == ~NeedsLocation(v, p) /\ v[<<"party", p, "group">>] = None /\ ~CfKnown(v, p)

FixParty(v, p, l, cf) ==
  LET takes == NeedsLocation(v, p) \/ HalfPlaced(v, p)
      kept == v[<<"party", p, "cf">>]
  IN CASE ~ActiveOrNone(v, "cf", cf) \/ (takes /\ (l = None \/ cf = None)) -> Refused
       [] ActiveOrNone(v, "cf", cf) /\ ~takes -> Put("party", p, [is |-> "on"])
       [] OTHER -> Over(Put("party", p, [is |-> "on", loc |-> l, cf |-> IF kept = None THEN cf ELSE kept]),
                        Created("loc", l))

\* resolve_key: the name, then the alias, in one transaction.
ResolveKey(v, q) ==
  LET fixed == FixParty(v, q.party, q.loc, q.cf)
  IN IF fixed = Refused THEN Refused ELSE Over(SaveAlias(Over(fixed, v), q.desc, q.party), fixed)

\* mutant: the lines of ratio sets and the typed splits are not looked at
Used_OfMasters(v, t, r) ==
  LET Points(table, rows, f) == \E x \in rows : On(v, table, x) /\ v[<<table, x, f>>] = r
  IN CASE t = "party" -> Points("alias", {Desc(k) : k \in Lines}, "party") \/ Points("txn", Lines, "party")
       [] t = "loc" -> Points("party", Parties, "loc")
       [] t = "cf" -> Points("loc", Locations, "cf") \/ Points("party", Parties, "cf")
       [] t = "group" -> Points("party", Parties, "group")
       [] OTHER -> FALSE

\* archive_*: refused while an active row points there.
Used(v, t, r) ==
  LET Points(table, rows, f) == \E x \in rows : On(v, table, x) /\ v[<<table, x, f>>] = r
      InSet(f) == \E s \in RatioSets : \E i \in DOMAIN v[<<"set", s, "lines">>] : v[<<"set", s, "lines">>][i][f] = r
      InSplit(f) == \E k \in Lines : \E i \in DOMAIN Splits(v, k) : Splits(v, k)[i][f] = r
  IN CASE t = "party" -> Points("alias", {Desc(k) : k \in Lines}, "party") \/ Points("txn", Lines, "party")
       [] t = "loc" -> Points("party", Parties, "loc") \/ InSet("loc") \/ InSplit("loc")
       [] t = "cf" -> \/ Points("loc", Locations, "cf") \/ Points("party", Parties, "cf")
                      \/ InSet("cf") \/ InSplit("cf") \/ On(v, "input", r)
       [] t = "group" -> Points("party", Parties, "group")
       [] OTHER -> FALSE

Archive(v, q) ==
  LET sets == IF q.table = "group" THEN {s \in RatioSets : s[1] = q.row} ELSE {}
  IN IF On(v, q.table, q.row) /\ ~Used(v, q.table, q.row)
     THEN Over(Put(q.table, q.row, [is |-> "off"]),
               [c \in {<<"set", s, "is">> : s \in {x \in sets : On(v, "set", x)}} |-> "off"])
     ELSE Refused

-----------------------------------------------------------------------------
(* The database, and who is at work on it. *)

VARIABLES
  db,      \* the committed tables
  desk,    \* each user's request under way and the snapshot it reads
  job,     \* each ingest job
  scenario, asked

books == <<db, desk, job, scenario, asked>>

\* mutant: identical lines of one statement are taken for one line
DedupeKeys_Once(s) == {<<b, 1>> : b \in DOMAIN Statements[s]}

\* _dedupe_key: a line is known by its text and by which occurrence it is.
DedupeKeys(s) == UNION {{<<b, n>> : n \in 1..Statements[s][b]} : b \in DOMAIN Statements[s]}

BooksInit ==
  /\ \E x \in Scenarios : db = x.db /\ scenario = [x EXCEPT !.db = NoView]
  /\ desk = [c \in Clerks |-> [ask |-> Idle, view |-> NoView]]
  /\ job = [j \in Jobs |-> [at |-> IF j \in scenario.jobs THEN 1 ELSE 0, view |-> NoView, new |-> FALSE,
                            state |-> IF j \in scenario.jobs THEN "running" ELSE "none"]]
  /\ asked = 0

\* A transaction writes what it changed; its stored workbook it always writes.
Changed(view, writes) == [c \in {x \in DOMAIN writes : x[1] = "book" \/ view[x] # writes[x]} |-> writes[c]]
Clashes(view, writes) == \E c \in DOMAIN writes : c[3] = "is" /\ view[c] = "none" /\ db[c] # "none"
Commit(view, writes) == db' = Over(Changed(view, writes), db)

-----------------------------------------------------------------------------
(* generate_month: the workbook of the lines, unless one needs a mapping. *)

Generated(v, anyway) ==
  IF Active(v) = {} \/ (~anyway /\ \E k \in Active(v) : HasIssue(v, k)) THEN Refused
  ELSE Put("book", Months[1], [lines |-> Active(v)])

-----------------------------------------------------------------------------
(* _job_ingest: each file in a transaction of its own, then the month. *)

FileRead(j) ==
  /\ job[j].state = "running" /\ job[j].view = NoView /\ job[j].at \in DOMAIN Files[j]
  /\ job' = IF Files[j][job[j].at] = Unreadable THEN [job EXCEPT ![j].at = @ + 1] ELSE [job EXCEPT ![j].view = db]
  /\ UNCHANGED <<db, desk, scenario, asked>>

\* ingest_statement: known lines are duplicates, archived ones come back
\* under the new upload, the rest are added.
Ingested(v, u) ==
  LET keys == {k \in DedupeKeys(StatementOf(u)) : Is(v, "txn", k) # "on"}
  IN Over([c \in UNION {{<<"txn", k, "is">>, <<"txn", k, "upload">>} : k \in keys} |->
             IF c[3] = "is" THEN "on" ELSE u],
          Put("upload", u, [is |-> "on"]))

FileStored(j) ==
  LET u == <<j, job[j].at>>
      view == job[j].view
      writes == Ingested(view, u)
  IN /\ job[j].state = "running" /\ job[j].view # NoView /\ job[j].at \in DOMAIN Files[j]
     /\ IF Clashes(view, writes)
        THEN /\ job' = [job EXCEPT ![j].state = "failed", ![j].view = NoView]
             /\ UNCHANGED db
        ELSE /\ job' = [job EXCEPT ![j].at = @ + 1, ![j].view = NoView, ![j].new = @ \/ Cardinality(DOMAIN writes) > 1]
             /\ Commit(view, writes)
     /\ UNCHANGED <<desk, scenario, asked>>

MonthRead(j) ==
  /\ job[j].state = "running" /\ job[j].view = NoView /\ job[j].at \notin DOMAIN Files[j]
  /\ job' = IF job[j].new THEN [job EXCEPT ![j].view = db] ELSE [job EXCEPT ![j].state = "done"]
  /\ UNCHANGED <<db, desk, scenario, asked>>

MonthStored(j) ==
  /\ job[j].state = "running" /\ job[j].view # NoView /\ job[j].at \notin DOMAIN Files[j]
  /\ Commit(job[j].view, Generated(job[j].view, FALSE))
  /\ job' = [job EXCEPT ![j].state = "done", ![j].view = NoView]
  /\ UNCHANGED <<desk, scenario, asked>>

-----------------------------------------------------------------------------
(* The requests of users. *)

\* remove_statement archives the lines that are this upload's.
RemoveStatement(v, u) ==
  LET own == {k \in Active(v) : v[<<"txn", k, "upload">>] = u}
  IN IF ~On(v, "upload", u) THEN Refused
     ELSE Over([c \in {<<"txn", k, "is">> : k \in own} |-> "off"], Put("upload", u, [is |-> "off"]))

\* set_override: a name and typed splits, which replace those the request saw.
SetOverride(v, q, c) ==
  LET named == IF q.party = None THEN <<>> ELSE FixParty(v, q.party, q.loc, q.cf)
      after == Over(named, v)
      old == [x \in {<<"split", q.txn, d>> : d \in Clerks} |-> <<>>]
  IN IF /\ Is(v, "txn", q.txn) = "on"
        /\ q.party # None => named # Refused
        /\ \A i \in DOMAIN q.splits : On(after, "loc", q.splits[i].loc) /\ On(after, "cf", q.splits[i].cf)
        /\ q.splits # <<>> => Sum([i \in DOMAIN q.splits |-> q.splits[i].amount]) = Amount(q.txn)
     THEN Over([x \in {<<"txn", q.txn, "party">>} |-> q.party],
               Over(named, Over([x \in {<<"split", q.txn, c>>} |-> q.splits], old)))
     ELSE Refused

SaveSetup(v, q) ==
  IF On(v, "cf", q.cf) THEN Put("input", q.cf, [is |-> IF q.typed THEN "on" ELSE "off"]) ELSE Refused

Writes(v, q, c) ==
  CASE q.op = "party" -> SaveParty(v, q)
    [] q.op = "location" -> SaveLocation(v, q)
    [] q.op = "cf" -> SaveCfLocation(v, q)
    [] q.op = "set" -> SaveRatioSet(v, q)
    [] q.op = "alias" -> SaveAlias(v, q.desc, q.party)
    [] q.op = "fix" -> FixParty(v, q.party, q.loc, q.cf)
    [] q.op = "key" -> ResolveKey(v, q)
    [] q.op = "archive" -> Archive(v, q)
    [] q.op = "remove" -> RemoveStatement(v, q.upload)
    [] q.op = "line" -> SetOverride(v, q, c)
    [] q.op = "setup" -> SaveSetup(v, q)
    [] q.op = "generate" -> Generated(v, q.anyway)

Ask(c) ==
  /\ c \in scenario.clerks /\ desk[c].ask = Idle /\ asked < scenario.budget
  /\ \E q \in scenario.requests : desk' = [desk EXCEPT ![c] = [ask |-> q, view |-> db]]
  /\ asked' = asked + 1
  /\ UNCHANGED <<db, job, scenario>>

\* A refused request rolls back; a clash on a unique key fails the request.
Answer(c) ==
  LET writes == Writes(desk[c].view, desk[c].ask, c)
  IN /\ desk[c].ask # Idle
     /\ IF Clashes(desk[c].view, writes) THEN UNCHANGED db ELSE Commit(desk[c].view, writes)
     /\ desk' = [desk EXCEPT ![c] = [ask |-> Idle, view |-> NoView]]
     /\ UNCHANGED <<job, scenario, asked>>

BooksNext ==
  \/ \E j \in Jobs : FileRead(j) \/ FileStored(j) \/ MonthRead(j) \/ MonthStored(j)
  \/ \E c \in Clerks : Ask(c) \/ Answer(c)

-----------------------------------------------------------------------------
(* What holds in between. *)

\* What a transaction read: of the books as they were once, and no row that is
\* new to the books now was there.
Snapshot(v) ==
  /\ BooksKept(v)
  /\ \A k \in Lines : Is(db, "txn", k) = "none" => Is(v, "txn", k) = "none"
  /\ \A u \in Uploads : Is(db, "upload", u) = "none" => Is(v, "upload", u) = "none"

\* A job that runs has not stored the files it has yet to take.
JobOK(j, r) ==
  /\ DOMAIN r = {"at", "view", "new", "state"}
  /\ r.state = "running" =>
       /\ r.at \in Nat \ {0}
       /\ r.view # NoView => Snapshot(r.view)
       /\ \A i \in DOMAIN Files[j] : i >= r.at => Is(db, "upload", <<j, i>>) = "none"

BooksInductive ==
  /\ \E x \in Scenarios : scenario = [x EXCEPT !.db = NoView]
  /\ BooksKept(db)
  /\ DOMAIN job = Jobs /\ \A j \in Jobs : JobOK(j, job[j])
  /\ DOMAIN desk = Clerks
  /\ \A c \in Clerks : desk[c].ask # Idle => desk[c].ask \in scenario.requests /\ Snapshot(desk[c].view)

\* What is referred to is something that can be, in the books and in each view.
MastersInductive == MastersOK(db) /\ \A c \in Clerks : desk[c].ask # Idle => MastersOK(desk[c].view)

-----------------------------------------------------------------------------
(* Properties *)

Bases == {k[1] : k \in Lines}

\* Overlapping statements store each bank line once: of identical lines as
\* many as the statement that has most of them, whatever files, jobs and
\* removals came in between; and a line is out of the books only if a
\* statement that holds it was removed.
LinesKept ==
  /\ \A b \in Bases :
       LET rows == {k \in Lines : k[1] = b /\ Is(db, "txn", k) # "none"}
       IN Cardinality(rows) = Max({Times(u, b) : u \in Stored(db)} \cup {0})
  /\ \A k \in Lines : Is(db, "txn", k) = "off" => \E u \in Removed(db) : Times(u, k[1]) >= k[2]
  /\ \A k \in Lines : Is(db, "txn", k) # "none" => db[<<"txn", k, "upload">>] \in Stored(db)

\* Every paisa of a bank line is on its rows, or the rows say that the typed
\* split does not add up; and a row without an issue is at a location and a
\* CF location that exist.  This holds while masters are archived, brought
\* back and edited under the lines.
MoneyIsPlaced ==
  \A k \in Active(db) :
    LET rows == Allocate(db, k)
    IN /\ \/ Sum([i \in DOMAIN rows |-> rows[i].amount]) = Amount(k)
          \/ \A i \in DOMAIN rows : "split_mismatch" \in rows[i].issues
       /\ \A i \in DOMAIN rows :
            rows[i].issues \subseteq {"split_mismatch"} => On(db, "loc", rows[i].loc) /\ On(db, "cf", rows[i].cf)

\* Archiving a name, a location, a CF location or a group that nobody edits
\* at the same time takes no line out of its place; only a line that is placed
\* by its location's name follows a CF location that was never referred to.
ByName(v, k) == \E i \in DOMAIN Allocate(v, k) :
  LET row == Allocate(v, k)[i] IN v[<<"loc", row.loc, "cf">>] = None /\ NamedLike(row.loc) = row.cf
ArchiveUnplacesNothing ==
  [][\A c \in Clerks :
       (/\ Answer(c) /\ desk[c].ask.op = "archive" /\ desk[c].ask.table \in {"party", "loc", "cf", "group"}
        /\ desk[c].view = db) =>
       \A k \in Active(db) : HasIssue(db', k) => HasIssue(db, k) \/ ByName(db, k)]_books
=============================================================================
