---------------------------- MODULE MappingStore ----------------------------
(***************************************************************************)
(* The mapping tables of the report tools: backend/app/soft_delete.py and  *)
(* the stores built on it (services/unaccounted/mappings.py,               *)
(* services/rdc_payables/mapping_store.py).  Most tables are edited one    *)
(* row at a time; the list of excluded POs is read as a whole and saved as *)
(* a whole, in two transactions; a report learns creators and saves them;  *)
(* every start of the application seeds rows.                              *)
(***************************************************************************)
EXTENDS Integers, FiniteSets, Functions, TLC

CONSTANTS
  Keys,        \* natural keys of one table
  Values,
  Editors,     \* users
  ReportJobs,  \* jobs that run process_report
  Seeders,     \* application starts
  SeedRows,    \* [key -> value] of the seed file
  SeedList,    \* its excluded POs
  Learnt,      \* [key -> value] a report can infer for creators it meets
  StoreScenarios, \* [rows, editors, reports, seeders, edits, budget]
  NoEdit, NoRows,
  Unset        \* value of a new row before it is set

RowRequests == {"upsert", "delete", "restore"}
ListRequests == {"add", "edit", "remove", "clear"}
MapRow == [is : {"none", "on", "off"}, value : Values \cup {Unset}]
Table == [Keys -> MapRow]

ASSUME StoreConstants ==
  /\ NoRows \notin Table
  /\ DOMAIN SeedRows \subseteq Keys /\ \A k \in DOMAIN SeedRows : SeedRows[k] \in Values
  /\ SeedList \subseteq Keys
  /\ DOMAIN Learnt \subseteq Keys /\ \A k \in DOMAIN Learnt : Learnt[k] \in Values
  /\ \A s \in StoreScenarios :
       /\ s.rows \in Table /\ NoEdit \notin s.edits
       /\ \A q \in s.edits :
            /\ q.op \in RowRequests \cup ListRequests
            /\ q.op # "clear" => q.key \in Keys
            /\ q.op = "upsert" => q.value \in Values
            /\ q.op = "edit" => q.to \in Keys

VARIABLES
  rows,      \* the table edited row by row
  excluded,  \* the list of excluded POs: the keys that are active, with archived ones
  editor,    \* each user's request and what it has read
  reporting, \* each report job: the creators in the map it read, and the one it is saving
  seeding,   \* each start: the tables it read
  store,     \* the scenario
  edits,     \* requests made
  told,      \* the list as the users' requests and the seed alone would have it
  raced      \* two saves of the list have overlapped

mappings == <<rows, excluded, editor, reporting, seeding, store, edits, told, raced>>

NoRequest == [ask |-> NoEdit, view |-> NoRows, list |-> {}]
NewRow == [is |-> "none", value |-> Unset]
ActiveKeys(table) == {k \in Keys : table[k].is = "on"}

StoreInit ==
  /\ store \in StoreScenarios
  /\ rows = store.rows
  /\ excluded = [k \in Keys |-> NewRow]
  /\ editor = [e \in Editors |-> NoRequest]
  /\ reporting = [r \in ReportJobs |-> [state |-> IF r \in store.reports THEN "waiting" ELSE "done",
                                     view |-> {}, left |-> {}, saving |-> {}, read |-> NoRows]]
  /\ seeding = [s \in Seeders |-> [state |-> IF s \in store.seeders THEN "waiting" ELSE "done",
                                   view |-> NoRows, listed |-> NoRows]]
  /\ edits = 0 /\ told = {} /\ raced = FALSE

\* An UPDATE writes the columns that differ from what was read; an INSERT
\* of a key that is there by now breaks the unique key.
Merge(read, row, now) ==
  [is |-> IF row.is # read.is THEN row.is ELSE now.is,
   value |-> IF row.value # read.value THEN row.value ELSE now.value]
Written(read, new, now) == [k \in Keys |-> Merge(read[k], new[k], now[k])]
Fails(read, new, now) == \E k \in Keys : read[k].is = "none" /\ new[k].is # "none" /\ now[k].is # "none"
Saved(read, new, now) == IF Fails(read, new, now) THEN now ELSE Written(read, new, now)

-----------------------------------------------------------------------------
(* soft_delete.py: each gives the table as the request means to leave it. *)

Upserted(table, k, v) == [table EXCEPT ![k] = [is |-> "on", value |-> v]]
Deleted(table, k) == IF table[k].is = "on" THEN [table EXCEPT ![k].is = "off"] ELSE table
Restored(table, k) == IF table[k].is = "off" THEN [table EXCEPT ![k].is = "on"] ELSE table
\* mutant: rows that are no longer listed stay
Synced_OnlyAdds(table, wanted) == [k \in Keys |-> IF k \in wanted THEN [table[k] EXCEPT !.is = "on"] ELSE table[k]]

Synced(table, wanted) ==
  [k \in Keys |-> IF k \in wanted THEN [table[k] EXCEPT !.is = "on"]
                  ELSE IF table[k].is = "on" THEN [table[k] EXCEPT !.is = "off"] ELSE table[k]]
\* mutant: it also brings back what a user archived
Seeded_Revives(table, seeds) ==
  [k \in Keys |-> IF k \in DOMAIN seeds /\ table[k].is # "on" THEN [is |-> "on", value |-> seeds[k]] ELSE table[k]]

Seeded(table, seeds) ==
  [k \in Keys |-> IF k \in DOMAIN seeds /\ table[k].is = "none" THEN [is |-> "on", value |-> seeds[k]] ELSE table[k]]

-----------------------------------------------------------------------------
(* One-row endpoints: upsert, delete and restore, each in one transaction. *)

RowEdited(q, table) ==
  CASE q.op = "upsert" -> Upserted(table, q.key, q.value)
    [] q.op = "delete" -> Deleted(table, q.key)
    [] q.op = "restore" -> Restored(table, q.key)

RowAsk(e) ==
  /\ e \in store.editors /\ editor[e].ask = NoEdit /\ edits < store.budget
  /\ \E q \in {x \in store.edits : x.op \in RowRequests} :
       editor' = [editor EXCEPT ![e] = [ask |-> q, view |-> rows, list |-> {}]]
  /\ edits' = edits + 1
  /\ UNCHANGED <<rows, excluded, reporting, seeding, store, told, raced>>

RowSave(e) ==
  LET q == editor[e].ask
  IN /\ q # NoEdit /\ q.op \in RowRequests
     /\ rows' = Saved(editor[e].view, RowEdited(q, editor[e].view), rows)
     /\ editor' = [editor EXCEPT ![e] = NoRequest]
     /\ UNCHANGED <<excluded, reporting, seeding, store, edits, told, raced>>

-----------------------------------------------------------------------------
(* The excluded POs: _load_po_excluded commits, so the list a request      *)
(* changes and the rows it saves over come from two snapshots.             *)

ListEdited(q, list) ==
  CASE q.op = "add" -> list \cup {q.key}
    [] q.op = "edit" -> IF q.key \in list /\ (q.to = q.key \/ q.to \notin list) THEN (list \ {q.key}) \cup {q.to} ELSE list
    [] q.op = "remove" -> list \ {q.key}
    [] q.op = "clear" -> {}

\* An add of a listed key and an edit that is refused save nothing.
ListUntouched(q, list) ==
  \/ q.op = "add" /\ q.key \in list
  \/ q.op = "edit" /\ (q.key \notin list \/ (q.to # q.key /\ q.to \in list))

ListAsk(e) ==
  /\ e \in store.editors /\ editor[e].ask = NoEdit /\ edits < store.budget
  /\ \E q \in {x \in store.edits : x.op \in ListRequests} :
       editor' = [editor EXCEPT ![e] =
         IF ListUntouched(q, ActiveKeys(excluded)) THEN NoRequest
         ELSE [ask |-> q, view |-> NoRows, list |-> ListEdited(q, ActiveKeys(excluded))]]
  /\ edits' = edits + 1
  /\ UNCHANGED <<rows, excluded, reporting, seeding, store, told, raced>>

\* sync_keyed_rows reads the table in the second transaction.
ListReads(e) ==
  /\ editor[e].ask # NoEdit /\ editor[e].view = NoRows
  /\ editor' = [editor EXCEPT ![e].view = excluded]
  /\ UNCHANGED <<rows, excluded, reporting, seeding, store, edits, told, raced>>

\* Did another request change the list after this one had looked at it?
ListMoved(e) ==
  \/ editor[e].view # excluded
  \/ editor[e].ask.op # "clear" /\ editor[e].list # ListEdited(editor[e].ask, ActiveKeys(excluded))

ListSave(e) ==
  LET wanted == Synced(editor[e].view, editor[e].list)
  IN /\ editor[e].ask # NoEdit /\ editor[e].view # NoRows /\ editor[e].ask.op \notin RowRequests
     /\ excluded' = Saved(editor[e].view, wanted, excluded)
     /\ told' = ListEdited(editor[e].ask, told)
     /\ raced' = (raced \/ ListMoved(e))
     /\ editor' = [editor EXCEPT ![e] = NoRequest]
     /\ UNCHANGED <<rows, reporting, seeding, store, edits>>

-----------------------------------------------------------------------------
(* process_report: it reads the map of the active creators when it starts  *)
(* and saves what it learnt when it is through, one row at a time.         *)

\* mutant: whatever it can place, it saves
Discoveries_All(known) == DOMAIN Learnt

\* Creators it can place and did not find in the map.
Discoveries(known) == {k \in DOMAIN Learnt : k \notin known}

ReportReads(r) ==
  /\ reporting[r].state = "waiting"
  /\ reporting' = [reporting EXCEPT ![r] =
       [state |-> "running", view |-> ActiveKeys(rows), left |-> Discoveries(ActiveKeys(rows)),
        saving |-> {}, read |-> NoRows]]
  /\ UNCHANGED <<rows, excluded, editor, seeding, store, edits, told, raced>>

\* upsert_keyed_row reads the row of one creator,
ReportFinds(r) ==
  /\ reporting[r].state = "running" /\ reporting[r].saving = {}
  /\ \E k \in reporting[r].left :
       reporting' = [reporting EXCEPT ![r] = [@ EXCEPT !.left = reporting[r].left \ {k}, !.saving = {k}, !.read = rows]]
  /\ UNCHANGED <<rows, excluded, editor, seeding, store, edits, told, raced>>

\* and commits it apart; the report fails where the key was inserted meanwhile.
ReportSaves(r) ==
  \E k \in reporting[r].saving :
    LET read == reporting[r].read
        new == Upserted(read, k, Learnt[k]) IN
    /\ reporting[r].state = "running"
    /\ rows' = Saved(read, new, rows)
    /\ reporting' = [reporting EXCEPT ![r] =
         [@ EXCEPT !.saving = {}, !.read = NoRows, !.left = IF Fails(read, new, rows) THEN {} ELSE reporting[r].left]]
    /\ UNCHANGED <<excluded, editor, seeding, store, edits, told, raced>>

-----------------------------------------------------------------------------
(* seed_missing_*: at every start, all tables in one transaction. *)

SeedReads(s) ==
  /\ seeding[s].state = "waiting"
  /\ seeding' = [seeding EXCEPT ![s] = [state |-> "running", view |-> rows, listed |-> excluded]]
  /\ UNCHANGED <<rows, excluded, editor, reporting, store, edits, told, raced>>

SeedPOs == [k \in SeedList |-> Unset]

SeedSaves(s) ==
  LET view == seeding[s].view
      listed == seeding[s].listed
      fails == Fails(view, Seeded(view, SeedRows), rows) \/ Fails(listed, Seeded(listed, SeedPOs), excluded) IN
  /\ seeding[s].state = "running"
  /\ IF fails
     THEN UNCHANGED <<rows, excluded, told>>
     ELSE /\ rows' = Written(view, Seeded(view, SeedRows), rows)
          /\ excluded' = Written(listed, Seeded(listed, SeedPOs), excluded)
          /\ told' = told \cup {k \in SeedList : listed[k].is = "none"}
  /\ seeding' = [seeding EXCEPT ![s] = [state |-> "done", view |-> NoRows, listed |-> NoRows]]
  /\ UNCHANGED <<editor, reporting, store, edits, raced>>

StoreNext ==
  \/ \E e \in Editors : RowAsk(e) \/ RowSave(e) \/ ListAsk(e) \/ ListReads(e) \/ ListSave(e)
  \/ \E r \in ReportJobs : ReportReads(r) \/ ReportFinds(r) \/ ReportSaves(r)
  \/ \E s \in Seeders : SeedReads(s) \/ SeedSaves(s)

-----------------------------------------------------------------------------
(* What holds in between. *)

\* A request for one row has read it; one that clears the list wants it empty.
RequestOK(r) ==
  /\ r.ask # NoEdit /\ r.ask.op \in RowRequests => r.view \in Table
  /\ r.ask # NoEdit /\ r.ask.op = "clear" => r.list = {}
\* A report saves what it did not find.
ReportOK(r) ==
  /\ r.left \cup r.saving \subseteq DOMAIN Learnt \ r.view
  /\ r.saving # {} => r.read \in Table
\* A start has read both tables.
SeedOK(s) == s.state = "running" => s.view \in Table /\ s.listed \in Table

\* The list of excluded POs is what its users and the seed made of it, unless
\* two of them saved it at the same time.
ListIsTold == raced \/ ActiveKeys(excluded) = told

Reporting ==
  [state : {"waiting", "running", "done"}, view : SUBSET Keys, left : SUBSET Keys, saving : SUBSET Keys,
   read : Table \cup {NoRows}]
Seeding == [state : {"waiting", "running", "done"}, view : Table \cup {NoRows}, listed : Table \cup {NoRows}]

StoreInductive ==
  /\ store \in StoreScenarios
  /\ rows \in Table /\ excluded \in Table /\ told \subseteq Keys
  /\ editor \in [Editors -> [ask : {NoEdit} \cup store.edits, view : Table \cup {NoRows}, list : SUBSET Keys]]
  /\ \A e \in Editors : RequestOK(editor[e])
  /\ reporting \in [ReportJobs -> Reporting] /\ \A r \in ReportJobs : ReportOK(reporting[r])
  /\ seeding \in [Seeders -> Seeding] /\ \A s \in Seeders : SeedOK(seeding[s])
  /\ ListIsTold

-----------------------------------------------------------------------------
(* Properties *)

\* A request changes the row it names and no other, however many requests,
\* reports and starts are under way; a start only adds rows that were never
\* there; and a report changes only the row it is saving, and none that was
\* active when it read the map.
EditsKept ==
  /\ \A e \in Editors : RowSave(e) => \A k \in Keys \ {editor[e].ask.key} : rows'[k] = rows[k]
  /\ \A s \in Seeders : SeedSaves(s) =>
       \A k \in Keys : /\ rows[k].is # "none" => rows'[k] = rows[k]
                      /\ excluded[k].is # "none" => excluded'[k] = excluded[k]
  /\ \A r \in ReportJobs : ReportSaves(r) =>
       \A k \in Keys : k \in reporting[r].view \/ k \notin reporting[r].saving => rows'[k] = rows[k]

\* What users made of the mappings stays, as far as it is protected: the list
\* of excluded POs while no two save it at once, the rows a request does not
\* name, every row from a start, and from a report the creators that were
\* active when it read them.  A creator that was archived before a report began
\* comes back, and one that was saved while it ran is overwritten.
MappingsKept == [][ListIsTold' /\ EditsKept]_mappings
=============================================================================
