------------------------------ MODULE DeskProofs ------------------------------
(***************************************************************************)
(* Proofs about the report tools of Desk: what users made of the mappings  *)
(* stays, however their requests, the reports and the starts of the        *)
(* application interleave; a Debtors mail is made from queries that came   *)
(* to their end, in every schedule of its threads; and the cashflow books  *)
(* have each bank line once, whatever statements overlap, are removed and  *)
(* come back, and lose no line's place when a master is archived.          *)
(***************************************************************************)
EXTENDS Desk, FiniteSetTheorems, WellFoundedInduction, TLAPS

-----------------------------------------------------------------------------
(* The mapping stores. *)

\* A row read, changed and written over another is a row; a whole table, too.
LEMMA SavedIsTable ==
  ASSUME NEW read \in Table, NEW new \in Table, NEW now \in Table
  PROVE  Saved(read, new, now) \in Table
<1>1. \A k \in Keys : Merge(read[k], new[k], now[k]) \in MapRow
  BY DEF Merge, MapRow, Table
<1> QED BY <1>1 DEF Saved, Written, Table

\* A save changes no row that its transaction means to leave alone.
LEMMA SavedElsewhere ==
  ASSUME NEW read \in Table, NEW new \in Table, NEW now \in Table, NEW k \in Keys, new[k] = read[k]
  PROVE  Saved(read, new, now)[k] = now[k]
<1>1. Merge(read[k], new[k], now[k]) = now[k]
  BY DEF Merge, MapRow, Table
<1> QED BY <1>1 DEF Saved, Written

\* A save of what was read a moment ago is what it means to write.
LEMMA SavedAlone ==
  ASSUME NEW now \in Table, NEW new \in Table
  PROVE  Saved(now, new, now) = new
<1>1. ~Fails(now, new, now)
  BY DEF Fails
<1>2. \A k \in Keys : Merge(now[k], new[k], now[k]) = new[k]
  BY DEF Merge, MapRow, Table
<1>3. Written(now, new, now) = [k \in Keys |-> new[k]]
  BY <1>2 DEF Written
<1> QED BY <1>1, <1>3 DEF Saved, Table

LEMMA SyncedList ==
  ASSUME NEW table \in Table, NEW wanted \in SUBSET Keys
  PROVE  Synced(table, wanted) \in Table /\ ActiveKeys(Synced(table, wanted)) = wanted
<1>1. Synced(table, wanted) \in Table
  BY DEF Synced, Table, MapRow
<1>2. \A k \in Keys : Synced(table, wanted)[k].is = "on" <=> k \in wanted
  BY DEF Synced, Table, MapRow
<1> QED BY <1>1, <1>2 DEF ActiveKeys

LEMMA SeededIsTable ==
  ASSUME NEW table \in Table, NEW seeds, DOMAIN seeds \subseteq Keys, \A k \in DOMAIN seeds : seeds[k] \in Values \cup {Unset}
  PROVE  /\ Seeded(table, seeds) \in Table
         /\ \A k \in Keys : IF k \in DOMAIN seeds /\ table[k].is = "none" THEN Seeded(table, seeds)[k].is = "on"
                           ELSE Seeded(table, seeds)[k] = table[k]
  BY DEF Seeded, Table, MapRow

\* What a request for one row writes.
LEMMA RowEditedIsTable ==
  ASSUME NEW table \in Table, NEW q, q.op \in RowRequests, q.key \in Keys, q.op = "upsert" => q.value \in Values
  PROVE  /\ RowEdited(q, table) \in Table
         /\ \A k \in Keys \ {q.key} : RowEdited(q, table)[k] = table[k]
<1>1. CASE q.op = "upsert"
  <2>1. RowEdited(q, table) = Upserted(table, q.key, q.value)
    BY <1>1 DEF RowEdited
  <2> QED BY <1>1, <2>1 DEF Upserted, Table, MapRow
<1>2. CASE q.op = "delete"
  <2>1. RowEdited(q, table) = Deleted(table, q.key)
    BY <1>2 DEF RowEdited
  <2> QED BY <2>1 DEF Deleted, Table, MapRow
<1>3. CASE q.op = "restore"
  <2>1. RowEdited(q, table) = Restored(table, q.key)
    BY <1>3 DEF RowEdited
  <2> QED BY <2>1 DEF Restored, Table, MapRow
<1> QED BY <1>1, <1>2, <1>3 DEF RowRequests

LEMMA ListEditedIsList ==
  ASSUME NEW list \in SUBSET Keys, NEW q, q.op \in ListRequests, q.op # "clear" => q.key \in Keys, q.op = "edit" => q.to \in Keys
  PROVE  ListEdited(q, list) \subseteq Keys /\ (q.op = "clear" => ListEdited(q, list) = {})
<1>1. CASE q.op = "add"
  BY <1>1 DEF ListEdited
<1>2. CASE q.op = "edit"
  BY <1>2 DEF ListEdited
<1>3. CASE q.op = "remove"
  BY <1>3 DEF ListEdited
<1>4. CASE q.op = "clear"
  BY <1>4 DEF ListEdited
<1> QED BY <1>1, <1>2, <1>3, <1>4 DEF ListRequests

\* What the store's requests are, of whoever has one.
LEMMA RequestsAreRequests ==
  ASSUME StoreInductive, NEW q \in store.edits
  PROVE  /\ q # NoEdit /\ q.op \in RowRequests \cup ListRequests
         /\ q.op # "clear" => q.key \in Keys
         /\ q.op = "upsert" => q.value \in Values
         /\ q.op = "edit" => q.to \in Keys
  BY StoreConstants DEF StoreInductive

LEMMA StoreStart == ASSUME StoreInit PROVE StoreInductive
<1>1. /\ store \in StoreScenarios /\ rows \in Table /\ excluded \in Table /\ told \subseteq Keys
  BY StoreConstants DEF StoreInit, NewRow, Table, MapRow
<1>2. /\ editor \in [Editors -> [ask : {NoEdit} \cup store.edits, view : Table \cup {NoRows}, list : SUBSET Keys]]
      /\ \A e \in Editors : RequestOK(editor[e])
  BY DEF StoreInit, NoRequest, RequestOK
<1>3. reporting \in [ReportJobs -> Reporting] /\ \A r \in ReportJobs : ReportOK(reporting[r])
  BY DEF StoreInit, Reporting, ReportOK
<1>4. seeding \in [Seeders -> Seeding] /\ \A s \in Seeders : SeedOK(seeding[s])
  BY DEF StoreInit, Seeding, SeedOK
<1>5. ListIsTold
  BY DEF StoreInit, ListIsTold, ActiveKeys, NewRow
<1> QED BY <1>1, <1>2, <1>3, <1>4, <1>5 DEF StoreInductive

\* The list a request of a user leaves; the same request changes no other.
LEMMA RowAskStep == ASSUME StoreInductive, NEW e \in Editors, RowAsk(e) PROVE StoreInductive'
<1> PICK q \in store.edits : q.op \in RowRequests /\ editor' = [editor EXCEPT ![e] = [ask |-> q, view |-> rows, list |-> {}]]
  BY DEF RowAsk
<1>1. /\ editor' \in [Editors -> [ask : {NoEdit} \cup store.edits, view : Table \cup {NoRows}, list : SUBSET Keys]]
      /\ \A d \in Editors : RequestOK(editor'[d])
  BY DEF StoreInductive, RequestOK, RowRequests
<1> QED BY <1>1 DEF StoreInductive, RowAsk, ListIsTold, ActiveKeys, RequestOK, ReportOK, SeedOK

LEMMA RowSaveStep ==
  ASSUME StoreInductive, NEW e \in Editors, RowSave(e)
  PROVE  StoreInductive' /\ \A k \in Keys \ {editor[e].ask.key} : rows'[k] = rows[k]
<1> DEFINE q == editor[e].ask
           view == editor[e].view
<1>1. q \in store.edits /\ q.op \in RowRequests /\ view \in Table
  BY DEF StoreInductive, RowSave, RequestOK
<1>2. q.op # "clear" /\ q.key \in Keys /\ (q.op = "upsert" => q.value \in Values)
  BY <1>1, RequestsAreRequests DEF RowRequests
<1>3. /\ RowEdited(q, view) \in Table
      /\ \A k \in Keys \ {q.key} : RowEdited(q, view)[k] = view[k]
  BY <1>1, <1>2, RowEditedIsTable
<1>4. rows' = Saved(view, RowEdited(q, view), rows) /\ rows \in Table
  BY DEF RowSave, StoreInductive
<1>5. rows' \in Table
  BY <1>1, <1>3, <1>4, SavedIsTable
<1>6. \A k \in Keys \ {q.key} : rows'[k] = rows[k]
  BY <1>1, <1>3, <1>4, SavedElsewhere
<1>7. /\ editor' \in [Editors -> [ask : {NoEdit} \cup store.edits, view : Table \cup {NoRows}, list : SUBSET Keys]]
      /\ \A d \in Editors : RequestOK(editor'[d])
  BY DEF StoreInductive, RowSave, RequestOK, NoRequest
<1> QED BY <1>5, <1>6, <1>7 DEF StoreInductive, RowSave, ListIsTold, ActiveKeys, RequestOK, ReportOK, SeedOK

LEMMA ListAskStep == ASSUME StoreInductive, NEW e \in Editors, ListAsk(e) PROVE StoreInductive'
<1> DEFINE list == ActiveKeys(excluded)
<1> PICK q \in store.edits :
      /\ q.op \in ListRequests
      /\ editor' = [editor EXCEPT ![e] = IF ListUntouched(q, list) THEN NoRequest
                                         ELSE [ask |-> q, view |-> NoRows, list |-> ListEdited(q, list)]]
  BY DEF ListAsk
<1>1. ListEdited(q, list) \subseteq Keys /\ (q.op = "clear" => ListEdited(q, list) = {})
  BY RequestsAreRequests, ListEditedIsList DEF ActiveKeys
<1>2. /\ editor' \in [Editors -> [ask : {NoEdit} \cup store.edits, view : Table \cup {NoRows}, list : SUBSET Keys]]
      /\ \A d \in Editors : RequestOK(editor'[d])
  BY <1>1 DEF StoreInductive, RequestOK, NoRequest, RowRequests, ListRequests
<1> QED BY <1>2 DEF StoreInductive, ListAsk, ListIsTold, ActiveKeys, RequestOK, ReportOK, SeedOK

LEMMA ListReadsStep == ASSUME StoreInductive, NEW e \in Editors, ListReads(e) PROVE StoreInductive'
<1>1. /\ editor' \in [Editors -> [ask : {NoEdit} \cup store.edits, view : Table \cup {NoRows}, list : SUBSET Keys]]
      /\ \A d \in Editors : RequestOK(editor'[d])
  BY DEF StoreInductive, ListReads, RequestOK
<1> QED BY <1>1 DEF StoreInductive, ListReads, ListIsTold, ActiveKeys, RequestOK, ReportOK, SeedOK

\* Without an overlap, the list the request changed is the one it saves over.
LEMMA ListSaveStep == ASSUME StoreInductive, NEW e \in Editors, ListSave(e) PROVE StoreInductive'
<1> DEFINE q == editor[e].ask
           view == editor[e].view
           list == editor[e].list
<1>1. q \in store.edits /\ q.op \in ListRequests /\ view \in Table /\ list \in SUBSET Keys /\ excluded \in Table
  <2>1. q \in store.edits /\ view \in Table /\ list \in SUBSET Keys /\ excluded \in Table
    BY DEF StoreInductive, ListSave
  <2> QED BY <2>1, RequestsAreRequests DEF ListSave
<1>2. Synced(view, list) \in Table /\ ActiveKeys(Synced(view, list)) = list
  BY <1>1, SyncedList
<1>3. excluded' = Saved(view, Synced(view, list), excluded)
  BY DEF ListSave
<1>4. excluded' \in Table
  BY <1>1, <1>2, <1>3, SavedIsTable
<1>5. told' \subseteq Keys /\ (q.op = "clear" => told' = {})
  <2>1. told' = ListEdited(q, told) /\ told \in SUBSET Keys
    BY DEF ListSave, StoreInductive
  <2> QED BY <1>1, <2>1, RequestsAreRequests, ListEditedIsList
<1>6. ListIsTold'
  <2> SUFFICES ASSUME ~raced' PROVE ActiveKeys(excluded') = told'
    BY DEF ListIsTold, ActiveKeys
  <2>1. ~raced /\ view = excluded /\ (q.op # "clear" => list = ListEdited(q, ActiveKeys(excluded)))
    BY DEF ListSave, ListMoved
  <2>2. excluded' = Synced(view, list)
    BY <1>1, <1>2, <1>3, <2>1, SavedAlone
  <2>3. CASE q.op = "clear"
    <3>1. list = {}
      BY <1>1, <2>3, RequestsAreRequests DEF StoreInductive, RequestOK
    <3> QED BY <1>2, <1>5, <2>2, <2>3, <3>1
  <2>4. CASE q.op # "clear"
    <3>1. ActiveKeys(excluded) = told
      BY <2>1 DEF StoreInductive, ListIsTold
    <3> QED BY <1>2, <2>1, <2>2, <2>4, <3>1 DEF ListSave
  <2> QED BY <2>3, <2>4
<1>7. /\ editor' \in [Editors -> [ask : {NoEdit} \cup store.edits, view : Table \cup {NoRows}, list : SUBSET Keys]]
      /\ \A d \in Editors : RequestOK(editor'[d])
  BY DEF StoreInductive, ListSave, RequestOK, NoRequest
<1> QED BY <1>4, <1>5, <1>6, <1>7 DEF StoreInductive, ListSave, RequestOK, ReportOK, SeedOK

LEMMA ReportReadsStep == ASSUME StoreInductive, NEW r \in ReportJobs, ReportReads(r) PROVE StoreInductive'
<1>1. reporting' \in [ReportJobs -> Reporting] /\ \A j \in ReportJobs : ReportOK(reporting'[j])
  BY StoreConstants DEF StoreInductive, ReportReads, Reporting, ReportOK, Discoveries, ActiveKeys
<1> QED BY <1>1 DEF StoreInductive, ReportReads, ListIsTold, ActiveKeys, RequestOK, SeedOK

LEMMA ReportFindsStep == ASSUME StoreInductive, NEW r \in ReportJobs, ReportFinds(r) PROVE StoreInductive'
<1> PICK k \in reporting[r].left :
      reporting' = [reporting EXCEPT ![r] = [reporting[r] EXCEPT !.left = reporting[r].left \ {k}, !.saving = {k}, !.read = rows]]
  BY DEF ReportFinds
<1>1. reporting[r] \in Reporting /\ reporting[r].left \subseteq DOMAIN Learnt \ reporting[r].view /\ k \in Keys /\ rows \in Table
  BY StoreConstants DEF StoreInductive, ReportOK
<1> DEFINE new == [reporting[r] EXCEPT !.left = reporting[r].left \ {k}, !.saving = {k}, !.read = rows]
<1>2. new \in Reporting /\ ReportOK(new)
  BY <1>1 DEF Reporting, ReportOK
<1> HIDE DEF new
<1>3. reporting' \in [ReportJobs -> Reporting] /\ \A j \in ReportJobs : ReportOK(reporting'[j])
  <2>1. reporting' = [reporting EXCEPT ![r] = new]
    BY DEF new
  <2> QED BY <1>2, <2>1 DEF StoreInductive
<1> QED BY <1>3 DEF StoreInductive, ReportFinds, ListIsTold, ActiveKeys, RequestOK, SeedOK

LEMMA ReportSavesStep ==
  ASSUME StoreInductive, NEW r \in ReportJobs, ReportSaves(r)
  PROVE  /\ StoreInductive'
         /\ \A i \in Keys : i \in reporting[r].view \/ i \notin reporting[r].saving => rows'[i] = rows[i]
<1> DEFINE read == reporting[r].read
           new(k) == Upserted(read, k, Learnt[k])
           rest(k) == IF Fails(read, new(k), rows) THEN {} ELSE reporting[r].left
<1> PICK k \in reporting[r].saving :
      /\ rows' = Saved(read, new(k), rows)
      /\ reporting' = [reporting EXCEPT ![r] = [reporting[r] EXCEPT !.saving = {}, !.read = NoRows, !.left = rest(k)]]
  BY DEF ReportSaves
<1>1. /\ k \in Keys /\ Learnt[k] \in Values /\ k \notin reporting[r].view /\ rows \in Table /\ read \in Table
      /\ reporting[r] \in Reporting /\ reporting[r].left \subseteq DOMAIN Learnt \ reporting[r].view
  BY StoreConstants DEF StoreInductive, ReportOK
<1>2. new(k) \in Table /\ \A i \in Keys \ {k} : new(k)[i] = read[i]
  BY <1>1 DEF Upserted, Table, MapRow
<1>3. rows' \in Table /\ \A i \in Keys \ {k} : rows'[i] = rows[i]
  BY <1>1, <1>2, SavedIsTable, SavedElsewhere
<1>4. rest(k) \subseteq reporting[r].left
  OBVIOUS
<1> HIDE DEF rest
<1>5. /\ [reporting[r] EXCEPT !.saving = {}, !.read = NoRows, !.left = rest(k)] \in Reporting
      /\ ReportOK([reporting[r] EXCEPT !.saving = {}, !.read = NoRows, !.left = rest(k)])
  BY <1>1, <1>4 DEF Reporting, ReportOK
<1>6. reporting' \in [ReportJobs -> Reporting] /\ \A j \in ReportJobs : ReportOK(reporting'[j])
  BY <1>5 DEF StoreInductive
<1> QED BY <1>1, <1>3, <1>6 DEF StoreInductive, ReportSaves, ListIsTold, ActiveKeys, RequestOK, SeedOK

LEMMA SeedReadsStep == ASSUME StoreInductive, NEW s \in Seeders, SeedReads(s) PROVE StoreInductive'
<1>1. seeding' \in [Seeders -> Seeding] /\ \A t \in Seeders : SeedOK(seeding'[t])
  BY DEF StoreInductive, SeedReads, Seeding, SeedOK
<1> QED BY <1>1 DEF StoreInductive, SeedReads, ListIsTold, ActiveKeys, RequestOK, ReportOK

\* The rows of a seed, where none of them was added since the table was read.
LEMMA SeedAdds ==
  ASSUME NEW view \in Table, NEW table \in Table, NEW seeds, DOMAIN seeds \subseteq Keys,
         \A k \in DOMAIN seeds : seeds[k] \in Values \cup {Unset}, ~Fails(view, Seeded(view, seeds), table)
  PROVE  /\ Written(view, Seeded(view, seeds), table) \in Table
         /\ \A k \in Keys : table[k].is # "none" => Written(view, Seeded(view, seeds), table)[k] = table[k]
         /\ ActiveKeys(Written(view, Seeded(view, seeds), table))
              = ActiveKeys(table) \cup {k \in DOMAIN seeds : view[k].is = "none"}
<1> DEFINE new == Seeded(view, seeds)
<1>1. /\ new \in Table
      /\ \A k \in Keys : IF k \in DOMAIN seeds /\ view[k].is = "none" THEN new[k].is = "on" ELSE new[k] = view[k]
  BY SeededIsTable
<1>2. Saved(view, new, table) = Written(view, new, table)
  BY DEF Saved
<1>3. \A k \in DOMAIN seeds : k \in Keys /\ (view[k].is = "none" => table[k].is = "none")
  BY <1>1 DEF Fails
<1> HIDE DEF new
<1>4. Written(view, new, table) \in Table
  BY <1>1, <1>2, SavedIsTable
<1>5. \A k \in Keys : new[k] = view[k] => Written(view, new, table)[k] = table[k]
  BY <1>1, <1>2, SavedElsewhere
<1>6. \A k \in Keys : table[k].is # "none" => Written(view, new, table)[k] = table[k]
  BY <1>1, <1>3, <1>5
<1>7. \A k \in DOMAIN seeds : view[k].is = "none" => Written(view, new, table)[k].is = "on"
  BY <1>1, <1>3 DEF Written, Merge
<1>8. ActiveKeys(Written(view, new, table)) = ActiveKeys(table) \cup {k \in DOMAIN seeds : view[k].is = "none"}
  BY <1>1, <1>3, <1>5, <1>7 DEF ActiveKeys
<1> QED BY <1>4, <1>6, <1>8 DEF new

\* A start whose rows were added meanwhile fails as a whole.
LEMMA SeedSavesStep ==
  ASSUME StoreInductive, NEW s \in Seeders, SeedSaves(s)
  PROVE  /\ StoreInductive'
         /\ \A k \in Keys : /\ rows[k].is # "none" => rows'[k] = rows[k]
                           /\ excluded[k].is # "none" => excluded'[k] = excluded[k]
<1> DEFINE view == seeding[s].view
           listed == seeding[s].listed
<1>1. view \in Table /\ rows \in Table /\ listed \in Table /\ excluded \in Table /\ told \subseteq Keys
  BY DEF StoreInductive, SeedSaves, SeedOK
<1>2. /\ rows' \in Table /\ excluded' \in Table /\ told' \subseteq Keys /\ ListIsTold'
      /\ \A k \in Keys : /\ rows[k].is # "none" => rows'[k] = rows[k]
                         /\ excluded[k].is # "none" => excluded'[k] = excluded[k]
  <2>1. CASE UNCHANGED <<rows, excluded, told>>
    BY <1>1, <2>1 DEF SeedSaves, StoreInductive, ListIsTold, ActiveKeys
  <2>2. CASE /\ ~Fails(view, Seeded(view, SeedRows), rows) /\ ~Fails(listed, Seeded(listed, SeedPOs), excluded)
             /\ rows' = Written(view, Seeded(view, SeedRows), rows)
             /\ excluded' = Written(listed, Seeded(listed, SeedPOs), excluded)
             /\ told' = told \cup {k \in SeedList : listed[k].is = "none"}
    <3>1. DOMAIN SeedPOs = SeedList /\ SeedList \subseteq Keys /\ \A k \in SeedList : SeedPOs[k] = Unset
      BY StoreConstants DEF SeedPOs
    <3>2. DOMAIN SeedRows \subseteq Keys /\ \A k \in DOMAIN SeedRows : SeedRows[k] \in Values
      BY StoreConstants
    <3>3. /\ rows' \in Table
          /\ \A k \in Keys : rows[k].is # "none" => rows'[k] = rows[k]
      BY <1>1, <2>2, <3>2, SeedAdds
    <3>4. /\ excluded' \in Table
          /\ \A k \in Keys : excluded[k].is # "none" => excluded'[k] = excluded[k]
          /\ ActiveKeys(excluded') = ActiveKeys(excluded) \cup {k \in SeedList : listed[k].is = "none"}
      BY <1>1, <2>2, <3>1, SeedAdds
    <3>5. raced' = raced
      BY DEF SeedSaves
    <3>6. ListIsTold'
      BY <2>2, <3>4, <3>5 DEF StoreInductive, ListIsTold, ActiveKeys
    <3>7. told' \subseteq Keys
      BY <1>1, <2>2, <3>1
    <3> QED BY <3>3, <3>4, <3>6, <3>7
  <2> QED BY <2>1, <2>2 DEF SeedSaves
<1>3. seeding' \in [Seeders -> Seeding] /\ \A t \in Seeders : SeedOK(seeding'[t])
  BY DEF StoreInductive, SeedSaves, Seeding, SeedOK
<1> QED BY <1>2, <1>3 DEF StoreInductive, SeedSaves, RequestOK, ReportOK

\* A step of the stores, or of another tool, keeps what holds between them.
LEMMA StoreStep == ASSUME StoreInductive, [StoreNext]_mappings PROVE StoreInductive'
<1>1. CASE StoreNext
  BY <1>1, RowAskStep, RowSaveStep, ListAskStep, ListReadsStep, ListSaveStep, ReportReadsStep, ReportFindsStep, ReportSavesStep,
     SeedReadsStep, SeedSavesStep DEF StoreNext
<1>2. CASE UNCHANGED mappings
  BY <1>2 DEF mappings, StoreInductive, ListIsTold, ActiveKeys, RequestOK, ReportOK, SeedOK
<1> QED BY <1>1, <1>2

LEMMA EditsAreKept == ASSUME StoreInductive PROVE EditsKept
  BY RowSaveStep, ReportSavesStep, SeedSavesStep DEF EditsKept

-----------------------------------------------------------------------------
(* The build of the Debtors mail. *)

LEMMA BuildStart == ASSUME BuildInit PROVE BuildInductive
<1>1. BuildTypes
  <2>1. thread \in [Reports -> [at : Points, error : {"none", "failed", "cancelled"}]]
    BY DEF BuildInit, Points, Path
  <2>2. \A t \in Reports : thread[t].at \in Path(t)
    BY DEF BuildInit, Path
  <2>3. query \in [Watched \cup Pooled -> QueryStates]
    BY DEF BuildInit, QueryStates, Under
  <2> QED BY <2>1, <2>2, <2>3 DEF BuildInit, BuildTypes
<1>2. AgeingIsShared
  BY BuildConstants DEF BuildInit, AgeingIsShared, Watched, Pooled, Reports, NoThread
<1>3. CutsAreTold
  BY DEF BuildInit, CutsAreTold, Watched, Pooled
<1>4. FailuresAreRecorded
  BY DEF BuildInit, FailuresAreRecorded
<1>5. QueriesAreAwaited
  BY BuildConstants DEF BuildInit, QueriesAreAwaited, Watched, Pooled, Lookups, Reports, Under
<1>6. AnswersAreThere
  BY DEF BuildInit, AnswersAreThere, Reports
<1>7. OutcomeIsLast
  BY DEF BuildInit, OutcomeIsLast
<1> QED BY <1>1, <1>2, <1>3, <1>4, <1>5, <1>6, <1>7 DEF BuildInductive

\* A query that is under way, or a batch that starts, moves on, and is cut off
\* only by a signal.
LEMMA QueryMoves ==
  ASSUME BuildInductive, NEW q \in Watched \cup Pooled, NEW s \in Under \cup {"ok", "error", "cut", "quit"}, Becomes(q, s),
         query[q] \in Under \/ (q \in Batches /\ thread["gst"].at = "batches"),
         s \in {"cut", "quit"} => q = "open" \/ Signalled(q),
         s = "quit" => q \notin Slices
  PROVE  BuildInductive'
<1>1. BuildTypes'
  BY DEF BuildInductive, BuildTypes, Becomes, QueryStates
<1>2. AgeingIsShared'
  BY BuildConstants DEF BuildInductive, BuildTypes, AgeingIsShared, Becomes, Under, NoThread
<1>3. CutsAreTold'
  BY BuildConstants DEF BuildInductive, BuildTypes, CutsAreTold, Becomes, Signalled, Told, Watched, Pooled, Lookups
<1>4. FailuresAreRecorded'
  BY DEF BuildInductive, FailuresAreRecorded, Becomes
<1>5. QueriesAreAwaited'
  BY BuildConstants DEF BuildInductive, BuildTypes, QueriesAreAwaited, Becomes, Watched, Pooled, Lookups, Under
<1>6. AnswersAreThere'
  BY BuildConstants DEF BuildInductive, BuildTypes, QueriesAreAwaited, AnswersAreThere, Becomes, Under
<1>7. OutcomeIsLast'
  BY DEF BuildInductive, BuildTypes, OutcomeIsLast, Becomes, Under, Reports
<1> QED BY <1>1, <1>2, <1>3, <1>4, <1>5, <1>6, <1>7 DEF BuildInductive

LEMMA QuerySteps ==
  ASSUME BuildInductive, NEW q \in Watched \cup Pooled, Connects(q) \/ Noted \/ Answers(q) \/ Watches(q)
  PROVE  BuildInductive'
<1>1. CASE Connects(q)
  BY <1>1, QueryMoves, BuildConstants DEF Connects, Under, Signalled, Lookups
<1>2. CASE Noted
  BY <1>2, QueryMoves DEF Noted, Under, Pooled
<1>3. CASE Answers(q)
  BY <1>3, QueryMoves, BuildConstants DEF Answers, Under, Signalled, Lookups
<1>4. CASE Watches(q)
  BY <1>4, QueryMoves DEF Watches, Under
<1> QED BY <1>1, <1>2, <1>3, <1>4

LEMMA BatchStep == ASSUME BuildInductive, NEW q \in Batches, BatchStarts(q) PROVE BuildInductive'
  BY QueryMoves, BuildConstants DEF BatchStarts, Under, Signalled, Pooled

LEMMA SliceStep == ASSUME BuildInductive, NEW q \in Slices, SliceFails(q) PROVE BuildInductive'
<1>1. BuildTypes'
  BY DEF BuildInductive, BuildTypes, SliceFails, QueryStates
<1>2. AgeingIsShared'
  BY BuildConstants DEF BuildInductive, BuildTypes, AgeingIsShared, SliceFails
<1>3. CutsAreTold'
  BY BuildConstants DEF BuildInductive, BuildTypes, CutsAreTold, SliceFails, Told, Watched, Pooled
<1>4. FailuresAreRecorded'
  BY DEF BuildInductive, FailuresAreRecorded, SliceFails
<1>5. QueriesAreAwaited'
  BY BuildConstants DEF BuildInductive, BuildTypes, QueriesAreAwaited, SliceFails, Watched, Pooled, Lookups, Under
<1>6. AnswersAreThere'
  BY BuildConstants DEF BuildInductive, BuildTypes, AnswersAreThere, SliceFails
<1>7. OutcomeIsLast'
  BY DEF BuildInductive, BuildTypes, OutcomeIsLast, SliceFails, Watched
<1> QED BY <1>1, <1>2, <1>3, <1>4, <1>5, <1>6, <1>7 DEF BuildInductive

LEMMA CancelStep == ASSUME BuildInductive, UserCancels PROVE BuildInductive'
<1>1. BuildTypes' /\ AgeingIsShared' /\ QueriesAreAwaited' /\ AnswersAreThere'
  BY DEF BuildInductive, BuildTypes, AgeingIsShared, QueriesAreAwaited, AnswersAreThere, UserCancels
<1>2. CutsAreTold'
  BY DEF BuildInductive, CutsAreTold, UserCancels, Told
<1>3. FailuresAreRecorded' /\ OutcomeIsLast'
  BY DEF BuildInductive, FailuresAreRecorded, OutcomeIsLast, UserCancels
<1> QED BY <1>1, <1>2, <1>3 DEF BuildInductive

LEMMA EndStep == ASSUME BuildInductive, Ends PROVE BuildInductive'
<1>1. BuildTypes' /\ AgeingIsShared' /\ QueriesAreAwaited' /\ AnswersAreThere' /\ FailuresAreRecorded'
  BY DEF BuildInductive, BuildTypes, AgeingIsShared, QueriesAreAwaited, AnswersAreThere, FailuresAreRecorded, Ends
<1>2. CutsAreTold'
  BY DEF BuildInductive, CutsAreTold, Ends, Told
<1>3. /\ Outcome \in {"mail", "held"} => errors = <<>> /\ "user" \notin events
      /\ Outcome = "cancelled" => "user" \in events
  <2>1. CASE errors = <<>>
    BY <2>1 DEF Outcome
  <2>2. CASE errors # <<>>
    <3>1. Outcome = Head(errors)
      BY <2>2 DEF Outcome
    <3>2. errors = <<"failed">> \/ (errors = <<"cancelled">> /\ "user" \in events)
      BY <2>2 DEF BuildInductive, BuildTypes, FailuresAreRecorded
    <3> QED BY <3>1, <3>2
  <2> QED BY <2>1, <2>2
<1>4. OutcomeIsLast'
  BY <1>3 DEF BuildInductive, OutcomeIsLast, Ends
<1> QED BY <1>1, <1>2, <1>4 DEF BuildInductive

-----------------------------------------------------------------------------
(* The steps of its threads. *)

\* While a thread is not through there is a build and no outcome.
LEMMA Working ==
  ASSUME BuildInductive, NEW t \in Reports, thread[t].at \notin {"done", "over"}
  PROVE  plan.on /\ outcome = "none"
  BY DEF BuildInductive, OutcomeIsLast

\* What the end of the GST report's pool changes.
LEMMA PoolCloses ==
  ASSUME NEW queries \in [Watched \cup Pooled -> QueryStates], NEW consumed
  PROVE  LET after == ClosedPool(queries, consumed) IN
         /\ after \in [Watched \cup Pooled -> QueryStates]
         /\ \A q \in Watched : after[q] = queries[q]
         /\ \A q \in Batches : after[q] = queries[q] \/ (queries[q] \in Under /\ after[q] = "cut")
         /\ Told => \A q \in Batches : after[q] \notin Under
<1> DEFINE left == [queries EXCEPT !["open"] = IF ~consumed /\ @ = "running" THEN "cut" ELSE @]
           busy == \E q \in Pooled : left[q] \in Under \ {"connecting"}
<1>1. /\ left \in [Watched \cup Pooled -> QueryStates]
      /\ \A q \in (Watched \cup Batches) \ {"open"} : left[q] = queries[q]
  BY DEF QueryStates, Pooled
<1>2. ClosedPool(queries, consumed)
        = [q \in Watched \cup Pooled |-> IF q \in Pooled /\ left[q] \in Under /\ (Told \/ ~busy) THEN "cut" ELSE left[q]]
  BY <1>1 DEF ClosedPool
<1>3. "open" \notin Watched \cup Batches /\ Watched \cap Pooled = {} /\ Batches \subseteq Pooled
  BY BuildConstants DEF Watched, Pooled, Lookups
<1> HIDE DEF left, busy
<1> QED BY <1>1, <1>2, <1>3 DEF QueryStates, Under

\* A report that fails is through with its queries; a signal is taken for a
\* cancellation, nothing else.
LEMMA Raising ==
  ASSUME BuildInductive, NEW t \in Reports, NEW e \in {"failed", "cancelled"}, Raises(t, e), e = "cancelled" => Told,
         thread[t].at \in Path(t) \ {"done", "raised", "recorded", "over"},
         query' \in [Watched \cup Pooled -> QueryStates],
         \A q \in Watched : query'[q] = query[q],
         \A q \in Batches : query'[q] = query[q] \/ (t = "gst" /\ query'[q] \in {"cut", "quit"} /\ Told),
         t = "gst" => \A q \in Batches : query'[q] \notin Under,
         t = "unapplied" => \A q \in Lookups \cup {"register"} : query[q] \notin Under,
         holder' = (IF holder = t THEN NoThread ELSE holder),
         holder = t => \A q \in Slices : query[q] \in {"ok", "seen"},
         UNCHANGED <<events, ageing, errors, outcome, plan>>
  PROVE  BuildInductive'
<1>0. /\ plan.on /\ outcome = "none"
      /\ thread' = [thread EXCEPT ![t] = [at |-> "raised", error |-> e]]
  BY Working DEF Raises
<1>1. BuildTypes'
  <2>1. thread' \in [Reports -> [at : Points, error : {"none", "failed", "cancelled"}]]
    BY <1>0 DEF BuildInductive, BuildTypes, Points, Path, Reports
  <2>2. \A r \in Reports : thread'[r].at \in Path(r)
    BY <1>0 DEF BuildInductive, BuildTypes, Path
  <2> QED BY <2>1, <2>2 DEF BuildInductive, BuildTypes
<1>2. AgeingIsShared'
  BY <1>0, BuildConstants DEF BuildInductive, BuildTypes, AgeingIsShared, Watched, NoThread, Reports
<1>3. CutsAreTold'
  BY <1>0 DEF BuildInductive, BuildTypes, CutsAreTold, Told, Watched
<1>4. FailuresAreRecorded'
  BY <1>0 DEF BuildInductive, BuildTypes, FailuresAreRecorded, Told
<1>5. QueriesAreAwaited'
  BY <1>0, BuildConstants DEF BuildInductive, BuildTypes, QueriesAreAwaited, Watched, Pooled, Lookups, Under, Reports
<1>6. AnswersAreThere'
  BY <1>0 DEF BuildInductive, BuildTypes, AnswersAreThere, Watched, Reports
<1>7. OutcomeIsLast'
  BY <1>0 DEF BuildInductive, BuildTypes, OutcomeIsLast, Reports
<1> QED BY <1>1, <1>2, <1>3, <1>4, <1>5, <1>6, <1>7 DEF BuildInductive

\* A report goes on to a point past which nothing is lacking.
LEMMA Going ==
  ASSUME BuildInductive, NEW t \in Reports, NEW a \in Path(t) \ {"start", "fetching", "raised", "recorded", "over"}, Goes(t, a),
         thread[t].at \in Path(t) \ {"done", "raised", "recorded", "over"},
         query' \in [Watched \cup Pooled -> QueryStates],
         \A q \in Slices \cup {"region"} : query'[q] = query[q],
         \A q \in Batches : query'[q] = query[q] \/ (t = "gst" /\ query'[q] \in {"cut", "quit"} /\ Told),
         t = "gst" => IF a \in {"ageing", "open"} THEN \A q \in Batches : query'[q] = "idle"
                      ELSE a # "batches" => \A q \in Batches : query'[q] \notin Under,
         \A q \in Lookups \cup {"register"} :
           /\ query'[q] \in {"cut", "quit"} => query[q] = query'[q]
           /\ query'[q] \in Under => (IF t = "unapplied" THEN a = q ELSE query[q] = query'[q]),
         t # "unapplied" \/ a # "register" => query'["register"] = query["register"],
         t = "unapplied" /\ a # "register" => query["register"] = "ok",
         t = "unapplied" /\ a \notin {"register", "ageing", "regions"} => query["region"] \in {"ok", "error"},
         a \notin {"register", "ageing"} => ageing'.fetched,
         holder' = (IF holder = t THEN NoThread ELSE holder),
         holder = t => \A q \in Slices : query[q] \in {"ok", "seen"},
         ageing' = ageing \/ (ageing' = [ageing EXCEPT !.fetched = TRUE] /\ \A q \in Slices : query[q] = "ok"),
         UNCHANGED <<events, errors, outcome, plan>>
  PROVE  BuildInductive'
<1>0. /\ plan.on /\ outcome = "none"
      /\ thread' = [thread EXCEPT ![t].at = a]
  BY Working DEF Goes
<1>1. BuildTypes'
  <2>1. thread' \in [Reports -> [at : Points, error : {"none", "failed", "cancelled"}]]
    BY <1>0 DEF BuildInductive, BuildTypes, Points, Path, Reports
  <2>2. \A r \in Reports : thread'[r].at \in Path(r)
    BY <1>0 DEF BuildInductive, BuildTypes, Path
  <2> QED BY <2>1, <2>2 DEF BuildInductive, BuildTypes
<1>2. AgeingIsShared'
  BY <1>0, BuildConstants DEF BuildInductive, BuildTypes, AgeingIsShared, Watched, NoThread, Reports
<1>3. CutsAreTold'
  BY <1>0 DEF BuildInductive, BuildTypes, CutsAreTold, Told, Watched
<1>4. FailuresAreRecorded'
  BY <1>0 DEF BuildInductive, BuildTypes, FailuresAreRecorded, Told
<1>5. QueriesAreAwaited'
  BY <1>0, BuildConstants DEF BuildInductive, BuildTypes, QueriesAreAwaited, Watched, Pooled, Lookups, Under, Reports, Path
<1>6. AnswersAreThere'
  BY <1>0 DEF BuildInductive, BuildTypes, AnswersAreThere, Watched, Reports, Path
<1>7. OutcomeIsLast'
  BY <1>0 DEF BuildInductive, BuildTypes, OutcomeIsLast, Reports
<1> QED BY <1>1, <1>2, <1>3, <1>4, <1>5, <1>6, <1>7 DEF BuildInductive

LEMMA StartStep == ASSUME BuildInductive, NEW t \in Reports, Starts(t) PROVE BuildInductive'
<1>1. /\ thread[t].at = "start" /\ thread[t].at \in Path(t) /\ holder # t
      /\ query \in [Watched \cup Pooled -> QueryStates] /\ Batches \subseteq Pooled
      /\ UNCHANGED <<events, holder, ageing, errors, outcome, plan>>
  BY DEF Starts, BuildInductive, BuildTypes, AgeingIsShared, Path, Pooled
<1>2. CASE t = "gst" /\ Goes(t, "ageing") /\ Issue("open")
  <2>1. query' = [query EXCEPT !["open"] = "connecting"] /\ "open" \notin Watched \cup Batches /\ "open" \in Pooled
    BY <1>2, BuildConstants DEF Issue, Watched, Pooled, Lookups
  <2>2. query' \in [Watched \cup Pooled -> QueryStates] /\ \A q \in Watched \cup Batches : query'[q] = query[q]
    BY <1>1, <2>1 DEF QueryStates, Under
  <2>3. \A q \in Batches : query[q] = "idle"
    BY <1>1, <1>2 DEF BuildInductive, QueriesAreAwaited
  <2> QED BY <1>1, <1>2, <2>2, <2>3, Going DEF Path, Watched, Lookups, Under
<1>3. CASE Raises(t, "failed") /\ t = "gst" /\ UNCHANGED query
  <2>1. \A q \in Batches : query[q] = "idle"
    BY <1>1, <1>3 DEF BuildInductive, QueriesAreAwaited
  <2> QED BY <1>1, <1>3, <2>1, Raising DEF Under
<1>4. CASE t = "unapplied" /\ Goes(t, "register") /\ Issue("register")
  <2>1. query' = [query EXCEPT !["register"] = "connecting"] /\ "register" \notin Slices \cup {"region"} \cup Batches \cup Lookups
    BY <1>4, BuildConstants DEF Issue, Lookups
  <2>2. /\ query' \in [Watched \cup Pooled -> QueryStates] /\ query'["register"] = "connecting"
        /\ \A q \in Slices \cup {"region"} \cup Batches \cup Lookups : query'[q] = query[q]
    BY <1>1, <2>1 DEF QueryStates, Under, Watched
  <2>3. \A q \in Lookups : query[q] \notin Under
    BY <1>1, <1>4 DEF BuildInductive, QueriesAreAwaited, Lookups
  <2> QED BY <1>1, <1>4, <2>2, <2>3, Going DEF Path, Lookups, Under
<1>5. CASE t = "untagged" /\ Goes(t, "ageing") /\ UNCHANGED query
  BY <1>1, <1>5, Going DEF Path
<1> QED BY <1>2, <1>3, <1>4, <1>5 DEF Starts

LEMMA RegisterStep == ASSUME BuildInductive, NEW t \in Reports, Registered(t) PROVE BuildInductive'
<1>1. /\ thread[t].at = "register" /\ thread[t].at \in Path(t) /\ holder # t /\ t = "unapplied"
      /\ query \in [Watched \cup Pooled -> QueryStates]
      /\ UNCHANGED <<query, events, holder, ageing, errors, outcome, plan>>
  BY DEF Registered, BuildInductive, BuildTypes, AgeingIsShared, Path, Reports
<1>2. \A q \in Lookups : query[q] \notin Under
  BY <1>1 DEF BuildInductive, QueriesAreAwaited, Lookups
<1>3. CASE query["register"] = "ok"
  <2>1. Goes(t, "ageing")
    BY <1>3 DEF Registered
  <2> QED BY <1>1, <1>2, <1>3, <2>1, Going DEF Path, Under
<1>4. CASE query["register"] = "error"
  <2>1. Raises(t, "failed")
    BY <1>4 DEF Registered
  <2> QED BY <1>1, <1>2, <1>4, <2>1, Raising DEF Under
<1>5. CASE query["register"] = "cut"
  <2>1. Raises(t, "cancelled")
    BY <1>5 DEF Registered
  <2>2. Told
    BY <1>5, BuildConstants DEF BuildInductive, CutsAreTold, Watched
  <2> QED BY <1>1, <1>2, <1>5, <2>1, <2>2, Raising DEF Under
<1> QED BY <1>3, <1>4, <1>5 DEF Registered

\* With the ageing at hand a report goes on.
LEMMA Aged ==
  ASSUME BuildInductive, NEW t \in Reports, HasAgeing(t), thread[t].at \in {"ageing", "fetching"},
         ageing.fetched \/ (ageing' = [ageing EXCEPT !.fetched = TRUE] /\ \A q \in Slices : query[q] = "ok"),
         ageing.fetched => ageing' = ageing,
         holder' = (IF holder = t THEN NoThread ELSE holder),
         holder = t => \A q \in Slices : query[q] \in {"ok", "seen"},
         UNCHANGED <<query, events, errors, outcome, plan>>
  PROVE  BuildInductive'
<1>1. thread[t].at \in Path(t) /\ query \in [Watched \cup Pooled -> QueryStates] /\ ageing'.fetched
  BY DEF BuildInductive, BuildTypes
<1>2. PICK a \in {"regions", "open", "batches"} : Goes(t, a) /\ (IF t = "gst" THEN a # "regions" ELSE a = "regions")
  BY DEF HasAgeing
<1>3. t = "gst" => \A q \in Batches : query[q] = "idle"
  BY DEF BuildInductive, QueriesAreAwaited
<1>4. t = "unapplied" => query["register"] = "ok" /\ \A q \in Lookups : query[q] \notin Under
  BY Working DEF BuildInductive, QueriesAreAwaited, AnswersAreThere, Lookups
<1>5. a \in Path(t) \ {"start", "fetching", "raised", "recorded", "over"}
  BY <1>2 DEF Path, Reports
<1>6. thread[t].at \in Path(t) \ {"done", "raised", "recorded", "over"}
  BY <1>1
<1> QED BY <1>1, <1>2, <1>3, <1>4, <1>5, <1>6, Going DEF Under

LEMMA LockStep == ASSUME BuildInductive, NEW t \in Reports, GetsLock(t) PROVE BuildInductive'
<1>1. CASE ageing.fetched
  BY <1>1, Aged DEF GetsLock, NoThread, Reports
<1>2. CASE ~ageing.fetched
  <2>0. /\ thread[t].at = "ageing" /\ holder = NoThread /\ holder' = t
        /\ thread' = [thread EXCEPT ![t].at = "fetching"]
        /\ query' = [q \in Watched \cup Pooled |-> IF q \in Slices THEN "connecting" ELSE query[q]]
        /\ events' = events \ {"slice"} /\ ageing' = [ageing EXCEPT !.error = "none"]
        /\ UNCHANGED <<errors, outcome, plan>> /\ plan.on /\ outcome = "none"
    BY <1>2, Working DEF GetsLock, Goes, BuildInductive, BuildTypes
  <2>1. BuildTypes'
    <3>1. thread' \in [Reports -> [at : Points, error : {"none", "failed", "cancelled"}]]
      BY <2>0 DEF BuildInductive, BuildTypes, Points, Path, Reports
    <3>2. \A r \in Reports : thread'[r].at \in Path(r)
      BY <2>0 DEF BuildInductive, BuildTypes, Path
    <3>3. query' \in [Watched \cup Pooled -> QueryStates]
      BY <2>0 DEF BuildInductive, BuildTypes, QueryStates, Under
    <3> QED BY <2>0, <3>1, <3>2, <3>3 DEF BuildInductive, BuildTypes
  <2>2. AgeingIsShared'
    BY <2>0, <1>2 DEF BuildInductive, BuildTypes, AgeingIsShared, NoThread, Reports, Watched
  <2>3. CutsAreTold'
    BY <2>0, BuildConstants DEF BuildInductive, BuildTypes, CutsAreTold, Told, Watched, Pooled, Lookups
  <2>4. FailuresAreRecorded'
    BY <2>0 DEF BuildInductive, BuildTypes, FailuresAreRecorded
  <2>5. QueriesAreAwaited'
    BY <2>0, BuildConstants DEF BuildInductive, BuildTypes, QueriesAreAwaited, Watched, Pooled, Lookups, Under, Reports
  <2>6. AnswersAreThere'
    BY <2>0, BuildConstants DEF BuildInductive, BuildTypes, AnswersAreThere, Watched, Reports
  <2>7. OutcomeIsLast'
    BY <2>0 DEF BuildInductive, BuildTypes, OutcomeIsLast
  <2> QED BY <2>1, <2>2, <2>3, <2>4, <2>5, <2>6, <2>7 DEF BuildInductive
<1> QED BY <1>1, <1>2

LEMMA FetchStep == ASSUME BuildInductive, NEW t \in Reports, Fetches(t) PROVE BuildInductive'
<1>1. /\ thread[t].at = "fetching" /\ thread[t].at \in Path(t) /\ holder = t /\ holder' = NoThread
      /\ \A q \in Slices : query[q] \in {"ok", "seen"}
      /\ query \in [Watched \cup Pooled -> QueryStates] /\ Batches \subseteq Pooled
      /\ ageing.error \in {"none", "failed", "cancelled"}
      /\ UNCHANGED <<events, errors, outcome, plan>>
  BY DEF Fetches, BuildInductive, BuildTypes, AgeingIsShared, Pooled
<1>2. ageing.error = "none" => \A q \in Slices : query[q] = "ok"
  BY <1>1 DEF BuildInductive, AgeingIsShared, NoThread, Reports
<1>3. CASE ageing.error = "none" /\ ageing' = [ageing EXCEPT !.fetched = TRUE] /\ HasAgeing(t) /\ UNCHANGED query
  <2>1. ageing.fetched => ageing' = ageing
    BY <1>3 DEF BuildInductive, BuildTypes
  <2> QED BY <1>1, <1>2, <1>3, <2>1, Aged
<1>4. ASSUME NEW e \in {"failed", "cancelled"}, e = "cancelled" => Told, NoAgeing(t, e), UNCHANGED ageing PROVE BuildInductive'
  <2>1. Raises(t, e) /\ query' = IF t = "gst" THEN ClosedPool(query, FALSE) ELSE query
    BY <1>4 DEF NoAgeing
  <2>2. /\ query' \in [Watched \cup Pooled -> QueryStates] /\ \A q \in Watched : query'[q] = query[q]
        /\ t # "gst" => query' = query
        /\ \A q \in Batches : query'[q] = query[q] \/ (query[q] \in Under /\ query'[q] = "cut")
    <3>1. CASE t = "gst"
      <4>1. query' = ClosedPool(query, FALSE)
        BY <2>1, <3>1
      <4>2. /\ ClosedPool(query, FALSE) \in [Watched \cup Pooled -> QueryStates]
            /\ \A q \in Watched : ClosedPool(query, FALSE)[q] = query[q]
            /\ \A q \in Batches : ClosedPool(query, FALSE)[q] = query[q]
                                  \/ (query[q] \in Under /\ ClosedPool(query, FALSE)[q] = "cut")
        BY <1>1, PoolCloses
      <4> QED BY <3>1, <4>1, <4>2
    <3>2. CASE t # "gst"
      <4>1. query' = query
        BY <2>1, <3>2
      <4> QED BY <1>1, <3>2, <4>1
    <3> QED BY <3>1, <3>2
  <2>3. t = "gst" => \A q \in Batches : query[q] = "idle"
    BY <1>1 DEF BuildInductive, QueriesAreAwaited
  <2>4. t = "unapplied" => \A q \in Lookups \cup {"register"} : query[q] \notin Under
    BY <1>1 DEF BuildInductive, QueriesAreAwaited, Lookups
  <2>5. \A q \in Batches : query'[q] = query[q] /\ (t = "gst" => query'[q] \notin Under)
    BY <2>2, <2>3 DEF Under
  <2> QED BY <1>1, <1>4, <2>1, <2>2, <2>4, <2>5, Raising
<1>5. ageing.error = "cancelled" => Told
  BY DEF BuildInductive, CutsAreTold
<1> QED BY <1>1, <1>3, <1>4, <1>5 DEF Fetches

LEMMA RegionStep == ASSUME BuildInductive, NEW t \in Reports, HasRegions(t) PROVE BuildInductive'
<1>1. /\ thread[t].at = "regions" /\ thread[t].at \in Path(t) /\ holder # t
      /\ query["region"] \in {"ok", "error", "cut"}
      /\ query \in [Watched \cup Pooled -> QueryStates]
      /\ UNCHANGED <<events, holder, ageing, errors, outcome, plan>> /\ plan.on
  BY Working DEF HasRegions, BuildInductive, BuildTypes, AgeingIsShared
<1>2. ageing.fetched /\ (t = "unapplied" => query["register"] = "ok" /\ \A q \in Lookups : query[q] \notin Under)
  BY <1>1 DEF BuildInductive, AnswersAreThere, QueriesAreAwaited, Lookups, Path, Reports
<1>3. CASE query["region"] = "cut" /\ Raises(t, "cancelled") /\ UNCHANGED query
  <2>1. Told
    BY <1>3, BuildConstants DEF BuildInductive, CutsAreTold, Watched
  <2>2. t # "gst"
    BY <1>1 DEF Path
  <2> QED BY <1>1, <1>2, <1>3, <2>1, <2>2, Raising DEF Under
<1>4. CASE query["region"] # "cut" /\ t = "untagged" /\ Goes(t, "write") /\ UNCHANGED query
  BY <1>1, <1>2, <1>4, Going DEF Path
<1>5. ASSUME NEW first \in Lookups, query["region"] # "cut", t = "unapplied", Goes(t, first), Issue(first) PROVE BuildInductive'
  <2>1. query' = [query EXCEPT ![first] = "connecting"] /\ first \notin Slices \cup {"region", "register"} \cup Batches
    BY <1>5, BuildConstants DEF Issue, Lookups
  <2>2. /\ query' \in [Watched \cup Pooled -> QueryStates] /\ query'[first] = "connecting"
        /\ \A q \in Slices \cup {"region", "register"} \cup Batches \cup (Lookups \ {first}) : query'[q] = query[q]
    BY <1>1, <2>1 DEF QueryStates, Under, Watched, Pooled
  <2>3. first \in Path(t) \ {"start", "fetching", "raised", "recorded", "over", "register", "ageing", "regions", "open", "batches"}
    BY <1>5 DEF Path, Lookups
  <2> QED BY <1>1, <1>2, <1>5, <2>2, <2>3, Going DEF Under
<1>6. t = "unapplied" /\ query["region"] # "cut"
        /\ (LET first == IF plan.unidentified THEN "comments" ELSE "locations" IN Goes(t, first) /\ Issue(first))
        => BuildInductive'
  BY <1>5 DEF Lookups
<1> QED BY <1>3, <1>4, <1>6 DEF HasRegions

LEMMA LookupStep == ASSUME BuildInductive, NEW t \in Reports, LooksUp(t) PROVE BuildInductive'
<1> DEFINE at == thread[t].at
<1>1. /\ at \in Lookups /\ at \in Path(t) /\ holder # t /\ t = "unapplied" /\ query[at] \notin Under
      /\ query \in [Watched \cup Pooled -> QueryStates]
      /\ UNCHANGED <<events, holder, ageing, errors, outcome, plan>> /\ plan.on
  BY Working DEF LooksUp, BuildInductive, BuildTypes, AgeingIsShared, Path, Lookups, Reports
<1>2. /\ ageing.fetched /\ query["register"] = "ok" /\ query["region"] \in {"ok", "error"}
      /\ \A q \in Lookups : query[q] \notin Under
  BY <1>1 DEF BuildInductive, AnswersAreThere, QueriesAreAwaited, Lookups
<1>3. CASE query[at] = "quit" /\ Raises(t, "cancelled") /\ UNCHANGED query
  <2>1. Told
    BY <1>1, <1>3, BuildConstants DEF BuildInductive, CutsAreTold, Watched, Lookups
  <2> QED BY <1>1, <1>2, <1>3, <2>1, Raising DEF Under, Lookups
<1>4. CASE Goes(t, "locations") /\ Issue("locations")
  <2>1. query' = [query EXCEPT !["locations"] = "connecting"] /\ "locations" \notin Slices \cup {"region", "register", "comments"} \cup Batches
    BY <1>4, BuildConstants DEF Issue, Lookups
  <2>2. /\ query' \in [Watched \cup Pooled -> QueryStates] /\ query'["locations"] = "connecting"
        /\ \A q \in Slices \cup {"region", "register", "comments"} \cup Batches : query'[q] = query[q]
    BY <1>1, <2>1 DEF QueryStates, Under, Watched, Pooled, Lookups
  <2>3. at \in Path(t) \ {"done", "raised", "recorded", "over"} /\ "locations" \in Path(t)
    BY <1>1 DEF Path, Lookups
  <2> QED BY <1>1, <1>2, <1>4, <2>2, <2>3, Going DEF Under, Lookups
<1>5. CASE Goes(t, "write") /\ UNCHANGED query
  <2>1. at \in Path(t) \ {"done", "raised", "recorded", "over"} /\ "write" \in Path(t)
    BY <1>1 DEF Path, Lookups
  <2> QED BY <1>1, <1>2, <1>5, <2>1, Going DEF Under
<1> QED BY <1>3, <1>4, <1>5 DEF LooksUp

\* The GST report goes on to write what it has, and its pool closes.
LEMMA PoolWrites ==
  ASSUME BuildInductive, NEW consumed, Goes("gst", "write"), query' = ClosedPool(query, consumed),
         thread["gst"].at \in {"open", "batches"}, \A q \in Batches : query[q] \notin Under,
         UNCHANGED <<events, holder, ageing, errors, outcome, plan>>
  PROVE  BuildInductive'
<1> DEFINE t == "gst"
<1>1. /\ thread[t].at \in Path(t) \ {"done", "raised", "recorded", "over"} /\ holder # t /\ t \in Reports
      /\ query \in [Watched \cup Pooled -> QueryStates] /\ ageing.fetched /\ "write" \in Path(t)
  BY Working DEF BuildInductive, BuildTypes, AgeingIsShared, AnswersAreThere, Path, Reports
<1>2. /\ query' \in [Watched \cup Pooled -> QueryStates] /\ \A q \in Watched : query'[q] = query[q]
      /\ \A q \in Batches : query'[q] = query[q] \/ (query[q] \in Under /\ query'[q] = "cut")
  BY <1>1, PoolCloses
<1>3. \A q \in Slices \cup {"region", "register"} \cup Lookups : query'[q] = query[q]
  BY <1>2 DEF Watched
<1>4. \A q \in Batches : query'[q] = query[q] /\ query'[q] \notin Under
  BY <1>2
<1>5. \A q \in Lookups \cup {"register"} : query'[q] \in Under => query[q] = query'[q]
  BY <1>3
<1> HIDE DEF t
<1>6. t = "gst"
  BY DEF t
<1> QED BY <1>1, <1>2, <1>3, <1>4, <1>6, Going

\* The GST report fails, and its pool closes.
LEMMA PoolFails ==
  ASSUME BuildInductive, NEW queries \in [Watched \cup Pooled -> QueryStates], NEW consumed, NEW e \in {"failed", "cancelled"},
         Raises("gst", e), e = "cancelled" => Told, query' = ClosedPool(queries, consumed),
         thread["gst"].at \in {"open", "batches"},
         \A q \in Watched : queries[q] = query[q],
         \A q \in Batches : queries[q] = query[q] \/ (Told /\ queries[q] \in {"cut", "quit"}),
         \A q \in Batches : queries[q] \in Under => Told,
         UNCHANGED <<events, holder, ageing, errors, outcome, plan>>
  PROVE  BuildInductive'
<1>1. thread["gst"].at \in Path("gst") /\ holder # "gst" /\ "gst" \in Reports
  BY DEF BuildInductive, BuildTypes, AgeingIsShared, Reports
<1>2. /\ query' \in [Watched \cup Pooled -> QueryStates] /\ \A q \in Watched : query'[q] = queries[q]
      /\ \A q \in Batches : query'[q] = queries[q] \/ (queries[q] \in Under /\ query'[q] = "cut")
      /\ Told => \A q \in Batches : query'[q] \notin Under
  BY PoolCloses
<1>3. \A q \in Batches : query'[q] = query[q] \/ (query'[q] \in {"cut", "quit"} /\ Told)
  BY <1>2
<1>4. \A q \in Batches : query'[q] \notin Under
  BY <1>2
<1> QED BY <1>1, <1>2, <1>3, <1>4, Raising

LEMMA OpenStep == ASSUME BuildInductive, NEW t \in Reports, OpenItems(t) PROVE BuildInductive'
<1>1. /\ thread[t].at = "open" /\ thread[t].at \in Path(t) /\ holder # t /\ t = "gst"
      /\ query \in [Watched \cup Pooled -> QueryStates]
      /\ UNCHANGED <<events, holder, ageing, errors, outcome, plan>> /\ plan.on
  BY Working DEF OpenItems, BuildInductive, BuildTypes, AgeingIsShared, Path, Reports
<1>2. ageing.fetched /\ \A q \in Batches : query[q] = "idle"
  BY <1>1 DEF BuildInductive, AnswersAreThere, QueriesAreAwaited
<1> DEFINE queries == [query EXCEPT !["open"] = IF @ = "running" THEN "cut" ELSE @]
<1>3. CASE Told /\ Raises(t, "cancelled") /\ query' = ClosedPool(queries, TRUE)
  <2>1. /\ queries \in [Watched \cup Pooled -> QueryStates] /\ "open" \notin Watched \cup Batches
        /\ \A q \in Watched \cup Batches : queries[q] = query[q]
    BY <1>1, BuildConstants DEF QueryStates, Watched, Pooled, Lookups
  <2> HIDE DEF queries
  <2> QED BY <1>1, <1>3, <2>1, PoolFails
<1>4. CASE Goes(t, "batches") /\ UNCHANGED query
  BY <1>1, <1>2, <1>4, Going DEF Path
<1>5. CASE Goes(t, "write") /\ query' = ClosedPool(query, TRUE)
  BY <1>1, <1>2, <1>5, PoolWrites DEF Under
<1> QED BY <1>3, <1>4, <1>5 DEF OpenItems

LEMMA CollectStep == ASSUME BuildInductive, NEW t \in Reports, Collects(t) PROVE BuildInductive'
<1> DEFINE done == \A q \in Batches : query[q] \in {"ok", "error"}
           queries == [q \in DOMAIN query |-> IF q \in Batches /\ query[q] = "idle" THEN "quit" ELSE CutPool(query)[q]]
<1>1. /\ thread[t].at = "batches" /\ thread[t].at \in Path(t) /\ t = "gst"
      /\ query \in [Watched \cup Pooled -> QueryStates]
      /\ UNCHANGED <<events, holder, ageing, errors, outcome, plan>>
  BY DEF Collects, BuildInductive, BuildTypes, Path, Reports
<1>2. CASE (Told \/ \E q \in Batches : query[q] = "quit") /\ Raises(t, "cancelled") /\ query' = ClosedPool(queries, plan.many)
  <2>1. Told
    BY <1>2 DEF BuildInductive, CutsAreTold
  <2>2. Watched \cap Pooled = {} /\ Batches \subseteq Pooled
    BY BuildConstants DEF Watched, Pooled, Lookups
  <2>3. /\ queries \in [Watched \cup Pooled -> QueryStates]
        /\ \A q \in Watched : queries[q] = query[q]
        /\ \A q \in Batches : queries[q] = query[q] \/ queries[q] \in {"cut", "quit"}
    BY <1>1, <2>2 DEF CutPool, QueryStates, Under
  <2> HIDE DEF queries
  <2> QED BY <1>1, <1>2, <2>1, <2>3, PoolFails
<1>3. CASE done /\ Raises(t, "failed") /\ query' = ClosedPool(query, plan.many)
  <2>1. \A q \in Batches : query[q] \notin Under
    BY <1>3 DEF Under
  <2> HIDE DEF done
  <2> QED BY <1>1, <1>3, <2>1, PoolFails
<1>4. CASE done /\ Goes(t, "write") /\ query' = ClosedPool(query, plan.many)
  <2>1. \A q \in Batches : query[q] \notin Under
    BY <1>4 DEF Under
  <2> HIDE DEF done
  <2> QED BY <1>1, <1>4, <2>1, PoolWrites
<1> QED BY <1>2, <1>3, <1>4 DEF Collects

LEMMA WriteStep == ASSUME BuildInductive, NEW t \in Reports, WritesBook(t) PROVE BuildInductive'
<1>1. /\ thread[t].at = "write" /\ thread[t].at \in Path(t) /\ holder # t /\ plan.on
      /\ query \in [Watched \cup Pooled -> QueryStates]
      /\ UNCHANGED <<query, events, holder, ageing, errors, outcome, plan>>
  BY Working DEF WritesBook, BuildInductive, BuildTypes, AgeingIsShared
<1>2. /\ ageing.fetched
      /\ t = "unapplied" => /\ query["register"] = "ok" /\ query["region"] \in {"ok", "error"}
                            /\ \A q \in Lookups : query[q] \notin Under
      /\ t = "gst" => \A q \in Batches : query[q] \notin Under
  BY <1>1 DEF BuildInductive, AnswersAreThere, QueriesAreAwaited, Lookups, Reports
<1>3. CASE Goes(t, "done")
  BY <1>1, <1>2, <1>3, Going DEF Path, Under
<1>4. CASE Raises(t, "failed")
  BY <1>1, <1>2, <1>4, Raising DEF Under
<1> QED BY <1>3, <1>4 DEF WritesBook

\* The error of the first report that fails is there before the signal is.
LEMMA GuardStep == ASSUME BuildInductive, NEW t \in Reports, Guarded(t) PROVE BuildInductive'
<1>0. /\ plan.on /\ outcome = "none" /\ UNCHANGED <<query, holder, ageing, outcome, plan>>
      /\ thread[t] \in [at : Points, error : {"none", "failed", "cancelled"}]
      /\ thread \in [Reports -> [at : Points, error : {"none", "failed", "cancelled"}]]
  BY Working DEF Guarded, BuildInductive, BuildTypes
<1>1. PICK a \in {"recorded", "over"} :
        /\ thread' = [thread EXCEPT ![t].at = a]
        /\ thread[t].at = IF a = "recorded" THEN "raised" ELSE "recorded"
        /\ events' = IF a = "recorded" THEN events ELSE events \cup {"stop"}
        /\ errors' = IF a = "recorded" /\ errors = <<>> THEN <<thread[t].error>> ELSE errors
  BY DEF Guarded, Goes
<1>2. /\ thread[t].at = "raised" => thread[t].error \in {"failed", "cancelled"}
      /\ thread[t].at = "raised" /\ thread[t].error = "cancelled" => "user" \in events \/ errors # <<>>
      /\ thread[t].at = "recorded" => errors # <<>>
  BY <1>0 DEF BuildInductive, FailuresAreRecorded
<1>3. errors' # <<>> /\ errors' \in {<<"failed">>, <<"cancelled">>} /\ (errors # <<>> => errors' = errors)
  BY <1>1, <1>2 DEF BuildInductive, BuildTypes
<1>4. BuildTypes'
  <2>1. thread' \in [Reports -> [at : Points, error : {"none", "failed", "cancelled"}]]
    BY <1>0, <1>1 DEF Points, Path
  <2>2. \A r \in Reports : thread'[r].at \in Path(r)
    BY <1>0, <1>1 DEF BuildInductive, BuildTypes, Path
  <2>3. events' \subseteq {"user", "stop", "slice"}
    BY <1>1 DEF BuildInductive, BuildTypes
  <2> QED BY <1>0, <1>3, <2>1, <2>2, <2>3 DEF BuildInductive, BuildTypes
<1>5. AgeingIsShared'
  BY <1>0, <1>1 DEF BuildInductive, AgeingIsShared
<1>6. CutsAreTold'
  BY <1>0, <1>1 DEF BuildInductive, CutsAreTold, Told
<1>7. FailuresAreRecorded'
  <2>1. ASSUME NEW r \in Reports
        PROVE  /\ thread'[r].at = "raised" => thread'[r].error # "none"
               /\ thread'[r].at = "raised" /\ thread'[r].error = "cancelled" => "user" \in events' \/ errors' # <<>>
               /\ thread'[r].at \in {"recorded", "over"} => errors' # <<>>
               /\ thread'[r].at = "over" => "stop" \in events'
    BY <1>0, <1>1, <1>3 DEF BuildInductive, FailuresAreRecorded
  <2>2. errors' = <<"cancelled">> => "user" \in events'
    <3>1. CASE errors = <<>>
      BY <1>1, <1>2, <1>3, <3>1
    <3>2. CASE errors # <<>>
      BY <1>1, <1>3, <3>2 DEF BuildInductive, FailuresAreRecorded
    <3> QED BY <3>1, <3>2
  <2> QED BY <1>3, <2>1, <2>2 DEF FailuresAreRecorded
<1>8. QueriesAreAwaited'
  BY <1>0, <1>1 DEF BuildInductive, QueriesAreAwaited, Lookups, Reports
<1>9. AnswersAreThere' /\ OutcomeIsLast'
  BY <1>0, <1>1 DEF BuildInductive, AnswersAreThere, OutcomeIsLast, Reports
<1> QED BY <1>4, <1>5, <1>6, <1>7, <1>8, <1>9 DEF BuildInductive

LEMMA ThreadStep == ASSUME BuildInductive, NEW t \in Reports, Steps(t) PROVE BuildInductive'
  BY StartStep, RegisterStep, LockStep, FetchStep, RegionStep, LookupStep, OpenStep, CollectStep, WriteStep, GuardStep DEF Steps

\* A step of the build, or of another tool, keeps what holds between them.
LEMMA BuildStep == ASSUME BuildInductive, [BuildNext]_build PROVE BuildInductive'
<1>1. CASE BuildNext
  <2>1. CASE Noted
    <3>1. "open" \in Watched \cup Pooled
      BY DEF Pooled
    <3> QED BY <2>1, <3>1, QuerySteps
  <2> QED BY <1>1, <2>1, CancelStep, EndStep, ThreadStep, QuerySteps, BatchStep, SliceStep DEF BuildNext
<1>2. CASE UNCHANGED build
  <2>1. UNCHANGED <<thread, query, events, holder, ageing, errors, outcome, plan>>
    BY <1>2 DEF build
  <2>2. BuildTypes' /\ AgeingIsShared' /\ FailuresAreRecorded'
    BY <2>1 DEF BuildInductive, BuildTypes, AgeingIsShared, FailuresAreRecorded
  <2>3. CutsAreTold'
    BY <2>1 DEF BuildInductive, CutsAreTold, Told
  <2>4. QueriesAreAwaited' /\ AnswersAreThere' /\ OutcomeIsLast'
    BY <2>1 DEF BuildInductive, QueriesAreAwaited, AnswersAreThere, OutcomeIsLast
  <2> QED BY <2>2, <2>3, <2>4 DEF BuildInductive
<1> QED BY <1>1, <1>2

\* What is true of a build that is over.
LEMMA OverIsHonest == ASSUME BuildInductive PROVE BuildIsHonest
<1>1. ASSUME outcome \in {"mail", "held"}
      PROVE  /\ \A q \in Slices \cup {"register"} : query[q] = "ok"
             /\ \A q \in Watched \cup Batches : query[q] \notin Under \cup {"cut", "quit"}
  <2>1. plan.on /\ errors = <<>> /\ ~Told /\ "stop" \notin events
    <3>1. plan.on /\ errors = <<>> /\ "user" \notin events
      BY <1>1 DEF BuildInductive, OutcomeIsLast
    <3>2. "stop" \notin events
      BY <3>1 DEF BuildInductive, FailuresAreRecorded
    <3> QED BY <3>1, <3>2 DEF Told
  <2>2. \A t \in Reports : thread[t].at = "done"
    BY <1>1, <2>1 DEF BuildInductive, OutcomeIsLast, FailuresAreRecorded
  <2>3. /\ \A q \in Slices \cup {"register"} : query[q] = "ok"
        /\ query["region"] \in {"ok", "error"}
    BY <2>1, <2>2 DEF BuildInductive, AnswersAreThere, AgeingIsShared, Reports
  <2>4. \A q \in Lookups \cup Batches : query[q] \notin Under
    BY <2>2 DEF BuildInductive, QueriesAreAwaited, Lookups, Reports
  <2>5. \A q \in Lookups \cup Batches : query[q] \notin {"cut", "quit"}
    BY <2>1, BuildConstants DEF BuildInductive, CutsAreTold, Watched, Lookups
  <2> QED BY <2>3, <2>4, <2>5 DEF Watched, Under
<1>2. outcome = "cancelled" => "user" \in events
  BY DEF BuildInductive, OutcomeIsLast
<1>3. ASSUME outcome # "none", NEW q \in DOMAIN query, query[q] \in Under PROVE q = "open" \/ (q = "region" /\ Told)
  <2>1. plan.on /\ q \in Watched \cup Pooled
    BY <1>3 DEF BuildInductive, BuildTypes, OutcomeIsLast, Under
  <2>2. \A t \in Reports : thread[t].at \in {"done", "over"}
    BY <1>3 DEF BuildInductive, OutcomeIsLast
  <2>3. q \notin Slices
    <3>1. holder = NoThread
      BY <2>2 DEF BuildInductive, BuildTypes, AgeingIsShared
    <3> QED BY <1>3, <3>1 DEF BuildInductive, AgeingIsShared, Under
  <2>4. q \notin Lookups \cup Batches \cup {"register"}
    BY <1>3, <2>2 DEF BuildInductive, QueriesAreAwaited, Lookups, Reports
  <2>5. q = "region" => Told
    BY <1>3, <2>1, <2>2 DEF BuildInductive, AnswersAreThere, FailuresAreRecorded, Told, Reports, Under
  <2> QED BY <2>1, <2>3, <2>4, <2>5 DEF Watched, Pooled
<1> QED BY <1>1, <1>2, <1>3 DEF BuildIsHonest

-----------------------------------------------------------------------------
(* The cashflow books. *)

\* The cells the books of lines are made of; a request for the masters or for
\* what a person typed writes none of them.
LineCells == {<<"txn", k, f>> : k \in Lines, f \in {"is", "upload"}} \cup {<<"upload", u, "is">> : u \in Uploads}
Elsewhere(writes) == DOMAIN writes \cap LineCells = {}

LEMMA OverCells ==
  ASSUME NEW f, NEW g
  PROVE  /\ DOMAIN Over(f, g) = DOMAIN f \cup DOMAIN g
         /\ \A c \in DOMAIN f : Over(f, g)[c] = f[c]
         /\ \A c \in DOMAIN g \ DOMAIN f : Over(f, g)[c] = g[c]
  BY DEF Over

LEMMA ElsewhereOver == ASSUME NEW f, NEW g, Elsewhere(f), Elsewhere(g) PROVE Elsewhere(Over(f, g))
  BY OverCells DEF Elsewhere

LEMMA ElsewhereRefused == Elsewhere(Refused)
  BY DEF Elsewhere, Refused

LEMMA ElsewherePut ==
  ASSUME NEW t, NEW r, NEW columns, t \notin {"txn", "upload"}
  PROVE  Elsewhere(Put(t, r, columns))
  BY DEF Elsewhere, Put, LineCells

LEMMA ElsewhereCreated == ASSUME NEW t, NEW r, t \notin {"txn", "upload"} PROVE Elsewhere(Created(t, r))
  BY ElsewherePut, ElsewhereRefused DEF Created, Refused

\* What a transaction that read view leaves in a cell.
LEMMA Committed ==
  ASSUME NEW view, NEW writes, Commit(view, writes)
  PROVE  /\ DOMAIN db \subseteq DOMAIN db'
         /\ \A c \in DOMAIN db :
              db'[c] = IF c \in DOMAIN writes /\ (c[1] = "book" \/ view[c] # writes[c]) THEN writes[c] ELSE db[c]
<1>1. /\ DOMAIN Changed(view, writes) = {x \in DOMAIN writes : x[1] = "book" \/ view[x] # writes[x]}
      /\ \A c \in DOMAIN Changed(view, writes) : Changed(view, writes)[c] = writes[c]
  BY DEF Changed
<1>2. db' = Over(Changed(view, writes), db)
  BY DEF Commit
<1> DEFINE ch == Changed(view, writes)
           new == Over(ch, db)
<1>3. /\ DOMAIN new = DOMAIN ch \cup DOMAIN db
      /\ \A c \in DOMAIN ch : new[c] = ch[c]
      /\ \A c \in DOMAIN db \ DOMAIN ch : new[c] = db[c]
  <2> HIDE DEF ch
  <2> QED BY OverCells
<1>4. db' = new
  BY <1>2
<1> HIDE DEF new
<1> QED BY <1>1, <1>3, <1>4

\* A new snapshot, and one that was taken before.
LEMMA SnapshotNow == ASSUME BooksKept(db) PROVE Snapshot(db)
  BY DEF Snapshot

\* What the cells of lines and uploads say after a step that leaves them.
LEMMA BooksUntouched ==
  ASSUME BooksKept(db), \A c \in LineCells : db'[c] = db[c], DOMAIN db \subseteq DOMAIN db'
  PROVE  /\ BooksKept(db)' /\ \A v : Snapshot(v) => Snapshot(v)'
         /\ \A u \in Uploads : Is(db', "upload", u) = Is(db, "upload", u)
<1>1. /\ \A k \in Lines : Is(db', "txn", k) = Is(db, "txn", k) /\ db'[<<"txn", k, "upload">>] = db[<<"txn", k, "upload">>]
      /\ \A u \in Uploads : Is(db', "upload", u) = Is(db, "upload", u)
  BY DEF LineCells, Is
<1>2. Stored(db') = Stored(db) /\ Removed(db') = Removed(db)
  BY <1>1 DEF Stored, Removed
<1>3. /\ \A k \in Lines : {<<"txn", k, "is">>, <<"txn", k, "upload">>} \subseteq DOMAIN db' /\ Is(db', "txn", k) \in {"none", "on", "off"}
      /\ \A u \in Uploads : <<"upload", u, "is">> \in DOMAIN db'
  BY <1>1 DEF BooksKept
<1>4. BooksKept(db')
  BY <1>1, <1>2, <1>3 DEF BooksKept
<1> QED BY <1>1, <1>4 DEF Snapshot

LEMMA LineCellsThere ==
  ASSUME BooksKept(db), NEW c \in LineCells
  PROVE  c \in DOMAIN db
<1>1. CASE \E k \in Lines, f \in {"is", "upload"} : c = <<"txn", k, f>>
  BY <1>1 DEF BooksKept
<1>2. CASE \E u \in Uploads : c = <<"upload", u, "is">>
  BY <1>2 DEF BooksKept
<1> QED BY <1>1, <1>2 DEF LineCells

LEMMA CommitElsewhere ==
  ASSUME BooksKept(db), NEW view, NEW writes, Elsewhere(writes), Commit(view, writes)
  PROVE  /\ BooksKept(db)' /\ \A v : Snapshot(v) => Snapshot(v)'
         /\ \A u \in Uploads : Is(db', "upload", u) = Is(db, "upload", u)
<1>1. \A c \in LineCells : db'[c] = db[c]
  BY LineCellsThere, Committed DEF Elsewhere
<1> QED BY <1>1, Committed, BooksUntouched

\* A job stores a statement: known lines stay, archived ones come back under the
\* new upload, the others are added, whatever others committed meanwhile.
LEMMA StoringWrites ==
  ASSUME BooksKept(db), NEW view, Snapshot(view), NEW u \in Uploads, Is(db, "upload", u) = "none",
         Commit(view, Ingested(view, u))
  PROVE  LET keys == {k \in DedupeKeys(StatementOf(u)) : Is(view, "txn", k) # "on"} IN
         /\ \A k \in keys : k \in Lines /\ Times(u, k[1]) >= k[2]
         /\ \A k \in Lines \ keys : Times(u, k[1]) >= k[2] => Is(view, "txn", k) = "on"
         /\ \A k \in keys : Is(db', "txn", k) = "on" /\ db'[<<"txn", k, "upload">>] = u
         /\ \A k \in Lines \ keys : /\ Is(db', "txn", k) = Is(db, "txn", k)
                                    /\ db'[<<"txn", k, "upload">>] = db[<<"txn", k, "upload">>]
         /\ Is(db', "upload", u) = "on"
         /\ \A w \in Uploads \ {u} : Is(db', "upload", w) = Is(db, "upload", w)
         /\ DOMAIN db \subseteq DOMAIN db'
<1> DEFINE keys == {k \in DedupeKeys(StatementOf(u)) : Is(view, "txn", k) # "on"}
           lines == [c \in UNION {{<<"txn", k, "is">>, <<"txn", k, "upload">>} : k \in keys} |-> IF c[3] = "is" THEN "on" ELSE u]
           top == Put("upload", u, [is |-> "on"])
           writes == Ingested(view, u)
<1>1. DOMAIN top = {<<"upload", u, "is">>} /\ top[<<"upload", u, "is">>] = "on"
  BY DEF Put
<1>2. /\ DOMAIN lines = UNION {{<<"txn", k, "is">>, <<"txn", k, "upload">>} : k \in keys}
      /\ \A k \in keys : lines[<<"txn", k, "is">>] = "on" /\ lines[<<"txn", k, "upload">>] = u
  OBVIOUS
<1>3. writes = Over(lines, top)
  BY DEF Ingested
<1>4. /\ DOMAIN writes = DOMAIN lines \cup DOMAIN top
      /\ \A c \in DOMAIN lines : writes[c] = lines[c]
      /\ \A c \in DOMAIN top \ DOMAIN lines : writes[c] = top[c]
  <2> DEFINE both == Over(lines, top)
  <2>1. /\ DOMAIN both = DOMAIN lines \cup DOMAIN top
        /\ \A c \in DOMAIN lines : both[c] = lines[c]
        /\ \A c \in DOMAIN top \ DOMAIN lines : both[c] = top[c]
    <3> HIDE DEF lines, top
    <3> QED BY OverCells
  <2>2. writes = both
    BY <1>3
  <2> HIDE DEF both, writes
  <2> QED BY <2>1, <2>2
<1>5. StatementOf(u) \in DOMAIN Statements
  BY BooksConstants DEF StatementOf, Uploads
<1>6. \A k \in DedupeKeys(StatementOf(u)) : k \in Lines /\ Times(u, k[1]) >= k[2]
  BY <1>5, BooksConstants DEF DedupeKeys, Times
<1>7. \A k \in Lines : Times(u, k[1]) >= k[2] => k \in DedupeKeys(StatementOf(u))
  BY <1>5, BooksConstants DEF DedupeKeys, Times
<1>8. Is(view, "upload", u) = "none"
  BY DEF Snapshot
<1>9. \A k \in keys : k \in Lines /\ view[<<"txn", k, "is">>] # "on" /\ view[<<"txn", k, "upload">>] # u
  <2> SUFFICES ASSUME NEW k \in keys PROVE view[<<"txn", k, "upload">>] # u
    BY <1>6 DEF Is
  <2>1. k \in Lines /\ None # u
    BY <1>6, BooksConstants
  <2>2. IF Is(view, "txn", k) = "none" THEN view[<<"txn", k, "upload">>] = None
        ELSE view[<<"txn", k, "upload">>] \in Stored(view)
    BY <2>1 DEF Snapshot, BooksKept
  <2>3. u \notin Stored(view)
    BY <1>8 DEF Stored
  <2> QED BY <2>1, <2>2, <2>3
<1> HIDE DEF lines, top, writes, keys
<1>10. /\ DOMAIN db \subseteq DOMAIN db'
       /\ \A c \in DOMAIN db :
              db'[c] = IF c \in DOMAIN writes /\ (c[1] = "book" \/ view[c] # writes[c]) THEN writes[c] ELSE db[c]
  BY Committed DEF writes
<1>11. \A k \in keys : Is(db', "txn", k) = "on" /\ db'[<<"txn", k, "upload">>] = u
  <2> SUFFICES ASSUME NEW k \in keys PROVE Is(db', "txn", k) = "on" /\ db'[<<"txn", k, "upload">>] = u
    OBVIOUS
  <2>1. <<"txn", k, "is">> \in DOMAIN db /\ <<"txn", k, "upload">> \in DOMAIN db
    BY <1>9 DEF BooksKept
  <2>2. <<"txn", k, "is">> \in DOMAIN writes /\ <<"txn", k, "upload">> \in DOMAIN writes
    BY <1>2, <1>4
  <2>3. writes[<<"txn", k, "is">>] = "on" /\ writes[<<"txn", k, "upload">>] = u
    BY <1>2, <1>4
  <2> QED BY <1>9, <1>10, <2>1, <2>2, <2>3 DEF Is
<1>12. \A k \in Lines \ keys : <<"txn", k, "is">> \notin DOMAIN writes /\ <<"txn", k, "upload">> \notin DOMAIN writes
  BY <1>1, <1>2, <1>4
<1>13. \A k \in Lines \ keys : /\ Is(db', "txn", k) = Is(db, "txn", k)
                               /\ db'[<<"txn", k, "upload">>] = db[<<"txn", k, "upload">>]
  BY <1>10, <1>12 DEF BooksKept, Is
<1>14. Is(db', "upload", u) = "on"
  <2>1. <<"upload", u, "is">> \in DOMAIN db /\ <<"upload", u, "is">> \in DOMAIN writes
    BY <1>1, <1>4 DEF BooksKept
  <2>2. writes[<<"upload", u, "is">>] = "on"
    BY <1>1, <1>2, <1>4
  <2> QED BY <1>8, <1>10, <2>1, <2>2 DEF Is
<1>15. \A w \in Uploads \ {u} : Is(db', "upload", w) = Is(db, "upload", w)
  <2>1. \A w \in Uploads \ {u} : <<"upload", w, "is">> \notin DOMAIN writes
    BY <1>1, <1>2, <1>4
  <2> QED BY <1>10, <2>1 DEF BooksKept, Is
<1> QED BY <1>6, <1>7, <1>9, <1>10, <1>11, <1>13, <1>14, <1>15 DEF keys

LEMMA StoringKeeps ==
  ASSUME BooksKept(db), NEW view, Snapshot(view), NEW u \in Uploads, Is(db, "upload", u) = "none",
         Commit(view, Ingested(view, u))
  PROVE  /\ BooksKept(db)' /\ \A v : Snapshot(v) => Snapshot(v)'
         /\ \A w \in Uploads \ {u} : Is(db', "upload", w) = Is(db, "upload", w)
<1> DEFINE keys == {k \in DedupeKeys(StatementOf(u)) : Is(view, "txn", k) # "on"}
<1>1. /\ \A k \in keys : k \in Lines /\ Times(u, k[1]) >= k[2]
      /\ \A k \in Lines \ keys : Times(u, k[1]) >= k[2] => Is(view, "txn", k) = "on"
      /\ \A k \in keys : Is(db', "txn", k) = "on" /\ db'[<<"txn", k, "upload">>] = u
      /\ \A k \in Lines \ keys : /\ Is(db', "txn", k) = Is(db, "txn", k)
                                 /\ db'[<<"txn", k, "upload">>] = db[<<"txn", k, "upload">>]
      /\ Is(db', "upload", u) = "on"
      /\ \A w \in Uploads \ {u} : Is(db', "upload", w) = Is(db, "upload", w)
      /\ DOMAIN db \subseteq DOMAIN db'
  BY StoringWrites
<1> HIDE DEF keys
<1>2. Stored(db') = Stored(db) \cup {u} /\ Removed(db') = Removed(db) /\ u \notin Removed(db)
  BY <1>1 DEF Stored, Removed
<1>3. /\ \A k \in Lines : {<<"txn", k, "is">>, <<"txn", k, "upload">>} \subseteq DOMAIN db' /\ Is(db', "txn", k) \in {"none", "on", "off"}
      /\ \A w \in Uploads : <<"upload", w, "is">> \in DOMAIN db'
  BY <1>1 DEF BooksKept
<1>4. ASSUME NEW k \in Lines
      PROVE  /\ Is(db', "txn", k) # "none" <=> \E w \in Stored(db') : Times(w, k[1]) >= k[2]
             /\ Is(db', "txn", k) = "off" => \E w \in Removed(db') : Times(w, k[1]) >= k[2]
             /\ IF Is(db', "txn", k) = "none" THEN db'[<<"txn", k, "upload">>] = None
                ELSE db'[<<"txn", k, "upload">>] \in Stored(db') /\ Times(db'[<<"txn", k, "upload">>], k[1]) >= k[2]
  <2>1. CASE k \in keys
    BY <1>1, <1>2, <2>1
  <2>2. CASE k \notin keys
    <3>1. /\ Is(db, "txn", k) # "none" <=> \E w \in Stored(db) : Times(w, k[1]) >= k[2]
          /\ Is(db, "txn", k) = "off" => \E w \in Removed(db) : Times(w, k[1]) >= k[2]
          /\ IF Is(db, "txn", k) = "none" THEN db[<<"txn", k, "upload">>] = None
             ELSE db[<<"txn", k, "upload">>] \in Stored(db) /\ Times(db[<<"txn", k, "upload">>], k[1]) >= k[2]
      BY DEF BooksKept
    <3>2. Times(u, k[1]) >= k[2] => Is(db, "txn", k) # "none"
      BY <1>1, <2>2 DEF Snapshot
    <3>3. Is(db', "txn", k) = Is(db, "txn", k) /\ db'[<<"txn", k, "upload">>] = db[<<"txn", k, "upload">>]
      BY <1>1, <2>2
    <3> QED BY <1>2, <3>1, <3>2, <3>3
  <2> QED BY <2>1, <2>2
<1>5. BooksKept(db')
  BY <1>3, <1>4 DEF BooksKept
<1>6. /\ \A k \in Lines : Is(db', "txn", k) = "none" => Is(db, "txn", k) = "none"
      /\ \A w \in Uploads : Is(db', "upload", w) = "none" => Is(db, "upload", w) = "none"
  BY <1>1
<1> QED BY <1>1, <1>5, <1>6 DEF Snapshot

\* A removed statement takes the lines with it that its reader saw as its own; a
\* statement that holds them is then a removed one.
LEMMA RemovingKeeps ==
  ASSUME BooksKept(db), NEW view, Snapshot(view), NEW u \in Uploads, Commit(view, RemoveStatement(view, u))
  PROVE  /\ BooksKept(db)' /\ \A v : Snapshot(v) => Snapshot(v)'
         /\ \A w \in Uploads : Is(db, "upload", w) = "none" => Is(db', "upload", w) = "none"
<1>1. CASE ~On(view, "upload", u)
  BY <1>1, ElsewhereRefused, CommitElsewhere DEF RemoveStatement
<1>2. CASE On(view, "upload", u)
  <2> DEFINE own == {k \in Active(view) : view[<<"txn", k, "upload">>] = u}
             lines == [c \in {<<"txn", k, "is">> : k \in own} |-> "off"]
             top == Put("upload", u, [is |-> "off"])
             writes == Over(lines, top)
  <2>1. Commit(view, writes)
    BY <1>2 DEF RemoveStatement
  <2>2. DOMAIN top = {<<"upload", u, "is">>} /\ top[<<"upload", u, "is">>] = "off"
    BY DEF Put
  <2>3. /\ DOMAIN lines = {<<"txn", k, "is">> : k \in own}
        /\ \A k \in own : lines[<<"txn", k, "is">>] = "off"
    OBVIOUS
  <2>4. /\ DOMAIN writes = DOMAIN lines \cup DOMAIN top
        /\ \A c \in DOMAIN lines : writes[c] = lines[c]
        /\ \A c \in DOMAIN top \ DOMAIN lines : writes[c] = top[c]
    <3> HIDE DEF lines, top
    <3> QED BY OverCells
  <2>5. own \subseteq Lines /\ \A k \in own : Is(view, "txn", k) = "on" /\ view[<<"txn", k, "upload">>] = u
    BY DEF Active
  <2> HIDE DEF own, lines, top, writes
  <2>6. /\ DOMAIN db \subseteq DOMAIN db'
        /\ \A c \in DOMAIN db :
             db'[c] = IF c \in DOMAIN writes /\ (c[1] = "book" \/ view[c] # writes[c]) THEN writes[c] ELSE db[c]
    BY <2>1, Committed
  <2>7. \A k \in own : Is(db', "txn", k) = "off"
    <3> SUFFICES ASSUME NEW k \in own PROVE Is(db', "txn", k) = "off"
      OBVIOUS
    <3>1. <<"txn", k, "is">> \in DOMAIN db /\ view[<<"txn", k, "is">>] = "on"
      BY <2>5 DEF BooksKept, Is
    <3>2. <<"txn", k, "is">> \in DOMAIN writes /\ writes[<<"txn", k, "is">>] = "off"
      BY <2>3, <2>4
    <3> QED BY <2>6, <3>1, <3>2 DEF Is
  <2>8. \A k \in Lines \ own : Is(db', "txn", k) = Is(db, "txn", k)
    <3>1. \A k \in Lines \ own : <<"txn", k, "is">> \notin DOMAIN writes
      BY <2>2, <2>3, <2>4
    <3> QED BY <2>6, <3>1 DEF BooksKept, Is
  <2>9. \A k \in Lines : db'[<<"txn", k, "upload">>] = db[<<"txn", k, "upload">>]
    <3>1. \A k \in Lines : <<"txn", k, "upload">> \notin DOMAIN writes
      BY <2>2, <2>3, <2>4
    <3> QED BY <2>6, <3>1 DEF BooksKept
  <2>10. Is(view, "upload", u) = "on" /\ Is(db, "upload", u) # "none"
    BY <1>2 DEF On, Snapshot
  <2>11. Is(db', "upload", u) = "off"
    <3>1. <<"upload", u, "is">> \in DOMAIN db /\ <<"upload", u, "is">> \in DOMAIN writes
      BY <2>2, <2>4 DEF BooksKept
    <3>2. writes[<<"upload", u, "is">>] = "off"
      BY <2>2, <2>3, <2>4
    <3> QED BY <2>6, <2>10, <3>1, <3>2 DEF Is
  <2>12. \A w \in Uploads \ {u} : Is(db', "upload", w) = Is(db, "upload", w)
    <3>1. \A w \in Uploads \ {u} : <<"upload", w, "is">> \notin DOMAIN writes
      BY <2>2, <2>3, <2>4
    <3> QED BY <2>6, <3>1 DEF BooksKept, Is
  <2>13. Stored(db') = Stored(db) /\ Removed(db') = Removed(db) \cup {u}
    BY <2>10, <2>11, <2>12 DEF Stored, Removed
  <2>14. /\ \A k \in Lines : {<<"txn", k, "is">>, <<"txn", k, "upload">>} \subseteq DOMAIN db' /\ Is(db', "txn", k) \in {"none", "on", "off"}
         /\ \A w \in Uploads : <<"upload", w, "is">> \in DOMAIN db'
    BY <2>6, <2>7, <2>8 DEF BooksKept
  <2>15. \A k \in own : Is(db, "txn", k) # "none" /\ Times(u, k[1]) >= k[2]
    <3> SUFFICES ASSUME NEW k \in own PROVE Is(db, "txn", k) # "none" /\ Times(u, k[1]) >= k[2]
      OBVIOUS
    <3>1. k \in Lines /\ Is(view, "txn", k) = "on" /\ view[<<"txn", k, "upload">>] = u
      BY <2>5
    <3>2. Is(db, "txn", k) # "none"
      BY <3>1 DEF Snapshot
    <3>3. Times(view[<<"txn", k, "upload">>], k[1]) >= k[2]
      BY <3>1 DEF Snapshot, BooksKept
    <3> QED BY <3>1, <3>2, <3>3
  <2>16. ASSUME NEW k \in Lines
         PROVE  /\ Is(db', "txn", k) # "none" <=> \E w \in Stored(db') : Times(w, k[1]) >= k[2]
                /\ Is(db', "txn", k) = "off" => \E w \in Removed(db') : Times(w, k[1]) >= k[2]
                /\ IF Is(db', "txn", k) = "none" THEN db'[<<"txn", k, "upload">>] = None
                   ELSE db'[<<"txn", k, "upload">>] \in Stored(db') /\ Times(db'[<<"txn", k, "upload">>], k[1]) >= k[2]
    <3>1. /\ Is(db, "txn", k) # "none" <=> \E w \in Stored(db) : Times(w, k[1]) >= k[2]
          /\ Is(db, "txn", k) = "off" => \E w \in Removed(db) : Times(w, k[1]) >= k[2]
          /\ IF Is(db, "txn", k) = "none" THEN db[<<"txn", k, "upload">>] = None
             ELSE db[<<"txn", k, "upload">>] \in Stored(db) /\ Times(db[<<"txn", k, "upload">>], k[1]) >= k[2]
      BY DEF BooksKept
    <3>2. CASE k \in own
      BY <2>7, <2>9, <2>13, <2>15, <3>1, <3>2
    <3>3. CASE k \notin own
      <4>1. Is(db', "txn", k) = Is(db, "txn", k) /\ db'[<<"txn", k, "upload">>] = db[<<"txn", k, "upload">>]
        BY <2>8, <2>9, <3>3
      <4> QED BY <2>13, <3>1, <4>1
    <3> QED BY <3>2, <3>3
  <2>17. BooksKept(db')
    BY <2>14, <2>16 DEF BooksKept
  <2>18. /\ \A k \in Lines : Is(db', "txn", k) = "none" => Is(db, "txn", k) = "none"
         /\ \A w \in Uploads : Is(db', "upload", w) = "none" <=> Is(db, "upload", w) = "none"
    BY <2>7, <2>8, <2>10, <2>11, <2>12
  <2> QED BY <2>17, <2>18 DEF Snapshot
<1> QED BY <1>1, <1>2

\* A request writes none of the cells of lines and uploads, unless it removes a statement.
LEMMA FixElsewhere == ASSUME NEW v, NEW p, NEW l, NEW cf PROVE Elsewhere(FixParty(v, p, l, cf))
<1>1. \A columns : Elsewhere(Put("party", p, columns))
  BY ElsewherePut
<1>2. Elsewhere(Created("loc", l)) /\ Elsewhere(Refused)
  BY ElsewhereCreated, ElsewhereRefused
<1>3. \A columns : Elsewhere(Over(Put("party", p, columns), Created("loc", l)))
  BY <1>1, <1>2, ElsewhereOver
<1> QED BY <1>1, <1>2, <1>3 DEF FixParty

LEMMA WritesElsewhere ==
  ASSUME NEW v, NEW q, NEW c, q.op \in Operations \ {"remove"}, q.op = "archive" => q.table \in MasterTables
  PROVE  Elsewhere(Writes(v, q, c))
<1>1. Elsewhere(SaveParty(v, q))
  <2>1. \A columns : Elsewhere(Over(Put("party", q.party, columns), Created("loc", q.loc)))
    BY ElsewherePut, ElsewhereCreated, ElsewhereOver
  <2> QED BY <2>1, ElsewhereRefused DEF SaveParty
<1>2. Elsewhere(SaveLocation(v, q))
  BY ElsewherePut, ElsewhereRefused DEF SaveLocation
<1>3. Elsewhere(SaveCfLocation(v, q))
  BY ElsewhereCreated, ElsewhereRefused DEF SaveCfLocation
<1>4. Elsewhere(SaveRatioSet(v, q))
  <2> DEFINE Cf(line) == IF line.cf = None /\ Known(v, "cf", NamedLike(line.loc)) THEN NamedLike(line.loc) ELSE line.cf
             lines == [i \in 1..Len(q.lines) |-> [q.lines[i] EXCEPT !.cf = Cf(q.lines[i])]]
             created == [x \in {<<"loc", lines[i].loc, "is">> : i \in 1..Len(lines)} |-> "on"]
             new == Over(Put("set", q.set, [is |-> "on", lines |-> lines]), Over(Created("group", q.set[1]), created))
  <2>1. SaveRatioSet(v, q) = new \/ SaveRatioSet(v, q) = Refused
    BY Zenon DEF SaveRatioSet
  <2>2. Elsewhere(created)
    <3> HIDE DEF lines
    <3> QED BY DEF Elsewhere, LineCells
  <2> HIDE DEF created, lines
  <2>3. Elsewhere(new)
    BY <2>2, ElsewherePut, ElsewhereCreated, ElsewhereOver
  <2> HIDE DEF new
  <2> QED BY <2>1, <2>3, ElsewhereRefused
<1>5. \A w, d, p : Elsewhere(SaveAlias(w, d, p))
  BY ElsewherePut, ElsewhereRefused DEF SaveAlias
<1>6. Elsewhere(ResolveKey(v, q))
  <2> DEFINE fixed == FixParty(v, q.party, q.loc, q.cf)
  <2>1. Elsewhere(fixed)
    BY FixElsewhere
  <2> HIDE DEF fixed
  <2>2. Elsewhere(Over(SaveAlias(Over(fixed, v), q.desc, q.party), fixed))
    BY <2>1, <1>5, ElsewhereOver
  <2> QED BY <2>2, ElsewhereRefused DEF ResolveKey, fixed
<1>7. ASSUME q.table \in MasterTables PROVE Elsewhere(Archive(v, q))
  <2>1. \A S : Elsewhere([x \in {<<"set", s, "is">> : s \in S} |-> "off"])
    BY DEF Elsewhere, LineCells
  <2>2. Elsewhere(Put(q.table, q.row, [is |-> "off"]))
    BY <1>7, ElsewherePut DEF MasterTables
  <2>3. \A S : Elsewhere(Over(Put(q.table, q.row, [is |-> "off"]), [x \in {<<"set", s, "is">> : s \in S} |-> "off"]))
    BY <2>1, <2>2, ElsewhereOver
  <2> QED BY <2>3, ElsewhereRefused DEF Archive
<1>8. Elsewhere(SetOverride(v, q, c))
  <2>1. /\ Elsewhere([x \in {<<"txn", q.txn, "party">>} |-> q.party])
        /\ Elsewhere([x \in {<<"split", q.txn, c>>} |-> q.splits])
        /\ Elsewhere([x \in {<<"split", q.txn, d>> : d \in Clerks} |-> <<>>])
    BY DEF Elsewhere, LineCells
  <2> DEFINE named == IF q.party = None THEN <<>> ELSE FixParty(v, q.party, q.loc, q.cf)
  <2>2. Elsewhere(named)
    BY FixElsewhere, ElsewhereRefused DEF Refused
  <2> HIDE DEF named
  <2>3. Elsewhere(Over([x \in {<<"txn", q.txn, "party">>} |-> q.party],
                       Over(named, Over([x \in {<<"split", q.txn, c>>} |-> q.splits],
                                        [x \in {<<"split", q.txn, d>> : d \in Clerks} |-> <<>>]))))
    BY <2>1, <2>2, ElsewhereOver
  <2> QED BY <2>3, ElsewhereRefused DEF SetOverride, named
<1>9. Elsewhere(SaveSetup(v, q))
  BY ElsewherePut, ElsewhereRefused DEF SaveSetup
<1>10. Elsewhere(Generated(v, q.anyway))
  BY ElsewherePut, ElsewhereRefused DEF Generated
<1> HIDE DEF Elsewhere
<1>11. CASE q.op \in {"party", "location", "cf", "set", "alias", "fix"}
  BY <1>1, <1>2, <1>3, <1>4, <1>5, <1>11, FixElsewhere DEF Writes
<1>12. CASE q.op \in {"key", "archive", "line", "setup", "generate"}
  BY <1>6, <1>7, <1>8, <1>9, <1>10, <1>12 DEF Writes
<1> QED BY <1>11, <1>12 DEF Operations

\* The books at the start, and after each step.
LEMMA BooksBegin == ASSUME BooksInit PROVE BooksInductive
<1>1. PICK x \in Scenarios : db = x.db /\ scenario = [x EXCEPT !.db = NoView]
  BY DEF BooksInit
<1>2. scenario.jobs = x.jobs
  BY <1>1, BooksConstants
<1>3. BooksKept(db)
  BY <1>1, BooksConstants
<1>4. ASSUME NEW j \in Jobs PROVE JobOK(j, job[j])
  <2>1. job[j] = [at |-> IF j \in scenario.jobs THEN 1 ELSE 0, view |-> NoView, new |-> FALSE,
                  state |-> IF j \in scenario.jobs THEN "running" ELSE "none"]
    BY DEF BooksInit
  <2>2. ASSUME j \in x.jobs, NEW i \in DOMAIN Files[j] PROVE Is(db, "upload", <<j, i>>) = "none"
    <3>1. <<j, i>> \in Uploads /\ <<j, i>>[1] \in x.jobs
      BY <2>2 DEF Uploads
    <3> QED BY <1>1, <3>1, BooksConstants
  <2> QED BY <1>2, <2>1, <2>2 DEF JobOK
<1>5. DOMAIN job = Jobs /\ DOMAIN desk = Clerks /\ \A c \in Clerks : desk[c].ask = Idle
  BY DEF BooksInit
<1> QED BY <1>1, <1>3, <1>4, <1>5 DEF BooksInductive

\* A request that is asked is one of the scenario's.
LEMMA AskedIsKnown ==
  ASSUME BooksInductive, NEW q \in scenario.requests
  PROVE  RequestFits(q)
<1>1. PICK x \in Scenarios : scenario = [x EXCEPT !.db = NoView]
  BY DEF BooksInductive
<1>2. scenario.requests = x.requests
  BY <1>1, BooksConstants
<1> QED BY <1>1, <1>2, BooksConstants

\* A step that leaves the database, and one that keeps its books, of the jobs and
\* users that do not take it.
LEMMA JobStays ==
  ASSUME NEW j \in Jobs, NEW r, JobOK(j, r), \A v : Snapshot(v) => Snapshot(v)',
         \A i \in DOMAIN Files[j] : i >= r.at => Is(db', "upload", <<j, i>>) = Is(db, "upload", <<j, i>>)
  PROVE  JobOK(j, r)'
  BY DEF JobOK

\* The step of a job j, and of a user c, over what it does to the database.
LEMMA JobSteps ==
  ASSUME BooksInductive, NEW j \in Jobs, UNCHANGED <<desk, scenario>>,
         BooksKept(db)', \A v : Snapshot(v) => Snapshot(v)',
         \A i \in Jobs \ {j} : \A n \in DOMAIN Files[i] : Is(db', "upload", <<i, n>>) = Is(db, "upload", <<i, n>>),
         DOMAIN job' = Jobs, \A i \in Jobs \ {j} : job'[i] = job[i], JobOK(j, job[j])'
  PROVE  BooksInductive'
<1>1. ASSUME NEW i \in Jobs PROVE JobOK(i, job[i])'
  <2>1. CASE i # j
    <3>1. JobOK(i, job[i]) /\ job'[i] = job[i]
      BY <2>1 DEF BooksInductive
    <3> DEFINE r == job[i]
    <3>2. \A n \in DOMAIN Files[i] : Is(db', "upload", <<i, n>>) = Is(db, "upload", <<i, n>>)
      BY <2>1
    <3> QED BY <3>1, <3>2 DEF JobOK
  <2> QED BY <2>1
<1>2. \A c \in Clerks : desk'[c].ask # Idle => desk'[c].ask \in scenario'.requests /\ Snapshot(desk[c].view)'
  <2> SUFFICES ASSUME NEW c \in Clerks, desk[c].ask # Idle
               PROVE  desk[c].ask \in scenario.requests /\ Snapshot(desk[c].view)'
    OBVIOUS
  <2>1. Snapshot(desk[c].view) /\ desk[c].ask \in scenario.requests /\ desk'[c].view = desk[c].view
    BY DEF BooksInductive
  <2> QED BY <2>1
<1> QED BY <1>1, <1>2 DEF BooksInductive

LEMMA UserSteps ==
  ASSUME BooksInductive, NEW c \in Clerks, UNCHANGED <<job, scenario>>,
         BooksKept(db)', \A v : Snapshot(v) => Snapshot(v)',
         \A u \in Uploads : Is(db, "upload", u) = "none" => Is(db', "upload", u) = "none",
         DOMAIN desk' = Clerks, \A d \in Clerks \ {c} : desk'[d] = desk[d],
         desk'[c].ask # Idle => desk'[c].ask \in scenario.requests /\ Snapshot(desk[c].view)'
  PROVE  BooksInductive'
<1>1. ASSUME NEW j \in Jobs PROVE JobOK(j, job[j])'
  <2>1. JobOK(j, job[j]) /\ job'[j] = job[j]
    BY DEF BooksInductive
  <2>2. \A i \in DOMAIN Files[j] : <<j, i>> \in Uploads
    BY DEF Uploads
  <2> QED BY <2>1, <2>2 DEF JobOK
<1>2. \A d \in Clerks : desk'[d].ask # Idle => desk'[d].ask \in scenario'.requests /\ Snapshot(desk[d].view)'
  <2> SUFFICES ASSUME NEW d \in Clerks, desk'[d].ask # Idle
               PROVE  desk'[d].ask \in scenario.requests /\ Snapshot(desk[d].view)'
    OBVIOUS
  <2>1. CASE d # c
    <3>1. desk'[d] = desk[d] /\ Snapshot(desk[d].view) /\ desk[d].ask \in scenario.requests
      BY <2>1 DEF BooksInductive
    <3> QED BY <3>1
  <2> QED BY <2>1
<1> QED BY <1>1, <1>2 DEF BooksInductive

LEMMA SameBooks ==
  ASSUME BooksKept(db), UNCHANGED db
  PROVE  BooksKept(db)' /\ \A v : Snapshot(v) => Snapshot(v)'
<1>1. BooksKept(db')
  OBVIOUS
<1> QED BY <1>1 DEF Snapshot

LEMMA ReadKeeps ==
  ASSUME BooksInductive, NEW j \in Jobs, FileRead(j) \/ MonthRead(j)
  PROVE  BooksInductive'
<1>1. BooksKept(db) /\ UNCHANGED <<db, desk, scenario>> /\ DOMAIN job = Jobs /\ JobOK(j, job[j]) /\ job[j].state = "running"
  BY DEF BooksInductive, FileRead, MonthRead
<1>2. BooksKept(db)' /\ \A v : Snapshot(v) => Snapshot(v)'
  BY <1>1, SameBooks
<1>3. DOMAIN job' = Jobs /\ \A i \in Jobs \ {j} : job'[i] = job[i]
  BY <1>1 DEF FileRead, MonthRead
<1>4. JobOK(j, job[j])'
  <2>1. \/ job'[j] = [job[j] EXCEPT !.at = @ + 1] \/ job'[j] = [job[j] EXCEPT !.view = db]
        \/ job'[j] = [job[j] EXCEPT !.state = "done"]
    BY <1>1 DEF FileRead, MonthRead
  <2>2. Snapshot(db)'
    BY <1>2 DEF Snapshot
  <2>3. DOMAIN Files[j] \subseteq Nat
    BY BooksConstants
  <2>4. CASE job'[j] = [job[j] EXCEPT !.at = @ + 1]
    BY <1>1, <1>2, <2>3, <2>4 DEF JobOK
  <2>5. CASE job'[j] = [job[j] EXCEPT !.view = db]
    BY <1>1, <2>2, <2>5 DEF JobOK
  <2>6. CASE job'[j] = [job[j] EXCEPT !.state = "done"]
    BY <1>1, <2>6 DEF JobOK
  <2> QED BY <2>1, <2>4, <2>5, <2>6
<1> QED BY <1>1, <1>2, <1>3, <1>4, JobSteps

LEMMA StoredKeeps ==
  ASSUME BooksInductive, NEW j \in Jobs, FileStored(j) \/ MonthStored(j)
  PROVE  BooksInductive'
<1>1. BooksKept(db) /\ UNCHANGED <<desk, scenario>> /\ DOMAIN job = Jobs /\ JobOK(j, job[j]) /\ job[j].state = "running"
      /\ Snapshot(job[j].view)
  BY DEF BooksInductive, FileStored, MonthStored, JobOK
<1>2. DOMAIN job' = Jobs /\ \A i \in Jobs \ {j} : job'[i] = job[i]
  BY <1>1 DEF FileStored, MonthStored
<1>3. CASE MonthStored(j)
  <2>1. Elsewhere(Generated(job[j].view, FALSE))
    BY ElsewherePut, ElsewhereRefused DEF Generated
  <2>2. /\ BooksKept(db)' /\ \A v : Snapshot(v) => Snapshot(v)'
        /\ \A u \in Uploads : Is(db', "upload", u) = Is(db, "upload", u)
    BY <1>1, <1>3, <2>1, CommitElsewhere DEF MonthStored
  <2>3. \A i \in Jobs : \A n \in DOMAIN Files[i] : Is(db', "upload", <<i, n>>) = Is(db, "upload", <<i, n>>)
    BY <2>2 DEF Uploads
  <2>4. JobOK(j, job[j])'
    BY <1>1, <1>3 DEF MonthStored, JobOK
  <2> QED BY <1>1, <1>2, <2>2, <2>3, <2>4, JobSteps
<1>4. CASE FileStored(j) /\ Clashes(job[j].view, Ingested(job[j].view, <<j, job[j].at>>))
  <2>1. UNCHANGED db /\ job' = [job EXCEPT ![j].state = "failed", ![j].view = NoView]
    BY <1>4 DEF FileStored
  <2>2. JobOK(j, job[j])'
    BY <1>1, <2>1 DEF JobOK
  <2> QED BY <1>1, <1>2, <2>1, <2>2, SameBooks, JobSteps
<1>5. CASE FileStored(j) /\ ~Clashes(job[j].view, Ingested(job[j].view, <<j, job[j].at>>))
  <2> DEFINE u == <<j, job[j].at>>
  <2>1. u \in Uploads /\ Is(db, "upload", u) = "none" /\ Commit(job[j].view, Ingested(job[j].view, u))
    BY <1>1, <1>5 DEF FileStored, JobOK, Uploads
  <2>2. /\ BooksKept(db)' /\ \A v : Snapshot(v) => Snapshot(v)'
        /\ \A w \in Uploads \ {u} : Is(db', "upload", w) = Is(db, "upload", w)
    BY <1>1, <2>1, StoringKeeps
  <2>3. /\ \A i \in Jobs \ {j} : \A n \in DOMAIN Files[i] : Is(db', "upload", <<i, n>>) = Is(db, "upload", <<i, n>>)
        /\ \A n \in DOMAIN Files[j] : n # job[j].at => Is(db', "upload", <<j, n>>) = Is(db, "upload", <<j, n>>)
    BY <2>2 DEF Uploads
  <2>4. /\ DOMAIN job'[j] = {"at", "view", "new", "state"}
        /\ job'[j].at = job[j].at + 1 /\ job'[j].view = NoView
    BY <1>1, <1>5 DEF FileStored, JobOK
  <2>5. JobOK(j, job[j])'
    <3>1. job[j].at \in Nat \ {0} /\ DOMAIN Files[j] \subseteq Nat
      BY <1>1, BooksConstants DEF JobOK
    <3> QED BY <1>1, <2>3, <2>4, <3>1 DEF JobOK
  <2> QED BY <1>1, <1>2, <2>2, <2>3, <2>5, JobSteps
<1> QED BY <1>3, <1>4, <1>5

LEMMA AskKeeps == ASSUME BooksInductive, NEW c \in Clerks, Ask(c) PROVE BooksInductive'
<1>1. BooksKept(db) /\ UNCHANGED <<db, job, scenario>> /\ DOMAIN desk = Clerks
  BY DEF BooksInductive, Ask
<1>2. PICK q \in scenario.requests : desk' = [desk EXCEPT ![c] = [ask |-> q, view |-> db]]
  BY DEF Ask
<1>3. BooksKept(db)' /\ \A v : Snapshot(v) => Snapshot(v)'
  BY <1>1, SameBooks
<1>4. Snapshot(db)' /\ desk'[c].view = db' /\ desk'[c].ask = q
  BY <1>1, <1>2, <1>3 DEF Snapshot
<1>5. DOMAIN desk' = Clerks /\ \A d \in Clerks \ {c} : desk'[d] = desk[d]
  BY <1>1, <1>2
<1> QED BY <1>1, <1>3, <1>4, <1>5, UserSteps

LEMMA AnswerKeeps == ASSUME BooksInductive, NEW c \in Clerks, Answer(c) PROVE BooksInductive'
<1> DEFINE q == desk[c].ask
           view == desk[c].view
           writes == Writes(view, q, c)
<1>1. /\ BooksKept(db) /\ Snapshot(view) /\ UNCHANGED <<job, scenario>> /\ DOMAIN desk = Clerks /\ q \in scenario.requests
      /\ desk' = [desk EXCEPT ![c] = [ask |-> Idle, view |-> NoView]]
      /\ UNCHANGED db \/ Commit(view, writes)
  BY DEF BooksInductive, Answer
<1>2. DOMAIN desk' = Clerks /\ desk'[c].ask = Idle /\ \A d \in Clerks \ {c} : desk'[d] = desk[d]
  BY <1>1
<1>3. /\ BooksKept(db)' /\ \A v : Snapshot(v) => Snapshot(v)'
      /\ \A u \in Uploads : Is(db, "upload", u) = "none" => Is(db', "upload", u) = "none"
  <2>1. CASE UNCHANGED db
    BY <1>1, <2>1, SameBooks
  <2>2. CASE Commit(view, writes) /\ q.op = "remove"
    <3>1. q.upload \in Uploads
      BY <1>1, <2>2, AskedIsKnown DEF RequestFits
    <3>2. writes = RemoveStatement(view, q.upload)
      BY <2>2 DEF Writes
    <3> HIDE DEF q, view, writes
    <3> QED BY <1>1, <2>2, <3>1, <3>2, RemovingKeeps
  <2>3. CASE Commit(view, writes) /\ q.op # "remove"
    <3>1. q.op \in Operations \ {"remove"} /\ (q.op = "archive" => q.table \in MasterTables)
      BY <1>1, <2>3, AskedIsKnown DEF RequestFits
    <3>2. Elsewhere(writes)
      BY <3>1, WritesElsewhere
    <3> HIDE DEF q, view, writes
    <3> QED BY <1>1, <2>3, <3>2, CommitElsewhere
  <2> QED BY <1>1, <2>1, <2>2, <2>3
<1> QED BY <1>1, <1>2, <1>3, UserSteps

LEMMA BooksStep == ASSUME BooksInductive, [BooksNext]_books PROVE BooksInductive'
<1>1. CASE BooksNext
  BY <1>1, ReadKeeps, StoredKeeps, AskKeeps, AnswerKeeps DEF BooksNext
<1>2. CASE UNCHANGED books
  <2>1. UNCHANGED <<db, desk, job, scenario>>
    BY <1>2 DEF books
  <2>2. BooksKept(db)' /\ \A v : Snapshot(v) => Snapshot(v)'
    BY <2>1, SameBooks DEF BooksInductive
  <2>3. \A j \in Jobs : JobOK(j, job[j])'
    <3> SUFFICES ASSUME NEW j \in Jobs PROVE JobOK(j, job[j])'
      OBVIOUS
    <3>1. JobOK(j, job[j]) /\ job'[j] = job[j] /\ db' = db
      BY <2>1 DEF BooksInductive
    <3> QED BY <2>2, <3>1 DEF JobOK
  <2>4. \A c \in Clerks : desk'[c].ask # Idle => desk'[c].ask \in scenario'.requests /\ Snapshot(desk[c].view)'
    BY <2>1, <2>2 DEF BooksInductive
  <2> QED BY <2>1, <2>2, <2>3, <2>4 DEF BooksInductive
<1> QED BY <1>1, <1>2

\* The largest of a set of numbers that is bounded.
LEMMA MaxBounded ==
  ASSUME NEW n \in Nat, NEW S \in SUBSET (0..n), S # {}
  PROVE  Max(S) \in S /\ \A y \in S : y <= Max(S)
<1> DEFINE R == {ss \in Nat \X Nat : ss[1] < ss[2]}
           T == {n - y : y \in S}
<1>1. IsWellFoundedOn(R, Nat)
  BY NatLessThanWellFounded DEF OpToRel
<1>2. \A x, y \in Nat : x < y => <<x, y>> \in R
  OBVIOUS
<1>3. T \in SUBSET Nat /\ T # {}
  <2>1. \A y \in S : n - y \in Nat
    OBVIOUS
  <2> QED BY <2>1
<1> HIDE DEF R
<1>4. PICK t \in T : \A y \in T : ~ (<<y, t>> \in R)
  <2> HIDE DEF T
  <2> QED BY <1>1, <1>3, WFMin
<1>5. PICK x \in S : t = n - x
  OBVIOUS
<1>6. ASSUME NEW y \in S PROVE x >= y
  <2>1. n - y \in T /\ n - y \in Nat /\ t \in Nat
    BY <1>3
  <2> HIDE DEF T
  <2>2. ~ (n - y < t)
    BY <1>2, <1>4, <2>1
  <2> QED BY <1>5, <2>2
<1> QED BY <1>6 DEF Max

\* Of the lines of one kind the books have the first ones, as many as the statement
\* that has most of them.
LEMMA KeptAreTheMost ==
  ASSUME BooksKept(db), NEW b
  PROVE  LET kept == {k \in Lines : k[1] = b /\ Is(db, "txn", k) # "none"}
         IN Cardinality(kept) = Max({Times(u, b) : u \in Stored(db)} \cup {0})
<1> DEFINE kept == {k \in Lines : k[1] = b /\ Is(db, "txn", k) # "none"}
           counts == {Times(u, b) : u \in Stored(db)} \cup {0}
           most == Max(counts)
           First(n) == {<<b, i>> : i \in 1..n}
<1>1. IsFiniteSet(kept) /\ Cardinality(kept) \in Nat
  BY BooksConstants, FS_Subset, FS_CardinalityType
<1>2. ASSUME NEW u \in Stored(db)
      PROVE  Times(u, b) \in Nat /\ \A n \in 1..Times(u, b) : <<b, n>> \in Lines
  <2>1. StatementOf(u) \in DOMAIN Statements
    BY BooksConstants DEF StatementOf, Uploads, Stored
  <2> QED BY <2>1, BooksConstants DEF Times
<1>3. \A k \in Lines : k = <<k[1], k[2]>> /\ k[2] \in Nat \ {0}
  BY BooksConstants
<1>4. \A k \in kept : \E u \in Stored(db) : Times(u, b) >= k[2]
  BY DEF BooksKept
<1>5. \A u \in Stored(db) : \A n \in 1..Times(u, b) : <<b, n>> \in kept
  BY <1>2 DEF BooksKept
<1>6. \A n \in Nat : IsFiniteSet(First(n)) /\ Cardinality(First(n)) = n
  <2> SUFFICES ASSUME NEW n \in Nat PROVE IsFiniteSet(First(n)) /\ Cardinality(First(n)) = n
    OBVIOUS
  <2>1. IsFiniteSet(1..n) /\ Cardinality(1..n) = n
    BY FS_Interval
  <2> DEFINE f == [i \in 1..n |-> <<b, i>>]
  <2>2. f \in Bijection(1..n, First(n))
    BY DEF Bijection, Injection, Surjection, IsInjective
  <2> HIDE DEF f, First
  <2>3. ExistsBijection(1..n, First(n))
    BY <2>2 DEF ExistsBijection
  <2> QED BY <2>1, <2>3, FS_Bijection
<1>7. ASSUME NEW u \in Stored(db) PROVE Times(u, b) <= Cardinality(kept)
  <2>1. First(Times(u, b)) \subseteq kept
    BY <1>5
  <2> HIDE DEF First, kept
  <2> QED BY <1>1, <1>2, <1>6, <2>1, FS_Subset
<1>8. counts \in SUBSET (0..Cardinality(kept)) /\ counts # {}
  <2> HIDE DEF kept
  <2> QED BY <1>1, <1>2, <1>7
<1>9. most \in counts /\ most \in Nat /\ \A y \in counts : y <= most
  <2> HIDE DEF counts, kept
  <2>1. most \in counts /\ \A y \in counts : y <= most
    BY <1>1, <1>8, MaxBounded
  <2> HIDE DEF most
  <2>2. counts \subseteq Nat
    BY <1>1, <1>8
  <2> QED BY <2>1, <2>2
<1>10. kept = First(most)
  <2> HIDE DEF most
  <2>1. ASSUME NEW k \in kept PROVE k \in First(most)
    <3>1. PICK u \in Stored(db) : Times(u, b) >= k[2]
      BY <1>4
    <3>2. Times(u, b) <= most /\ k = <<b, k[2]>> /\ k[2] \in Nat \ {0} /\ Times(u, b) \in Nat
      BY <1>2, <1>3, <1>9
    <3>3. k[2] \in 1..most
      BY <1>9, <3>1, <3>2
    <3> QED BY <3>2, <3>3
  <2>2. ASSUME NEW k \in First(most) PROVE k \in kept
    <3>1. PICK i \in 1..most : k = <<b, i>>
      OBVIOUS
    <3>2. most # 0
      BY <1>9
    <3>3. PICK u \in Stored(db) : most = Times(u, b)
      BY <1>9, <3>2
    <3> HIDE DEF kept
    <3> QED BY <1>5, <3>1, <3>3
  <2> QED BY <2>1, <2>2
<1> HIDE DEF First
<1> QED BY <1>6, <1>9, <1>10

-----------------------------------------------------------------------------
(* What the masters refer to. *)

LEMMA CellsOver == ASSUME NEW f, NEW g, CellsOK(f), CellsOK(g) PROVE CellsOK(Over(f, g))
  BY DEF CellsOK, Over

LEMMA CellsRefused == CellsOK(Refused)
  BY DEF CellsOK, Refused

LEMMA CellsPut ==
  ASSUME NEW t, NEW r, NEW columns, \A f \in DOMAIN columns : CellOK(<<t, r, f>>, columns[f])
  PROVE  CellsOK(Put(t, r, columns))
  BY DEF CellsOK, Put

\* That a row is there or not says nothing that could be wrong.
LEMMA IsOK == ASSUME NEW t, NEW r, NEW x, t # "split" PROVE CellOK(<<t, r, "is">>, x)
  BY DEF CellOK

LEMMA CellsCreated == ASSUME NEW t, NEW r, t # "split" PROVE CellsOK(Created(t, r))
<1>1. CellsOK(Put(t, r, [is |-> "on"]))
  BY CellsPut, IsOK
<1> QED BY <1>1, CellsRefused DEF Created, Refused

\* What a transaction writes, over what there is.
LEMMA CommitMasters ==
  ASSUME MastersOK(db), NEW view, NEW writes, CellsOK(writes), Commit(view, writes)
  PROVE  MastersOK(db)'
<1> DEFINE ch == Changed(view, writes)
<1>1. CellsOK(ch)
  BY DEF Changed, CellsOK
<1>2. db' = Over(ch, db) /\ CellsOK(Over(ch, db)) /\ DOMAIN db \subseteq DOMAIN Over(ch, db)
  <2>1. db' = Over(ch, db)
    BY DEF Commit
  <2> HIDE DEF ch
  <2> QED BY <1>1, <2>1, CellsOver, OverCells DEF MastersOK
<1> QED BY <1>2 DEF MastersOK

\* Each request writes what can be referred to.
LEMMA PartyCells ==
  ASSUME NEW p, NEW l \in OrNone(Locations), NEW cf \in OrNone(CfLocations), NEW g \in OrNone(Groups)
  PROVE  CellsOK(Put("party", p, [is |-> "on", loc |-> l, cf |-> cf, group |-> g]))
  BY CellsPut DEF CellOK

LEMMA FixMasters ==
  ASSUME NEW v, MastersOK(v), NEW p \in Parties, NEW l \in OrNone(Locations), NEW cf \in OrNone(CfLocations)
  PROVE  CellsOK(FixParty(v, p, l, cf))
<1>1. v[<<"party", p, "cf">>] \in OrNone(CfLocations)
  <2>1. <<"party", p, "cf">> \in DOMAIN v
    BY DEF MastersOK, MasterCells
  <2> QED BY <2>1 DEF MastersOK, CellsOK, CellOK
<1>2. \A x \in OrNone(CfLocations) : CellsOK(Put("party", p, [is |-> "on", loc |-> l, cf |-> x]))
  BY CellsPut DEF CellOK
<1>3. CellsOK(Put("party", p, [is |-> "on"])) /\ CellsOK(Created("loc", l))
  BY CellsPut, IsOK, CellsCreated
<1>4. \A x \in OrNone(CfLocations) : CellsOK(Over(Put("party", p, [is |-> "on", loc |-> l, cf |-> x]), Created("loc", l)))
  BY <1>2, <1>3, CellsOver
<1> QED BY <1>1, <1>3, <1>4, CellsRefused DEF FixParty

LEMMA AliasMasters == ASSUME NEW v, NEW d, NEW p \in Parties PROVE CellsOK(SaveAlias(v, d, p))
<1>1. CellsOK(Put("alias", d, [is |-> "on", party |-> p]))
  BY CellsPut DEF CellOK, OrNone
<1> QED BY <1>1, CellsRefused DEF SaveAlias

LEMMA RatioMasters ==
  ASSUME NEW v, NEW q, q.lines \in Ratios
  PROVE  CellsOK(SaveRatioSet(v, q))
<1> DEFINE Cf(line) == IF line.cf = None /\ Known(v, "cf", NamedLike(line.loc)) THEN NamedLike(line.loc) ELSE line.cf
           lines == [i \in 1..Len(q.lines) |-> [q.lines[i] EXCEPT !.cf = Cf(q.lines[i])]]
           created == [x \in {<<"loc", lines[i].loc, "is">> : i \in 1..Len(lines)} |-> "on"]
           new == Over(Put("set", q.set, [is |-> "on", lines |-> lines]), Over(Created("group", q.set[1]), created))
<1>1. SaveRatioSet(v, q) = new \/ SaveRatioSet(v, q) = Refused
  BY Zenon DEF SaveRatioSet
<1>2. lines \in Ratios
  <2>1. ASSUME NEW i \in 1..Len(q.lines)
        PROVE  [q.lines[i] EXCEPT !.cf = Cf(q.lines[i])] \in [loc : Locations, cf : OrNone(CfLocations), percent : Int]
    <3>1. q.lines[i] \in [loc : Locations, cf : OrNone(CfLocations), percent : Int]
      <4> DEFINE Ratio == [loc : Locations, cf : OrNone(CfLocations), percent : Int]
      <4>1. q.lines \in Seq(Ratio)
        BY DEF Ratios
      <4> HIDE DEF Ratio
      <4>2. q.lines[i] \in Ratio
        BY <4>1
      <4> QED BY <4>2 DEF Ratio
    <3>2. Cf(q.lines[i]) \in OrNone(CfLocations)
      BY <3>1, BooksConstants
    <3> HIDE DEF Cf
    <3> QED BY <3>1, <3>2
  <2>2. Len(q.lines) \in Nat
    BY DEF Ratios
  <2> HIDE DEF Cf
  <2> QED BY <2>1, <2>2 DEF Ratios
<1>3. CellsOK(created)
  <2> HIDE DEF lines
  <2> QED BY IsOK DEF CellsOK
<1> HIDE DEF lines, created
<1>4. CellsOK(Put("set", q.set, [is |-> "on", lines |-> lines]))
  BY <1>2, CellsPut DEF CellOK
<1>5. CellsOK(new)
  BY <1>3, <1>4, CellsCreated, CellsOver
<1> HIDE DEF new
<1> QED BY <1>1, <1>5, CellsRefused

LEMMA OverrideMasters ==
  ASSUME NEW v, MastersOK(v), NEW q, NEW c, q.party \in OrNone(Parties), q.loc \in OrNone(Locations),
         q.cf \in OrNone(CfLocations), q.splits \in Typed
  PROVE  CellsOK(SetOverride(v, q, c))
<1> DEFINE named == IF q.party = None THEN <<>> ELSE FixParty(v, q.party, q.loc, q.cf)
           typed == [x \in {<<"txn", q.txn, "party">>} |-> q.party]
           mine == [x \in {<<"split", q.txn, c>>} |-> q.splits]
           old == [x \in {<<"split", q.txn, d>> : d \in Clerks} |-> <<>>]
           new == Over(typed, Over(named, Over(mine, old)))
<1>1. SetOverride(v, q, c) = new \/ SetOverride(v, q, c) = Refused
  BY Zenon DEF SetOverride
<1>2. CellsOK(named)
  BY FixMasters, CellsRefused DEF OrNone, Refused
<1>3. CellsOK(typed) /\ CellsOK(mine) /\ CellsOK(old)
  <2>1. <<>> \in Typed
    BY DEF Typed
  <2> QED BY <2>1 DEF CellsOK, CellOK
<1> HIDE DEF named, typed, mine, old
<1>4. CellsOK(new)
  BY <1>2, <1>3, CellsOver
<1> HIDE DEF new
<1> QED BY <1>1, <1>4, CellsRefused

LEMMA WritesMasters ==
  ASSUME NEW v, MastersOK(v), NEW q, NEW c, RequestFits(q)
  PROVE  CellsOK(Writes(v, q, c))
<1>1. CASE q.op = "party"
  <2>1. q.loc \in OrNone(Locations) /\ q.cf \in OrNone(CfLocations) /\ q.group \in OrNone(Groups)
    BY <1>1 DEF RequestFits
  <2>2. None \in OrNone(Locations) /\ None \in OrNone(CfLocations)
    BY DEF OrNone
  <2>3. CellsOK(Over(Put("party", q.party, [is |-> "on", loc |-> IF q.group # None THEN None ELSE q.loc,
                                            cf |-> IF q.group # None THEN None ELSE q.cf, group |-> q.group]),
                     Created("loc", q.loc)))
    BY <2>1, <2>2, PartyCells, CellsCreated, CellsOver
  <2> QED BY <1>1, <2>3, CellsRefused DEF Writes, SaveParty
<1>2. CASE q.op = "location"
  <2>1. CellsOK(Put("loc", q.loc, [is |-> "on", cf |-> q.cf]))
    BY <1>2, CellsPut DEF RequestFits, CellOK
  <2> QED BY <1>2, <2>1, CellsRefused DEF Writes, SaveLocation
<1>3. CASE q.op = "cf"
  BY <1>3, CellsCreated, CellsRefused DEF Writes, SaveCfLocation
<1>4. CASE q.op = "set"
  BY <1>4, RatioMasters DEF Writes, RequestFits
<1>5. CASE q.op = "alias"
  BY <1>5, AliasMasters DEF Writes, RequestFits
<1>6. CASE q.op = "fix"
  BY <1>6, FixMasters DEF Writes, RequestFits
<1>7. CASE q.op = "key"
  <2> DEFINE fixed == FixParty(v, q.party, q.loc, q.cf)
  <2>1. CellsOK(fixed) /\ q.party \in Parties
    BY <1>7, FixMasters DEF RequestFits
  <2> HIDE DEF fixed
  <2>2. CellsOK(Over(SaveAlias(Over(fixed, v), q.desc, q.party), fixed))
    BY <2>1, AliasMasters, CellsOver
  <2> QED BY <1>7, <2>2, CellsRefused DEF Writes, ResolveKey, fixed
<1>8. CASE q.op = "archive"
  <2>1. q.table # "split"
    BY <1>8 DEF RequestFits, MasterTables
  <2>2. CellsOK(Put(q.table, q.row, [is |-> "off"]))
    BY <2>1, CellsPut, IsOK
  <2>3. \A S : CellsOK([x \in {<<"set", s, "is">> : s \in S} |-> "off"])
    BY IsOK DEF CellsOK
  <2>4. \A S : CellsOK(Over(Put(q.table, q.row, [is |-> "off"]), [x \in {<<"set", s, "is">> : s \in S} |-> "off"]))
    BY <2>2, <2>3, CellsOver
  <2> QED BY <1>8, <2>4, CellsRefused DEF Writes, Archive
<1>9. CASE q.op = "remove"
  <2>1. \A S : CellsOK([x \in {<<"txn", k, "is">> : k \in S} |-> "off"])
    BY IsOK DEF CellsOK
  <2>2. CellsOK(Put("upload", q.upload, [is |-> "off"]))
    BY CellsPut, IsOK
  <2>3. \A S : CellsOK(Over([x \in {<<"txn", k, "is">> : k \in S} |-> "off"], Put("upload", q.upload, [is |-> "off"])))
    BY <2>1, <2>2, CellsOver
  <2> QED BY <1>9, <2>3, CellsRefused DEF Writes, RemoveStatement
<1>10. CASE q.op = "line"
  BY <1>10, OverrideMasters DEF Writes, RequestFits
<1>11. CASE q.op = "setup"
  <2>1. \A x : CellsOK(Put("input", q.cf, [is |-> x]))
    BY CellsPut, IsOK
  <2> QED BY <1>11, <2>1, CellsRefused DEF Writes, SaveSetup
<1>12. CASE q.op = "generate"
  <2>1. \A x : CellsOK(Put("book", Months[1], [lines |-> x]))
    BY CellsPut DEF CellOK
  <2> QED BY <1>12, <2>1, CellsRefused DEF Writes, Generated
<1> QED BY <1>1, <1>2, <1>3, <1>4, <1>5, <1>6, <1>7, <1>8, <1>9, <1>10, <1>11, <1>12 DEF RequestFits, Operations

LEMMA MastersBegin == ASSUME BooksInit PROVE MastersInductive
<1>1. MastersOK(db)
  BY BooksConstants DEF BooksInit
<1>2. \A c \in Clerks : desk[c].ask = Idle
  BY DEF BooksInit
<1> QED BY <1>1, <1>2 DEF MastersInductive

LEMMA MastersStep == ASSUME BooksInductive, MastersInductive, [BooksNext]_books PROVE MastersInductive'
<1>1. ASSUME UNCHANGED db, UNCHANGED desk PROVE MastersInductive'
  BY <1>1 DEF MastersInductive, MastersOK
<1>2. ASSUME NEW j \in Jobs, FileRead(j) \/ MonthRead(j) PROVE MastersInductive'
  BY <1>1, <1>2 DEF FileRead, MonthRead
<1>3. ASSUME NEW j \in Jobs, FileStored(j) PROVE MastersInductive'
  <2> DEFINE u == <<j, job[j].at>>
             view == job[j].view
  <2>1. CellsOK(Ingested(view, u))
    <3>1. \A S : CellsOK([c \in UNION {{<<"txn", k, "is">>, <<"txn", k, "upload">>} : k \in S} |-> IF c[3] = "is" THEN "on" ELSE u])
      BY DEF CellsOK, CellOK
    <3>2. CellsOK(Put("upload", u, [is |-> "on"]))
      BY CellsPut, IsOK
    <3> HIDE DEF u
    <3>3. \A S : CellsOK(Over([c \in UNION {{<<"txn", k, "is">>, <<"txn", k, "upload">>} : k \in S} |-> IF c[3] = "is" THEN "on" ELSE u],
                              Put("upload", u, [is |-> "on"])))
      BY <3>1, <3>2, CellsOver
    <3> QED BY <3>3 DEF Ingested
  <2>2. UNCHANGED desk /\ (UNCHANGED db \/ Commit(view, Ingested(view, u)))
    BY <1>3 DEF FileStored
  <2> HIDE DEF u, view
  <2>3. CASE Commit(view, Ingested(view, u))
    BY <2>1, <2>2, <2>3, CommitMasters DEF MastersInductive
  <2> QED BY <1>1, <2>2, <2>3
<1>4. ASSUME NEW j \in Jobs, MonthStored(j) PROVE MastersInductive'
  <2>1. CellsOK(Generated(job[j].view, FALSE))
    <3>1. \A x : CellsOK(Put("book", Months[1], [lines |-> x]))
      BY CellsPut DEF CellOK
    <3> QED BY <3>1, CellsRefused DEF Generated
  <2> QED BY <1>4, <2>1, CommitMasters DEF MonthStored, MastersInductive
<1>5. ASSUME NEW c \in Clerks, Ask(c) PROVE MastersInductive'
  <2>1. PICK q \in scenario.requests : desk' = [desk EXCEPT ![c] = [ask |-> q, view |-> db]]
    BY <1>5 DEF Ask
  <2>2. UNCHANGED db /\ MastersOK(db) /\ DOMAIN desk = Clerks
    BY <1>5 DEF Ask, MastersInductive, BooksInductive
  <2> QED BY <2>1, <2>2 DEF MastersInductive, MastersOK
<1>6. ASSUME NEW c \in Clerks, Answer(c) PROVE MastersInductive'
  <2> DEFINE q == desk[c].ask
             view == desk[c].view
             writes == Writes(view, q, c)
  <2>1. /\ q \in scenario.requests /\ MastersOK(view) /\ MastersOK(db) /\ DOMAIN desk = Clerks
        /\ desk' = [desk EXCEPT ![c] = [ask |-> Idle, view |-> NoView]]
        /\ UNCHANGED db \/ Commit(view, writes)
    BY <1>6 DEF Answer, MastersInductive, BooksInductive
  <2>2. CellsOK(writes)
    BY <2>1, AskedIsKnown, WritesMasters
  <2>3. MastersOK(db)'
    <3>1. CASE UNCHANGED db
      BY <2>1, <3>1
    <3> HIDE DEF q, view, writes
    <3>2. CASE Commit(view, writes)
      BY <2>1, <2>2, <3>2, CommitMasters
    <3> QED BY <2>1, <3>1, <3>2
  <2>4. \A d \in Clerks : desk'[d].ask # Idle => desk'[d] = desk[d]
    BY <2>1
  <2> QED BY <2>3, <2>4 DEF MastersInductive
<1>7. CASE BooksNext
  BY <1>2, <1>3, <1>4, <1>5, <1>6, <1>7 DEF BooksNext
<1>8. CASE UNCHANGED books
  BY <1>1, <1>8 DEF books
<1> QED BY <1>7, <1>8
-----------------------------------------------------------------------------
(* Archiving takes no line out of its place. *)

\* The masters w are v but for the row r of t, which is archived, and the ratio
\* sets of r if it is a group.
Beside(v, w, t, r) ==
  /\ \A k \in Lines : w[<<"txn", k, "party">>] = v[<<"txn", k, "party">>]
  /\ \A k \in Lines, c \in Clerks : w[<<"split", k, c>>] = v[<<"split", k, c>>]
  /\ \A k \in Lines, f \in {"is", "party"} : w[<<"alias", Desc(k), f>>] = v[<<"alias", Desc(k), f>>]
  /\ \A p \in Parties, f \in {"loc", "cf", "group"} : w[<<"party", p, f>>] = v[<<"party", p, f>>]
  /\ \A p \in Parties : t # "party" \/ p # r => w[<<"party", p, "is">>] = v[<<"party", p, "is">>]
  /\ \A l \in Locations : w[<<"loc", l, "cf">>] = v[<<"loc", l, "cf">>]
  /\ \A l \in Locations : t # "loc" \/ l # r => w[<<"loc", l, "is">>] = v[<<"loc", l, "is">>]
  /\ \A c \in CfLocations : t # "cf" \/ c # r => w[<<"cf", c, "is">>] = v[<<"cf", c, "is">>]
  /\ \A g \in Groups : t # "group" \/ g # r => w[<<"group", g, "is">>] = v[<<"group", g, "is">>]
  /\ \A s \in RatioSets : w[<<"set", s, "lines">>] = v[<<"set", s, "lines">>]
  /\ \A s \in RatioSets : t # "group" \/ s[1] # r => w[<<"set", s, "is">>] = v[<<"set", s, "is">>]

\* A location, with the CF location named for it, goes where it went.
SameAt(v, w, l, o) == (On(w, "loc", l) <=> On(v, "loc", l)) /\ CfFor(w, l, o) = CfFor(v, l, o)

\* It goes to the CF location that has its name.
NamedAt(v, l, o) == On(v, "loc", l) /\ v[<<"loc", l, "cf">>] = None /\ CfFor(v, l, o) = NamedLike(l)

LEMMA BesideSame ==
  ASSUME NEW v, NEW w, \A c \in MasterCells : w[c] = v[c]
  PROVE  \A t, r : Beside(v, w, t, r)
<1>1. /\ \A k \in Lines : w[<<"txn", k, "party">>] = v[<<"txn", k, "party">>]
      /\ \A k \in Lines, c \in Clerks : w[<<"split", k, c>>] = v[<<"split", k, c>>]
      /\ \A k \in Lines, f \in {"is", "party"} : w[<<"alias", Desc(k), f>>] = v[<<"alias", Desc(k), f>>]
  BY DEF MasterCells
<1>2. \A p \in Parties, f \in {"is", "loc", "cf", "group"} : w[<<"party", p, f>>] = v[<<"party", p, f>>]
  BY DEF MasterCells
<1>3. /\ \A l \in Locations, f \in {"is", "cf"} : w[<<"loc", l, f>>] = v[<<"loc", l, f>>]
      /\ \A c \in CfLocations : w[<<"cf", c, "is">>] = v[<<"cf", c, "is">>]
      /\ \A g \in Groups : w[<<"group", g, "is">>] = v[<<"group", g, "is">>]
  BY DEF MasterCells
<1>4. \A s \in RatioSets, f \in {"is", "lines"} : w[<<"set", s, f>>] = v[<<"set", s, f>>]
  BY DEF MasterCells
<1> QED BY <1>1, <1>2, <1>3, <1>4 DEF Beside

\* Of the cells that are looked at, only those of archived rows change.
LEMMA BesideCells ==
  ASSUME NEW v, NEW w, NEW t \in {"party", "loc", "cf", "group"}, NEW r,
         \A c \in MasterCells : c # <<t, r, "is">> /\ ~(t = "group" /\ \E s \in RatioSets : s[1] = r /\ c = <<"set", s, "is">>)
                                => w[c] = v[c]
  PROVE  Beside(v, w, t, r)
<1>1. /\ \A k \in Lines : w[<<"txn", k, "party">>] = v[<<"txn", k, "party">>]
      /\ \A k \in Lines, c \in Clerks : w[<<"split", k, c>>] = v[<<"split", k, c>>]
      /\ \A k \in Lines, f \in {"is", "party"} : w[<<"alias", Desc(k), f>>] = v[<<"alias", Desc(k), f>>]
  BY DEF MasterCells
<1>2. /\ \A p \in Parties, f \in {"loc", "cf", "group"} : w[<<"party", p, f>>] = v[<<"party", p, f>>]
      /\ \A p \in Parties : t # "party" \/ p # r => w[<<"party", p, "is">>] = v[<<"party", p, "is">>]
  BY DEF MasterCells
<1>3. /\ \A l \in Locations : w[<<"loc", l, "cf">>] = v[<<"loc", l, "cf">>]
      /\ \A l \in Locations : t # "loc" \/ l # r => w[<<"loc", l, "is">>] = v[<<"loc", l, "is">>]
  BY DEF MasterCells
<1>4. /\ \A c \in CfLocations : t # "cf" \/ c # r => w[<<"cf", c, "is">>] = v[<<"cf", c, "is">>]
      /\ \A g \in Groups : t # "group" \/ g # r => w[<<"group", g, "is">>] = v[<<"group", g, "is">>]
  BY DEF MasterCells
<1>5. /\ \A s \in RatioSets : w[<<"set", s, "lines">>] = v[<<"set", s, "lines">>]
      /\ \A s \in RatioSets : t # "group" \/ s[1] # r => w[<<"set", s, "is">>] = v[<<"set", s, "is">>]
  BY DEF MasterCells
<1> QED BY <1>1, <1>2, <1>3, <1>4, <1>5 DEF Beside

\* A request to archive that is answered changes nothing, or archives a row that
\* nothing refers to.
LEMMA ArchiveFrame ==
  ASSUME MastersOK(db), NEW q, q.table \in {"party", "loc", "cf", "group"}, Commit(db, Archive(db, q))
  PROVE  \/ \A t, r : Beside(db, db', t, r)
         \/ On(db, q.table, q.row) /\ ~Used(db, q.table, q.row) /\ Beside(db, db', q.table, q.row)
<1> DEFINE off == Put(q.table, q.row, [is |-> "off"])
           sets == {s \in IF q.table = "group" THEN {s \in RatioSets : s[1] = q.row} ELSE {} : On(db, "set", s)}
           gone == [c \in {<<"set", s, "is">> : s \in sets} |-> "off"]
           both == Over(off, gone)
<1>1. \A writes : Commit(db, writes) => \A c \in MasterCells : c \notin DOMAIN writes => db'[c] = db[c]
  BY Committed DEF MastersOK
<1>2. CASE Archive(db, q) = Refused
  <2>1. \A c \in MasterCells : db'[c] = db[c]
    BY <1>1, <1>2 DEF Refused
  <2> QED BY <2>1, BesideSame
<1>3. CASE Archive(db, q) = both /\ On(db, q.table, q.row) /\ ~Used(db, q.table, q.row)
  <2>1. DOMAIN off = {<<q.table, q.row, "is">>} /\ DOMAIN gone = {<<"set", s, "is">> : s \in sets}
    BY DEF Put
  <2>2. DOMAIN both = DOMAIN off \cup DOMAIN gone
    <3> HIDE DEF off, gone
    <3> QED BY OverCells
  <2>3. \A c \in DOMAIN both : c = <<q.table, q.row, "is">> \/ (q.table = "group" /\ \E s \in RatioSets : s[1] = q.row /\ c = <<"set", s, "is">>)
    <3> HIDE DEF off, gone, both
    <3> QED BY <2>1, <2>2
  <2> HIDE DEF both
  <2>4. \A c \in MasterCells : c \notin DOMAIN both => db'[c] = db[c]
    BY <1>1, <1>3
  <2> QED BY <1>3, <2>3, <2>4, BesideCells
<1>4. Archive(db, q) = Refused \/ (Archive(db, q) = both /\ On(db, q.table, q.row) /\ ~Used(db, q.table, q.row))
  BY Zenon DEF Archive
<1> QED BY <1>2, <1>3, <1>4

\* What nothing refers to, in the words of each table.
LEMMA Unreferred ==
  ASSUME NEW v, NEW t, NEW r, ~Used(v, t, r)
  PROVE  /\ t = "party" => \A k \in Lines : /\ On(v, "alias", Desc(k)) => v[<<"alias", Desc(k), "party">>] # r
                                            /\ On(v, "txn", k) => v[<<"txn", k, "party">>] # r
         /\ t \in {"loc", "cf", "group"} => \A p \in Parties : On(v, "party", p) => v[<<"party", p, t>>] # r
         /\ t = "cf" => \A l \in Locations : On(v, "loc", l) => v[<<"loc", l, "cf">>] # r
         /\ t \in {"loc", "cf"} => \A s \in RatioSets : \A i \in DOMAIN v[<<"set", s, "lines">>] :
                                     v[<<"set", s, "lines">>][i][t] # r
         /\ t \in {"loc", "cf"} => \A k \in Lines : \A i \in DOMAIN Splits(v, k) : Splits(v, k)[i][t] # r
<1>1. CASE t = "party"
  BY <1>1 DEF Used
<1>2. CASE t = "loc"
  BY <1>2 DEF Used
<1>3. CASE t = "cf"
  BY <1>3 DEF Used
<1>4. CASE t = "group"
  BY <1>4 DEF Used
<1> QED BY <1>1, <1>2, <1>3, <1>4

\* A location, and a CF location over it, that are not the archived row.
LEMMA PlaceStays ==
  ASSUME NEW v, NEW w, NEW t, NEW r, MastersOK(v), ~Used(v, t, r), Beside(v, w, t, r),
         NEW l \in OrNone(Locations), NEW o \in OrNone(CfLocations), t = "loc" => l # r, t = "cf" => o # r /\ On(v, "cf", r)
  PROVE  SameAt(v, w, l, o) \/ NamedAt(v, l, o)
<1>1. On(w, "loc", l) <=> On(v, "loc", l)
  BY DEF Beside, On, Is, OrNone
<1>2. \A c \in OrNone(CfLocations) : t # "cf" \/ c # r => (On(w, "cf", c) <=> On(v, "cf", c))
  BY DEF Beside, On, Is, OrNone
<1>3. On(w, "cf", o) <=> On(v, "cf", o)
  BY <1>2
<1>4. CASE On(v, "cf", o) \/ ~On(v, "loc", l)
  BY <1>1, <1>3, <1>4 DEF SameAt, CfFor
<1>5. CASE ~On(v, "cf", o) /\ On(v, "loc", l)
  <2> DEFINE own == v[<<"loc", l, "cf">>]
             cf == IF own # None THEN own ELSE NamedLike(l)
  <2>1. l \in Locations
    BY <1>5 DEF On, OrNone
  <2>2. own \in OrNone(CfLocations) /\ w[<<"loc", l, "cf">>] = own
    <3>1. <<"loc", l, "cf">> \in DOMAIN v
      BY <2>1 DEF MastersOK, MasterCells
    <3>2. own \in OrNone(CfLocations)
      BY <3>1 DEF MastersOK, CellsOK, CellOK
    <3> QED BY <2>1, <3>2 DEF Beside
  <2>3. cf \in OrNone(CfLocations)
    BY <2>1, <2>2, BooksConstants
  <2>4. /\ CfFor(v, l, o) = IF On(v, "cf", cf) THEN cf ELSE None
        /\ CfFor(w, l, o) = IF On(w, "cf", cf) THEN cf ELSE None
    BY <1>1, <1>3, <1>5, <2>2 DEF CfFor
  <2>5. t = "cf" => own # r
    BY <1>5, <2>1, Unreferred
  <2> HIDE DEF own, cf
  <2>6. CASE t # "cf" \/ cf # r
    BY <1>1, <1>2, <2>3, <2>4, <2>6 DEF SameAt
  <2>7. CASE t = "cf" /\ cf = r
    BY <1>5, <2>4, <2>5, <2>7 DEF NamedAt, own, cf
  <2> QED BY <2>6, <2>7
<1> QED BY <1>4, <1>5

\* The rows of a line, when each location goes where it went, and when one goes by
\* its name.
LEMMA RowStays ==
  ASSUME NEW v, NEW w, NEW l, NEW o, SameAt(v, w, l, o)
  PROVE  \A a : Row(w, a, l, o) = Row(v, a, l, o)
<1>1. \/ On(w, "loc", l) /\ On(v, "loc", l)
      \/ ~On(w, "loc", l) /\ ~On(v, "loc", l)
  BY DEF SameAt
<1>2. CfFor(w, l, o) = CfFor(v, l, o)
  BY DEF SameAt
<1> QED BY <1>1, <1>2 DEF Row

LEMMA RowByName ==
  ASSUME NEW v, NEW a, NEW l, NEW o, NamedAt(v, l, o)
  PROVE  /\ v[<<"loc", Row(v, a, l, o).loc, "cf">>] = None
         /\ NamedLike(Row(v, a, l, o).loc) = Row(v, a, l, o).cf
         /\ "no_location" \notin Row(v, a, l, o).issues
  BY DEF Row, NamedAt

LEMMA SplitRowsStay ==
  ASSUME NEW v, NEW w, NEW total, NEW splits, \A i \in 1..Len(splits) : SameAt(v, w, splits[i].loc, splits[i].cf)
  PROVE  SplitRows(w, total, splits) = SplitRows(v, total, splits)
<1> DEFINE placed(x) == [i \in 1..Len(splits) |-> Row(x, splits[i].amount, splits[i].loc, splits[i].cf)]
           Of(all) == IF Sum([i \in 1..Len(all) |-> all[i].amount]) = total THEN all ELSE Flagged(all, "split_mismatch")
<1>1. placed(w) = placed(v)
  BY RowStays
<1>2. SplitRows(w, total, splits) = Of(placed(w)) /\ SplitRows(v, total, splits) = Of(placed(v))
  BY DEF SplitRows
<1> HIDE DEF placed, Of
<1> QED BY <1>1, <1>2

LEMMA SplitRowByName ==
  ASSUME NEW v, NEW total, NEW splits, Len(splits) \in Nat, NEW i \in 1..Len(splits), NamedAt(v, splits[i].loc, splits[i].cf)
  PROVE  LET placed == SplitRows(v, total, splits) IN
         i \in DOMAIN placed /\ v[<<"loc", placed[i].loc, "cf">>] = None /\ NamedLike(placed[i].loc) = placed[i].cf
<1> DEFINE placed == [j \in 1..Len(splits) |-> Row(v, splits[j].amount, splits[j].loc, splits[j].cf)]
           flagged == Flagged(placed, "split_mismatch")
<1>1. /\ i \in DOMAIN placed
      /\ v[<<"loc", placed[i].loc, "cf">>] = None /\ NamedLike(placed[i].loc) = placed[i].cf
      /\ placed[i] = [amount |-> placed[i].amount, loc |-> placed[i].loc, cf |-> placed[i].cf, issues |-> placed[i].issues]
  <2>1. placed[i] = Row(v, splits[i].amount, splits[i].loc, splits[i].cf)
    OBVIOUS
  <2>2. v[<<"loc", placed[i].loc, "cf">>] = None /\ NamedLike(placed[i].loc) = placed[i].cf
    <3> DEFINE row == Row(v, splits[i].amount, splits[i].loc, splits[i].cf)
    <3>1. \A a, l, o : row = Row(v, a, l, o) /\ NamedAt(v, l, o) => v[<<"loc", row.loc, "cf">>] = None /\ NamedLike(row.loc) = row.cf
      <4> HIDE DEF row
      <4> QED BY RowByName
    <3>2. v[<<"loc", row.loc, "cf">>] = None /\ NamedLike(row.loc) = row.cf
      BY Zenon, <3>1
    <3> HIDE DEF row, placed
    <3> QED BY <2>1, <3>2 DEF row
  <2>3. placed[i] = [amount |-> placed[i].amount, loc |-> placed[i].loc, cf |-> placed[i].cf, issues |-> placed[i].issues]
    BY <2>1 DEF Row
  <2> QED BY <2>2, <2>3
<1>2. Len(placed) = Len(splits)
  OBVIOUS
<1> HIDE DEF placed
<1>3. i \in DOMAIN flagged /\ flagged[i].loc = placed[i].loc /\ flagged[i].cf = placed[i].cf
  BY <1>1, <1>2 DEF Flagged
<1>4. SplitRows(v, total, splits) \in {placed, flagged}
  BY DEF SplitRows, placed
<1> HIDE DEF flagged
<1> QED BY <1>1, <1>3, <1>4

LEMMA RatioRowsStay ==
  ASSUME NEW v, NEW w, NEW total, NEW lines, \A i \in 1..Len(lines) : SameAt(v, w, lines[i].loc, lines[i].cf)
  PROVE  RatioRows(w, total, lines) = RatioRows(v, total, lines)
<1> DEFINE shares == SplitEvenly(total, [i \in 1..Len(lines) |-> lines[i].percent])
<1>1. \A i \in 1..Len(lines) : Row(w, shares[i], lines[i].loc, lines[i].cf) = Row(v, shares[i], lines[i].loc, lines[i].cf)
  BY RowStays
<1> HIDE DEF shares
<1>2. [i \in 1..Len(lines) |-> Row(w, shares[i], lines[i].loc, lines[i].cf)]
      = [i \in 1..Len(lines) |-> Row(v, shares[i], lines[i].loc, lines[i].cf)]
  BY <1>1
<1> QED BY <1>2 DEF RatioRows, shares

LEMMA RatioRowByName ==
  ASSUME NEW v, NEW total, NEW lines, \E i \in 1..Len(lines) : NamedAt(v, lines[i].loc, lines[i].cf)
  PROVE  \E i \in DOMAIN RatioRows(v, total, lines) :
           LET row == RatioRows(v, total, lines)[i] IN v[<<"loc", row.loc, "cf">>] = None /\ NamedLike(row.loc) = row.cf
<1> PICK i \in 1..Len(lines) : NamedAt(v, lines[i].loc, lines[i].cf)
  OBVIOUS
<1> DEFINE shares == SplitEvenly(total, [j \in 1..Len(lines) |-> lines[j].percent])
           row == Row(v, shares[i], lines[i].loc, lines[i].cf)
<1>1. i \in DOMAIN RatioRows(v, total, lines) /\ RatioRows(v, total, lines)[i] = row
  BY DEF RatioRows
<1>2. v[<<"loc", row.loc, "cf">>] = None /\ NamedLike(row.loc) = row.cf
  <2>1. \A a, l, o : row = Row(v, a, l, o) /\ NamedAt(v, l, o) => v[<<"loc", row.loc, "cf">>] = None /\ NamedLike(row.loc) = row.cf
    <3> HIDE DEF row
    <3> QED BY RowByName
  <2> QED BY Zenon, <2>1
<1> HIDE DEF row
<1> QED BY <1>1, <1>2

LEMMA PartyRowStays ==
  ASSUME NEW v, NEW w, NEW total, NEW p, SameAt(v, w, v[<<"party", p, "loc">>], v[<<"party", p, "cf">>]),
         w[<<"party", p, "loc">>] = v[<<"party", p, "loc">>], w[<<"party", p, "cf">>] = v[<<"party", p, "cf">>]
  PROVE  PartyRow(w, total, p) = PartyRow(v, total, p)
  BY RowStays DEF PartyRow

LEMMA PartyRowByName ==
  ASSUME NEW v, NEW total, NEW p, NamedAt(v, v[<<"party", p, "loc">>], v[<<"party", p, "cf">>])
  PROVE  LET placed == PartyRow(v, total, p) IN
         1 \in DOMAIN placed /\ v[<<"loc", placed[1].loc, "cf">>] = None /\ NamedLike(placed[1].loc) = placed[1].cf
<1> DEFINE row == Row(v, total, v[<<"party", p, "loc">>], v[<<"party", p, "cf">>])
<1>1. /\ v[<<"loc", row.loc, "cf">>] = None /\ NamedLike(row.loc) = row.cf
      /\ "no_location" \notin row.issues
  BY RowByName
<1>2. PartyRow(v, total, p) = <<IF "no_location" \in row.issues THEN [row EXCEPT !.cf = None] ELSE row>>
  BY DEF PartyRow
<1> HIDE DEF row
<1> QED BY <1>1, <1>2

\* Whose line it is.
LEMMA PartyKnown ==
  ASSUME NEW v, MastersOK(v), NEW k \in Lines
  PROVE  PartyFor(v, k) = None \/ (PartyFor(v, k) \in Parties /\ On(v, "party", PartyFor(v, k)))
<1>1. v[<<"txn", k, "party">>] \in OrNone(Parties) /\ v[<<"alias", Desc(k), "party">>] \in OrNone(Parties)
  <2>1. <<"txn", k, "party">> \in DOMAIN v /\ <<"alias", Desc(k), "party">> \in DOMAIN v
    BY DEF MastersOK, MasterCells
  <2> QED BY <2>1 DEF MastersOK, CellsOK, CellOK
<1>2. \A p \in OrNone(Parties) : On(v, "party", p) => p \in Parties
  BY DEF On, OrNone
<1>3. ~On(v, "party", None)
  BY DEF On
<1> DEFINE typed == v[<<"txn", k, "party">>]
           mapped == IF On(v, "alias", Desc(k)) THEN v[<<"alias", Desc(k), "party">>] ELSE None
<1>4. \/ On(v, "party", typed) /\ PartyFor(v, k) = typed
      \/ On(v, "party", mapped) /\ PartyFor(v, k) = mapped
      \/ PartyFor(v, k) = None
  BY DEF PartyFor
<1>5. typed \in OrNone(Parties) /\ mapped \in OrNone(Parties)
  BY <1>1 DEF OrNone
<1> HIDE DEF typed, mapped
<1> QED BY <1>2, <1>4, <1>5

LEMMA PartyStays ==
  ASSUME NEW v, NEW w, NEW t, NEW r, MastersOK(v), ~Used(v, t, r), Beside(v, w, t, r),
         NEW k \in Lines, On(v, "txn", k)
  PROVE  PartyFor(w, k) = PartyFor(v, k)
<1> DEFINE typed(x) == x[<<"txn", k, "party">>]
           mapped(x) == IF On(x, "alias", Desc(k)) THEN x[<<"alias", Desc(k), "party">>] ELSE None
<1>1. typed(v) \in OrNone(Parties) /\ v[<<"alias", Desc(k), "party">>] \in OrNone(Parties)
  <2>1. <<"txn", k, "party">> \in DOMAIN v /\ <<"alias", Desc(k), "party">> \in DOMAIN v
    BY DEF MastersOK, MasterCells
  <2> QED BY <2>1 DEF MastersOK, CellsOK, CellOK
<1>2. \A p \in OrNone(Parties) : t # "party" \/ p # r => (On(w, "party", p) <=> On(v, "party", p))
  BY DEF Beside, On, Is, OrNone
<1>3. ~On(w, "party", None) /\ ~On(v, "party", None)
  BY DEF On
<1>4. typed(w) = typed(v) /\ mapped(w) = mapped(v)
  BY DEF Beside, On, Is
<1>5. On(w, "party", typed(v)) <=> On(v, "party", typed(v))
  BY <1>1, <1>2, Unreferred
<1>6. On(w, "party", mapped(v)) <=> On(v, "party", mapped(v))
  <2>1. CASE On(v, "alias", Desc(k))
    BY <1>1, <1>2, <2>1, Unreferred
  <2>2. CASE ~On(v, "alias", Desc(k))
    BY <1>3, <2>2
  <2> QED BY <2>1, <2>2
<1>7. \A x : PartyFor(x, k) = CASE On(x, "party", typed(x)) -> typed(x)
                                [] ~On(x, "party", typed(x)) /\ On(x, "party", mapped(x)) -> mapped(x)
                                [] OTHER -> None
  BY Zenon DEF PartyFor
<1> HIDE DEF typed, mapped
<1>8. PartyFor(v, k) = CASE On(v, "party", typed(v)) -> typed(v)
                         [] ~On(v, "party", typed(v)) /\ On(v, "party", mapped(v)) -> mapped(v)
                         [] OTHER -> None
  BY <1>7
<1>9. PartyFor(w, k) = CASE On(w, "party", typed(v)) -> typed(v)
                         [] ~On(w, "party", typed(v)) /\ On(w, "party", mapped(v)) -> mapped(v)
                         [] OTHER -> None
  BY <1>4, <1>7
<1> QED BY <1>5, <1>6, <1>8, <1>9

\* The ratio sets of a group that is not archived.
LEMMA LatestSet ==
  ASSUME NEW S \in SUBSET RatioSets, S # {}, NEW when \in Nat, \A s \in S : s[2] <= when
  PROVE  \E s \in S : \A x \in S : x[2] <= s[2]
<1> DEFINE starts == {s[2] : s \in S}
<1>1. starts \in SUBSET (0..when) /\ starts # {}
  BY BooksConstants
<1>2. Max(starts) \in starts /\ \A y \in starts : y <= Max(starts)
  <2> HIDE DEF starts
  <2> QED BY <1>1, MaxBounded
<1> QED BY <1>2

LEMMA RatioLinesKnown ==
  ASSUME NEW v, NEW g, NEW when \in Nat
  PROVE  RatioLinesFor(v, g, when) = <<>> \/ \E s \in RatioSets : RatioLinesFor(v, g, when) = v[<<"set", s, "lines">>]
<1> DEFINE inForce == {s \in RatioSets : s[1] = g /\ On(v, "set", s) /\ s[2] <= when}
           best == CHOOSE s \in inForce : \A x \in inForce : x[2] <= s[2]
<1>1. RatioLinesFor(v, g, when) = IF inForce = {} THEN <<>> ELSE v[<<"set", best, "lines">>]
  BY Zenon DEF RatioLinesFor
<1>2. inForce # {} => \E s \in inForce : \A x \in inForce : x[2] <= s[2]
  BY LatestSet
<1>3. inForce \subseteq RatioSets
  OBVIOUS
<1> HIDE DEF inForce
<1>4. inForce # {} => best \in RatioSets
  BY <1>2, <1>3
<1> HIDE DEF best
<1> QED BY <1>1, <1>4

LEMMA RatioLinesStay ==
  ASSUME NEW v, NEW w, NEW t, NEW r, Beside(v, w, t, r), NEW g, t = "group" => g # r, NEW when \in Nat
  PROVE  RatioLinesFor(w, g, when) = RatioLinesFor(v, g, when)
<1> DEFINE inForce(x) == {s \in RatioSets : s[1] = g /\ On(x, "set", s) /\ s[2] <= when}
           best(S) == CHOOSE s \in S : \A y \in S : y[2] <= s[2]
<1>1. inForce(w) = inForce(v)
  BY DEF Beside, On, Is
<1>2. \A x : RatioLinesFor(x, g, when) = IF inForce(x) = {} THEN <<>> ELSE x[<<"set", best(inForce(x)), "lines">>]
  BY Zenon DEF RatioLinesFor
<1>3. inForce(v) # {} => \E s \in inForce(v) : \A x \in inForce(v) : x[2] <= s[2]
  BY LatestSet
<1>4. inForce(v) \subseteq RatioSets
  OBVIOUS
<1> HIDE DEF inForce
<1>5. inForce(v) # {} => best(inForce(v)) \in RatioSets
  BY <1>3, <1>4
<1> HIDE DEF best
<1> QED BY <1>1, <1>2, <1>5 DEF Beside

\* What a person typed over a line is a sequence of parts, each clerk's after the other.
LEMMA LeastNumber ==
  ASSUME NEW T \in SUBSET Nat, T # {}
  PROVE  \E x \in T : \A y \in T : x <= y
<1> DEFINE R == OpToRel(<, Nat)
<1>1. \A x, y \in Nat : x < y => <<x, y>> \in R
  BY DEF OpToRel
<1>2. IsWellFoundedOn(R, Nat)
  BY NatLessThanWellFounded
<1> HIDE DEF R
<1>3. PICK x \in T : \A y \in T : ~ (<<y, x>> \in R)
  BY <1>2, WFMin
<1>4. ASSUME NEW y \in T PROVE x <= y
  <2>1. ~ (y < x)
    BY <1>1, <1>3
  <2> QED BY <2>1
<1> QED BY <1>4

LEMMA ClerksListed ==
  /\ Cardinality(Clerks) \in Nat
  /\ SetToSeq(Clerks) \in [1..Cardinality(Clerks) -> Clerks]
<1> DEFINE n == Cardinality(Clerks)
<1>1. n \in Nat /\ ExistsBijection(1..n, Clerks)
  BY BooksConstants, FS_CardinalityType
<1>2. \E f \in [1..n -> Clerks] : IsInjective(f)
  BY <1>1 DEF ExistsBijection, Bijection, Injection
<1>3. SetToSeq(Clerks) = CHOOSE f \in [1..n -> Clerks] : IsInjective(f)
  BY DEF SetToSeq
<1> HIDE DEF n
<1>4. SetToSeq(Clerks) \in [1..n -> Clerks]
  BY <1>2, <1>3
<1> QED BY <1>1, <1>4 DEF n

\* f puts the first m of the sequences after each other.
Flattens(f, seqs, m) == f = [i \in 1..m |-> IF i = 1 THEN seqs[i] ELSE f[i - 1] \o seqs[i]]

LEMMA Flattening ==
  ASSUME NEW seqs, NEW n \in Nat, Len(seqs) = n, NEW S, \A i \in 1..n : seqs[i] \in Seq(S)
  PROVE  \A m \in 0..n : \E f : Flattens(f, seqs, m) /\ \A i \in 1..m : f[i] \in Seq(S)
<1> DEFINE P(m) == \E f : Flattens(f, seqs, m) /\ \A i \in 1..m : f[i] \in Seq(S)
           T == {m \in 0..n : ~P(m)}
<1>1. P(0)
  <2> DEFINE f == [i \in 1..0 |-> seqs[i]]
  <2>1. Flattens(f, seqs, 0)
    BY DEF Flattens
  <2>2. \A i \in 1..0 : f[i] \in Seq(S)
    OBVIOUS
  <2> HIDE DEF f
  <2> QED BY <2>1, <2>2
<1>2. ASSUME NEW m \in 1..n, P(m - 1) PROVE P(m)
  <2>1. PICK f : Flattens(f, seqs, m - 1) /\ \A i \in 1..m - 1 : f[i] \in Seq(S)
    BY <1>2
  <2> DEFINE last == IF m = 1 THEN seqs[m] ELSE f[m - 1] \o seqs[m]
             g == [i \in 1..m |-> IF i = m THEN last ELSE f[i]]
  <2>2. last \in Seq(S)
    <3>1. CASE m = 1
      BY <3>1
    <3>2. CASE m # 1
      <4>1. f[m - 1] \in Seq(S) /\ seqs[m] \in Seq(S)
        BY <2>1, <3>2
      <4> QED BY <3>2, <4>1
    <3> QED BY <3>1, <3>2
  <2>3. \A i \in 1..m - 1 : f[i] = IF i = 1 THEN seqs[i] ELSE f[i - 1] \o seqs[i]
    <3> DEFINE h == [i \in 1..m - 1 |-> IF i = 1 THEN seqs[i] ELSE f[i - 1] \o seqs[i]]
    <3>1. \A i \in 1..m - 1 : h[i] = IF i = 1 THEN seqs[i] ELSE f[i - 1] \o seqs[i]
      OBVIOUS
    <3>2. f = h
      BY <2>1 DEF Flattens
    <3> HIDE DEF h
    <3> QED BY <3>1, <3>2
  <2>4. \A i \in 1..m : g[i] = IF i = 1 THEN seqs[i] ELSE g[i - 1] \o seqs[i]
    <3> SUFFICES ASSUME NEW i \in 1..m PROVE g[i] = IF i = 1 THEN seqs[i] ELSE g[i - 1] \o seqs[i]
      OBVIOUS
    <3>1. i # 1 => g[i - 1] = f[i - 1]
      OBVIOUS
    <3>2. CASE i = m
      BY <3>1, <3>2
    <3>3. CASE i # m
      <4>1. g[i] = f[i] /\ i \in 1..m - 1
        BY <3>3
      <4> HIDE DEF g
      <4> QED BY <2>3, <3>1, <4>1
    <3> QED BY <3>2, <3>3
  <2>5. Flattens(g, seqs, m)
    <3>1. DOMAIN g = 1..m /\ g = [i \in 1..m |-> g[i]]
      OBVIOUS
    <3> HIDE DEF g
    <3> QED BY <2>4, <3>1 DEF Flattens
  <2>6. \A i \in 1..m : g[i] \in Seq(S)
    <3> HIDE DEF last
    <3> QED BY <2>1, <2>2
  <2> HIDE DEF g
  <2> QED BY <2>5, <2>6
<1> HIDE DEF P
<1>3. T = {}
  <2> SUFFICES ASSUME T # {} PROVE FALSE
    OBVIOUS
  <2>1. T \in SUBSET Nat
    OBVIOUS
  <2>2. PICK x \in T : \A y \in T : x <= y
    <3> HIDE DEF T
    <3> QED BY <2>1, LeastNumber
  <2>3. x \in 0..n /\ ~P(x)
    OBVIOUS
  <2>4. CASE x = 0
    BY <1>1, <2>3, <2>4
  <2>5. CASE x # 0
    <3>1. x - 1 \in 0..n /\ x \in 1..n
      BY <2>3, <2>5
    <3>2. x - 1 \notin T
      <4> HIDE DEF T
      <4> QED BY <2>2, <2>3
    <3>3. P(x - 1)
      BY <3>1, <3>2
    <3> QED BY <1>2, <2>3, <3>1, <3>3
  <2> QED BY <2>4, <2>5
<1>4. \A m \in 0..n : P(m)
  BY <1>3
<1> QED BY <1>4 DEF P

LEMMA FlattenSeqs ==
  ASSUME NEW seqs, NEW n \in Nat, Len(seqs) = n, NEW S, \A i \in 1..n : seqs[i] \in Seq(S), n = 0 => seqs = <<>>
  PROVE  FlattenSeq(seqs) \in Seq(S)
<1>1. CASE n = 0
  BY <1>1 DEF FlattenSeq
<1>2. CASE n # 0
  <2> DEFINE flatten == CHOOSE f : f = [i \in 1..n |-> IF i = 1 THEN seqs[i] ELSE f[i - 1] \o seqs[i]]
             T == {i \in 1..n : flatten[i] \notin Seq(S)}
  <2>1. FlattenSeq(seqs) = flatten[n]
    BY <1>2 DEF FlattenSeq
  <2>2. flatten = [i \in 1..n |-> IF i = 1 THEN seqs[i] ELSE flatten[i - 1] \o seqs[i]]
    <3>1. \E f : Flattens(f, seqs, n)
      BY Flattening
    <3> QED BY <3>1 DEF Flattens
  <2> HIDE DEF flatten
  <2>3. \A i \in 1..n : flatten[i] = IF i = 1 THEN seqs[i] ELSE flatten[i - 1] \o seqs[i]
    <3> DEFINE h == [i \in 1..n |-> IF i = 1 THEN seqs[i] ELSE flatten[i - 1] \o seqs[i]]
    <3>1. \A i \in 1..n : h[i] = IF i = 1 THEN seqs[i] ELSE flatten[i - 1] \o seqs[i]
      OBVIOUS
    <3>2. flatten = h
      BY <2>2
    <3> HIDE DEF h
    <3> QED BY <3>1, <3>2
  <2>4. T = {}
    <3> SUFFICES ASSUME T # {} PROVE FALSE
      OBVIOUS
    <3>1. T \in SUBSET Nat
      OBVIOUS
    <3>2. PICK x \in T : \A y \in T : x <= y
      <4> HIDE DEF T
      <4> QED BY <3>1, LeastNumber
    <3>3. x \in 1..n /\ flatten[x] \notin Seq(S)
      OBVIOUS
    <3>4. CASE x = 1
      BY <2>3, <3>3, <3>4
    <3>5. CASE x # 1
      <4>1. x - 1 \in 1..n /\ x - 1 \notin T
        <5> HIDE DEF T
        <5> QED BY <3>2, <3>3, <3>5
      <4>2. flatten[x - 1] \in Seq(S) /\ seqs[x] \in Seq(S)
        BY <3>3, <4>1
      <4>3. \A a, b \in Seq(S) : a \o b \in Seq(S)
        OBVIOUS
      <4>4. flatten[x] = flatten[x - 1] \o seqs[x]
        BY <2>3, <3>3, <3>5
      <4> QED BY <3>3, <4>2, <4>3, <4>4
    <3> QED BY <3>4, <3>5
  <2>5. flatten[n] \in Seq(S)
    BY <1>2, <2>4
  <2> QED BY <2>1, <2>5
<1> QED BY <1>1, <1>2

LEMMA SplitsTyped == ASSUME NEW v, MastersOK(v), NEW k \in Lines PROVE Splits(v, k) \in Typed
<1> DEFINE typists == SetToSeq(Clerks)
           n == Cardinality(Clerks)
           seqs == [i \in DOMAIN typists |-> v[<<"split", k, typists[i]>>]]
           Part == [loc : Locations, cf : OrNone(CfLocations), amount : Int]
<1>1. n \in Nat /\ typists \in [1..n -> Clerks]
  BY ClerksListed
<1> HIDE DEF typists, n
<1>2. DOMAIN seqs = 1..n /\ Len(seqs) = n /\ (n = 0 => seqs = <<>>)
  <2>1. seqs = [i \in 1..n |-> v[<<"split", k, typists[i]>>]]
    BY <1>1
  <2> QED BY <1>1, <2>1
<1>3. \A i \in 1..n : seqs[i] \in Seq(Part)
  <2> SUFFICES ASSUME NEW i \in 1..n PROVE v[<<"split", k, typists[i]>>] \in Seq(Part)
    BY <1>1
  <2>1. <<"split", k, typists[i]>> \in DOMAIN v
    BY <1>1 DEF MastersOK, MasterCells
  <2>2. CellOK(<<"split", k, typists[i]>>, v[<<"split", k, typists[i]>>])
    BY <2>1 DEF MastersOK, CellsOK
  <2> QED BY <2>2 DEF CellOK, Typed
<1>4. Splits(v, k) = FlattenSeq(seqs)
  BY DEF Splits, typists
<1> HIDE DEF seqs, Part
<1>5. FlattenSeq(seqs) \in Seq(Part)
  BY <1>1, <1>2, <1>3, FlattenSeqs
<1> QED BY <1>4, <1>5 DEF Typed, Part

LEMMA SplitsStay ==
  ASSUME NEW v, NEW w, NEW t, NEW r, Beside(v, w, t, r), NEW k \in Lines
  PROVE  Splits(w, k) = Splits(v, k)
<1> DEFINE typists == SetToSeq(Clerks)
           seqs(x) == [i \in DOMAIN typists |-> x[<<"split", k, typists[i]>>]]
<1>1. \A i \in DOMAIN typists : typists[i] \in Clerks
  BY ClerksListed
<1> HIDE DEF typists
<1>2. seqs(w) = seqs(v)
  BY <1>1 DEF Beside
<1>3. Splits(w, k) = FlattenSeq(seqs(w)) /\ Splits(v, k) = FlattenSeq(seqs(v))
  BY DEF Splits, typists
<1> HIDE DEF seqs
<1> QED BY <1>2, <1>3

LEMMA PartsOf == ASSUME NEW S, NEW s \in Seq(S) PROVE DOMAIN s = 1..Len(s) /\ \A i \in DOMAIN s : s[i] \in S
  OBVIOUS

\* The rows of a line while a master that nothing refers to is archived.
LEMMA AllocationStays ==
  ASSUME NEW v, NEW w, NEW t \in {"party", "loc", "cf", "group", "none"}, NEW r, MastersOK(v), ~Used(v, t, r),
         Beside(v, w, t, r), t = "cf" => On(v, "cf", r), NEW k \in Lines, On(v, "txn", k)
  PROVE  Allocate(w, k) = Allocate(v, k) \/ ByName(v, k)
<1> DEFINE p == PartyFor(v, k)
           group == v[<<"party", p, "group">>]
           lines == RatioLinesFor(v, group, Date(k))
           splits == Splits(v, k)
<1>1. PartyFor(w, k) = p /\ Splits(w, k) = splits
  BY PartyStays, SplitsStay
<1>2. p = None \/ (p \in Parties /\ On(v, "party", p))
  BY PartyKnown
<1>3. splits \in Typed
  BY SplitsTyped
<1>4. p # None => /\ \A f \in {"loc", "cf", "group"} : w[<<"party", p, f>>] = v[<<"party", p, f>>]
                  /\ t \in {"loc", "cf", "group"} => v[<<"party", p, t>>] # r
                  /\ v[<<"party", p, "loc">>] \in OrNone(Locations) /\ v[<<"party", p, "cf">>] \in OrNone(CfLocations)
                  /\ group \in OrNone(Groups)
  <2> SUFFICES ASSUME p # None
               PROVE  /\ \A f \in {"loc", "cf", "group"} : w[<<"party", p, f>>] = v[<<"party", p, f>>]
                      /\ t \in {"loc", "cf", "group"} => v[<<"party", p, t>>] # r
                      /\ v[<<"party", p, "loc">>] \in OrNone(Locations) /\ v[<<"party", p, "cf">>] \in OrNone(CfLocations)
                      /\ group \in OrNone(Groups)
    OBVIOUS
  <2>1. p \in Parties /\ On(v, "party", p)
    BY <1>2
  <2> HIDE DEF p
  <2>2. \A f \in {"loc", "cf", "group"} : <<"party", p, f>> \in DOMAIN v
    BY <2>1 DEF MastersOK, MasterCells
  <2>3. CellOK(<<"party", p, "loc">>, v[<<"party", p, "loc">>]) /\ CellOK(<<"party", p, "cf">>, v[<<"party", p, "cf">>])
        /\ CellOK(<<"party", p, "group">>, group)
    BY <2>2 DEF MastersOK, CellsOK
  <2>4. v[<<"party", p, "loc">>] \in OrNone(Locations) /\ v[<<"party", p, "cf">>] \in OrNone(CfLocations)
        /\ group \in OrNone(Groups)
    BY <2>3 DEF CellOK
  <2> QED BY <2>1, <2>4, Unreferred DEF Beside
<1>5. t = "group" /\ p # None => group # r
  BY <1>4
<1>6. p # None => (On(w, "group", group) <=> On(v, "group", group))
  <2> HIDE DEF p
  <2> QED BY <1>4, <1>5 DEF Beside, On, Is, OrNone
<1>7. p # None => RatioLinesFor(w, group, Date(k)) = lines
  <2> HIDE DEF group
  <2> QED BY <1>5, RatioLinesStay, BooksConstants
<1>8. t \in {"loc", "cf"} => \A i \in DOMAIN lines : lines[i][t] # r
  <2> HIDE DEF group
  <2>1. lines = <<>> \/ \E s \in RatioSets : lines = v[<<"set", s, "lines">>]
    BY RatioLinesKnown, BooksConstants
  <2> HIDE DEF lines
  <2>2. CASE lines = <<>>
    BY <2>2
  <2>3. CASE \E s \in RatioSets : lines = v[<<"set", s, "lines">>]
    BY <2>3, Unreferred
  <2> QED BY <2>1, <2>2, <2>3
<1>9. lines \in Ratios
  <2> HIDE DEF group
  <2>1. lines = <<>> \/ \E s \in RatioSets : lines = v[<<"set", s, "lines">>]
    BY RatioLinesKnown, BooksConstants
  <2>2. \A s \in RatioSets : v[<<"set", s, "lines">>] \in Ratios
    <3>1. \A s \in RatioSets : <<"set", s, "lines">> \in DOMAIN v
      BY DEF MastersOK, MasterCells
    <3> QED BY <3>1 DEF MastersOK, CellsOK, CellOK
  <2> HIDE DEF lines
  <2>3. <<>> \in Ratios
    BY DEF Ratios
  <2> QED BY <2>1, <2>2, <2>3
<1>10. \A x : Allocate(x, k) =
         CASE Splits(x, k) # <<>> -> SplitRows(x, Amount(k), Splits(x, k))
           [] Splits(x, k) = <<>> /\ PartyFor(x, k) = None -> Unplaced(Amount(k), "no_party")
           [] Splits(x, k) = <<>> /\ PartyFor(x, k) # None /\ On(x, "group", x[<<"party", PartyFor(x, k), "group">>]) ->
                IF RatioLinesFor(x, x[<<"party", PartyFor(x, k), "group">>], Date(k)) = <<>> THEN Unplaced(Amount(k), "no_ratio")
                ELSE RatioRows(x, Amount(k), RatioLinesFor(x, x[<<"party", PartyFor(x, k), "group">>], Date(k)))
           [] OTHER -> PartyRow(x, Amount(k), PartyFor(x, k))
  BY Zenon DEF Allocate
<1>11. /\ splits # <<>> => Allocate(v, k) = SplitRows(v, Amount(k), splits) /\ Allocate(w, k) = SplitRows(w, Amount(k), splits)
       /\ splits = <<>> /\ p = None => Allocate(w, k) = Allocate(v, k)
       /\ splits = <<>> /\ p # None /\ On(v, "group", group) /\ lines = <<>> => Allocate(w, k) = Allocate(v, k)
       /\ splits = <<>> /\ p # None /\ On(v, "group", group) /\ lines # <<>> =>
            Allocate(v, k) = RatioRows(v, Amount(k), lines) /\ Allocate(w, k) = RatioRows(w, Amount(k), lines)
       /\ splits = <<>> /\ p # None /\ ~On(v, "group", group) =>
            Allocate(v, k) = PartyRow(v, Amount(k), p) /\ Allocate(w, k) = PartyRow(w, Amount(k), p)
  <2>1. p # None => w[<<"party", p, "group">>] = group
    BY <1>4
  <2> DEFINE av == Allocate(v, k)
             aw == Allocate(w, k)
  <2>2. av = CASE splits # <<>> -> SplitRows(v, Amount(k), splits)
               [] splits = <<>> /\ p = None -> Unplaced(Amount(k), "no_party")
               [] splits = <<>> /\ p # None /\ On(v, "group", group) ->
                    IF lines = <<>> THEN Unplaced(Amount(k), "no_ratio") ELSE RatioRows(v, Amount(k), lines)
               [] OTHER -> PartyRow(v, Amount(k), p)
    BY Zenon, <1>10
  <2> DEFINE sw == Splits(w, k)
             pw == PartyFor(w, k)
             gw == w[<<"party", pw, "group">>]
             lw == RatioLinesFor(w, gw, Date(k))
  <2>3. aw = CASE sw # <<>> -> SplitRows(w, Amount(k), sw)
               [] sw = <<>> /\ pw = None -> Unplaced(Amount(k), "no_party")
               [] sw = <<>> /\ pw # None /\ On(w, "group", gw) ->
                    IF lw = <<>> THEN Unplaced(Amount(k), "no_ratio") ELSE RatioRows(w, Amount(k), lw)
               [] OTHER -> PartyRow(w, Amount(k), pw)
    BY Zenon, <1>10
  <2>4. sw = splits /\ pw = p /\ (p # None => gw = group /\ lw = lines)
    BY <1>1, <1>7, <2>1
  <2> HIDE DEF av, aw, sw, pw, gw, lw, splits, p, group, lines
  <2> SUFFICES /\ splits # <<>> => av = SplitRows(v, Amount(k), splits) /\ aw = SplitRows(w, Amount(k), splits)
               /\ splits = <<>> /\ p = None => aw = av
               /\ splits = <<>> /\ p # None /\ On(v, "group", group) /\ lines = <<>> => aw = av
               /\ splits = <<>> /\ p # None /\ On(v, "group", group) /\ lines # <<>> =>
                    av = RatioRows(v, Amount(k), lines) /\ aw = RatioRows(w, Amount(k), lines)
               /\ splits = <<>> /\ p # None /\ ~On(v, "group", group) =>
                    av = PartyRow(v, Amount(k), p) /\ aw = PartyRow(w, Amount(k), p)
    BY DEF av, aw
  <2> QED BY <1>6, <2>2, <2>3, <2>4
<1> HIDE DEF lines, group
<1>12. CASE splits # <<>>
  <2>1. \A i \in 1..Len(splits) : /\ splits[i].loc \in OrNone(Locations) /\ splits[i].cf \in OrNone(CfLocations)
                                  /\ t = "loc" => splits[i].loc # r
                                  /\ t = "cf" => splits[i].cf # r
    <3>1. \A i \in DOMAIN splits : splits[i] \in [loc : Locations, cf : OrNone(CfLocations), amount : Int] /\ DOMAIN splits = 1..Len(splits)
      <4> HIDE DEF splits
      <4> QED BY <1>3, PartsOf DEF Typed
    <3>2. t \in {"loc", "cf"} => \A i \in DOMAIN splits : splits[i][t] # r
      BY Unreferred
    <3> HIDE DEF splits
    <3> QED BY <3>1, <3>2 DEF OrNone
  <2>2. Len(splits) \in Nat
    <3> HIDE DEF splits
    <3> QED BY <1>3 DEF Typed
  <2> HIDE DEF splits, p
  <2>3. \A i \in 1..Len(splits) : SameAt(v, w, splits[i].loc, splits[i].cf) \/ NamedAt(v, splits[i].loc, splits[i].cf)
    BY <2>1, PlaceStays
  <2>4. CASE \A i \in 1..Len(splits) : SameAt(v, w, splits[i].loc, splits[i].cf)
    BY <1>11, <1>12, <2>4, SplitRowsStay
  <2>5. CASE \E i \in 1..Len(splits) : NamedAt(v, splits[i].loc, splits[i].cf)
    <3>1. PICK i \in 1..Len(splits) : NamedAt(v, splits[i].loc, splits[i].cf)
      BY <2>5
    <3> DEFINE placed == SplitRows(v, Amount(k), splits)
    <3>2. i \in DOMAIN placed /\ v[<<"loc", placed[i].loc, "cf">>] = None /\ NamedLike(placed[i].loc) = placed[i].cf
      BY <2>2, <3>1, SplitRowByName
    <3> QED BY <1>11, <1>12, <3>2 DEF ByName
  <2> QED BY <2>3, <2>4, <2>5
<1>13. CASE splits = <<>> /\ p # None /\ On(v, "group", group) /\ lines # <<>>
  <2>1. \A i \in 1..Len(lines) : /\ lines[i].loc \in OrNone(Locations) /\ lines[i].cf \in OrNone(CfLocations)
                                 /\ t = "loc" => lines[i].loc # r
                                 /\ t = "cf" => lines[i].cf # r
    <3>1. \A i \in DOMAIN lines : lines[i] \in [loc : Locations, cf : OrNone(CfLocations), percent : Int] /\ DOMAIN lines = 1..Len(lines)
      BY <1>9, PartsOf DEF Ratios
    <3> QED BY <1>8, <3>1 DEF OrNone
  <2> HIDE DEF splits, p
  <2>2. \A i \in 1..Len(lines) : SameAt(v, w, lines[i].loc, lines[i].cf) \/ NamedAt(v, lines[i].loc, lines[i].cf)
    BY <2>1, PlaceStays
  <2>3. CASE \A i \in 1..Len(lines) : SameAt(v, w, lines[i].loc, lines[i].cf)
    BY <1>11, <1>13, <2>3, RatioRowsStay
  <2>4. CASE \E i \in 1..Len(lines) : NamedAt(v, lines[i].loc, lines[i].cf)
    <3> DEFINE placed == RatioRows(v, Amount(k), lines)
    <3>1. \E i \in DOMAIN placed : v[<<"loc", placed[i].loc, "cf">>] = None /\ NamedLike(placed[i].loc) = placed[i].cf
      BY <2>4, RatioRowByName
    <3> QED BY <1>11, <1>13, <3>1 DEF ByName
  <2> QED BY <2>2, <2>3, <2>4
<1>14. CASE splits = <<>> /\ p # None /\ ~On(v, "group", group)
  <2> DEFINE l == v[<<"party", p, "loc">>]
             o == v[<<"party", p, "cf">>]
  <2> HIDE DEF splits, p
  <2>1. SameAt(v, w, l, o) \/ NamedAt(v, l, o)
    <3>1. l \in OrNone(Locations) /\ o \in OrNone(CfLocations) /\ (t = "loc" => l # r) /\ (t = "cf" => o # r)
      BY <1>4, <1>14
    <3> HIDE DEF l, o
    <3> QED BY <3>1, PlaceStays
  <2>2. CASE SameAt(v, w, l, o)
    BY <1>4, <1>11, <1>14, <2>2, PartyRowStays
  <2>3. CASE NamedAt(v, l, o)
    <3> DEFINE placed == PartyRow(v, Amount(k), p)
    <3>1. 1 \in DOMAIN placed /\ v[<<"loc", placed[1].loc, "cf">>] = None /\ NamedLike(placed[1].loc) = placed[1].cf
      BY <2>3, PartyRowByName
    <3> QED BY <1>11, <1>14, <3>1 DEF ByName
  <2> QED BY <2>1, <2>2, <2>3
<1> HIDE DEF splits, p
<1> QED BY <1>11, <1>12, <1>13, <1>14

LEMMA ArchiveKeepsPlaces ==
  ASSUME BooksInductive, MastersInductive, NEW c \in Clerks, Answer(c), desk[c].ask.op = "archive",
         desk[c].ask.table \in {"party", "loc", "cf", "group"}, desk[c].view = db, NEW k \in Active(db)
  PROVE  Allocate(db', k) = Allocate(db, k) \/ ByName(db, k)
<1> DEFINE q == desk[c].ask
<1>1. MastersOK(db) /\ q.table \in {"party", "loc", "cf", "group"}
  BY DEF MastersInductive
<1>2. k \in Lines /\ On(db, "txn", k)
  BY BooksConstants DEF Active, On
<1>3. Writes(desk[c].view, desk[c].ask, c) = Archive(db, q)
  BY DEF Writes
<1>4. UNCHANGED db \/ Commit(db, Archive(db, q))
  <2> HIDE DEF q
  <2> QED BY <1>3 DEF Answer
<1> HIDE DEF q
<1>5. CASE UNCHANGED db
  BY <1>5
<1>6. CASE Commit(db, Archive(db, q))
  <2>1. \/ \A t, r : Beside(db, db', t, r)
        \/ On(db, q.table, q.row) /\ ~Used(db, q.table, q.row) /\ Beside(db, db', q.table, q.row)
    BY <1>1, <1>6, ArchiveFrame
  <2>2. ~Used(db, "none", None)
    BY DEF Used
  <2>3. CASE \A t, r : Beside(db, db', t, r)
    BY <1>1, <1>2, <2>2, <2>3, AllocationStays
  <2>4. CASE On(db, q.table, q.row) /\ ~Used(db, q.table, q.row) /\ Beside(db, db', q.table, q.row)
    <3>1. q.table = "cf" => On(db, "cf", q.row)
      BY <2>4
    <3> QED BY <1>1, <1>2, <2>4, <3>1, AllocationStays
  <2> QED BY <2>1, <2>3, <2>4
<1> QED BY <1>4, <1>5, <1>6

-----------------------------------------------------------------------------
(* The theorems. *)

\* Every step of the desk is a step of one tool, or none of it.
LEMMA DeskStep == ASSUME [Next]_desks PROVE [StoreNext]_mappings /\ [BuildNext]_build /\ [BooksNext]_books
<1>1. CASE Next
  BY <1>1 DEF Next, mappings, build, books
<1>2. CASE UNCHANGED desks
  BY <1>2 DEF desks, mappings, build, books
<1> QED BY <1>1, <1>2

\* A mail is made from queries that came to their end, a build is recorded as
\* cancelled only if the user cancelled it, and no query outlasts its build but
\* those that may: whatever the slices, the batches and what fails.
THEOREM MailsAreHonest == Spec => []BuildIsHonest
<1>1. Init => BuildInductive
  BY BuildStart DEF Init
<1>2. BuildInductive /\ [Next]_desks => BuildInductive'
  BY DeskStep, BuildStep
<1>3. BuildInductive => BuildIsHonest
  BY OverIsHonest
<1> QED BY <1>1, <1>2, <1>3, PTL DEF Spec

\* What users made of the mappings stays, as far as it is protected: a request
\* changes the row it names and no other, a start only adds rows, a report leaves
\* alone every row but the one it saves and every creator that was active when it
\* read the map, and the list of excluded POs is as its users and the seed left it
\* while no two of them save it at once.
THEOREM MappingsStay == Spec => MappingsKept
<1>1. Init => StoreInductive
  BY StoreStart DEF Init
<1>2. StoreInductive /\ [Next]_desks => StoreInductive'
  BY DeskStep, StoreStep
<1>3. StoreInductive /\ [Next]_desks => [ListIsTold' /\ EditsKept]_mappings
  <2>1. ASSUME StoreInductive, [Next]_desks PROVE ListIsTold' /\ EditsKept
    BY <2>1, <1>2, EditsAreKept DEF StoreInductive
  <2> QED BY <2>1
<1> QED BY <1>1, <1>2, <1>3, PTL DEF Spec, MappingsKept

\* Overlapping statements store each bank line once, whatever files, jobs and
\* removals came in between, and a line is out of the books only if a statement that
\* holds it was removed: whatever the statements, and whatever users ask meanwhile.
THEOREM LinesStay == Spec => []LinesKept
<1>1. Init => BooksInductive
  BY BooksBegin DEF Init
<1>2. BooksInductive /\ [Next]_desks => BooksInductive'
  BY DeskStep, BooksStep
<1>3. BooksInductive => LinesKept
  BY KeptAreTheMost DEF LinesKept, BooksInductive, BooksKept, Bases
<1> QED BY <1>1, <1>2, <1>3, PTL DEF Spec

\* Archiving a name, a location, a CF location or a group that nobody edits at the
\* same time takes no line out of its place; only a line that is placed by its
\* location's name follows a CF location that was never referred to.
THEOREM ArchivingUnplacesNothing == Spec => ArchiveUnplacesNothing
<1>1. Init => BooksInductive /\ MastersInductive
  BY BooksBegin, MastersBegin DEF Init
<1>2. BooksInductive /\ MastersInductive /\ [Next]_desks => (BooksInductive /\ MastersInductive)'
  <2>1. ASSUME BooksInductive, MastersInductive, [Next]_desks PROVE BooksInductive' /\ MastersInductive'
    BY <2>1, DeskStep, BooksStep, MastersStep
  <2> QED BY <2>1
<1>3. BooksInductive /\ MastersInductive =>
        [\A c \in Clerks :
           (/\ Answer(c) /\ desk[c].ask.op = "archive" /\ desk[c].ask.table \in {"party", "loc", "cf", "group"}
            /\ desk[c].view = db) =>
           \A k \in Active(db) : HasIssue(db', k) => HasIssue(db, k) \/ ByName(db, k)]_books
  <2>1. ASSUME BooksInductive, MastersInductive, NEW c \in Clerks, Answer(c), desk[c].ask.op = "archive",
               desk[c].ask.table \in {"party", "loc", "cf", "group"}, desk[c].view = db, NEW k \in Active(db),
               HasIssue(db', k)
        PROVE  HasIssue(db, k) \/ ByName(db, k)
    BY <2>1, ArchiveKeepsPlaces DEF HasIssue
  <2> QED BY <2>1
<1> QED BY <1>1, <1>2, <1>3, PTL DEF Spec, ArchiveUnplacesNothing
=============================================================================
