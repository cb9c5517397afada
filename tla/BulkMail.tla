------------------------------ MODULE BulkMail ------------------------------
(***************************************************************************)
(* The mails to Ultrafine's customers and executives: a preview is built   *)
(* from uploads and saved addresses, a user looks at it, and a job sends   *)
(* it one message at a time (routers/ultrafine_payment_reminder.py,        *)
(* ultrafine_balance_confirmation.py, ultrafine_fse_reminder.py and their  *)
(* services; ultrafine_fse_reminder/processor.py plans from the sheet).    *)
(***************************************************************************)
EXTENDS Integers, Sequences, FiniteSets, SequencesExt, FiniteSetsExt, TLC

CONSTANTS
  NamesIn,       \* [what an FSE cell holds -> the sequence of names it lists]
  Mailbox,       \* [address as it is written -> its mailbox]
  StandingCc,    \* sequence: Cc of every reminder
  BroadcastCc,   \* sequence: Cc of the broadcast
  NoAddress,
  Sends,          \* send jobs that may be submitted
  Caseless(_),    \* a name without regard to case
  Trimmed(_),     \* a cell's text without blanks around it
  Invalid,        \* addresses of no valid syntax
  BulkScenarios,  \* [tool, customers, upload, saved, sheet, pdfs, edits, typed, lossy, faults]
  NoFile

VARIABLES
  bulk,      \* the scenario; its faults are used up
  saved,     \* the active rows of the address table: [name -> [to, cc]], or of addresses for executives
  sender,    \* the user has a sender configured
  proposal,  \* the preview job and its result
  batch,     \* the send jobs
  pdfs,      \* uploaded PDFs that are still there
  left,      \* what SMTP has taken: a sequence of [batch, key, to, cc, pdf]
  history    \* the application's send history

bulkMail == <<bulk, saved, sender, proposal, batch, pdfs, left, history>>

Nowhere == [to |-> {}, cc |-> {}]
NoBatch == [state |-> "none", kind |-> "customers", rows |-> <<>>, at |-> 0, report |-> <<>>, stop |-> FALSE]
Ended == {"done", "error", "cancelled", "lost"}

-----------------------------------------------------------------------------
(* The plan of the executives' reminders: which rows of the tracker sheet  *)
(* count, whom each reminder and the broadcast are addressed to, and what  *)
(* they add up to.                                                         *)

\* A row: [kind |-> "party" | "total" | "grand", fse, target, received, short].
\* read_coll_vs_target: everything above the grand total that names an
\* executive and a party, and is no subtotal.
Details(sheet) ==
  LET grand == {i \in DOMAIN sheet : sheet[i].kind = "grand"}
      above == IF grand = {} THEN sheet
               ELSE SubSeq(sheet, 1, (CHOOSE i \in grand : \A j \in grand : i <= j) - 1)
  IN SelectSeq(above, LAMBDA r : r.kind = "party" /\ r.fse # "")

Sum(details, Figure(_)) == FoldLeft(LAMBDA sum, r : sum + Figure(r), 0, details)
CellFigures(details) ==
  [target |-> Sum(details, LAMBDA r : r.target), received |-> Sum(details, LAMBDA r : r.received),
   short |-> Sum(details, LAMBDA r : r.short)]
Group(details, fse) == SelectSeq(details, LAMBDA r : r.fse = fse)

-----------------------------------------------------------------------------
(* Addresses.  Case is the only way two spellings without a name differ.   *)

Saved(mapping, name) == IF name \in DOMAIN mapping THEN mapping[name] ELSE NoAddress

\* The first of those with one Key(_).
Firsts(list, Key(_)) ==
  FoldLeft(LAMBDA kept, a : IF \E i \in DOMAIN kept : Key(kept[i]) = Key(a) THEN kept ELSE Append(kept, a), <<>>, list)

\* resolve_recipients: the cell as a whole, else each of the names in it.
Resolved(mapping, fse) ==
  CASE Saved(mapping, fse) # NoAddress -> <<Saved(mapping, fse)>>
    [] Saved(mapping, fse) = NoAddress /\ Len(NamesIn[fse]) > 1 ->
         Firsts(SelectSeq([i \in DOMAIN NamesIn[fse] |-> Saved(mapping, NamesIn[fse][i])], LAMBDA a : a # NoAddress),
                LAMBDA a : a)
    [] OTHER -> <<>>

Mailboxes(list) == {Mailbox[list[i]] : i \in DOMAIN list}
\* dedupe_cc_against_to
CcBeside(to, cc) == SelectSeq(cc, LAMBDA a : Mailbox[a] \notin Mailboxes(to))

Reminder(mapping, details, fse) ==
  LET to == Resolved(mapping, fse)
  IN [key |-> fse, to |-> to, cc |-> IF to = <<>> THEN <<>> ELSE CcBeside(to, StandingCc),
      figures |-> CellFigures(Group(details, fse))]

\* mutant: whoever is resolved twice is addressed twice
BroadcastTo_All(list) == list
BroadcastTo(list) == Firsts(list, LAMBDA a : Mailbox[a])

\* build_send_plan
SendPlan(mapping, sheet) ==
  LET details == Details(sheet)
      order == Firsts([i \in DOMAIN details |-> details[i].fse], LAMBDA f : f)
      reminders == [i \in DOMAIN order |-> Reminder(mapping, details, order[i])]
      to == BroadcastTo(FlattenSeq([i \in DOMAIN reminders |-> reminders[i].to]))
      Total(Figure(_)) == FoldLeft(LAMBDA sum, r : sum + Figure(r.figures), 0, reminders)
  IN [reminders |-> reminders,
      broadcast |-> [to |-> to, cc |-> CcBeside(to, BroadcastCc),
                     figures |-> [target |-> Total(LAMBDA f : f.target), received |-> Total(LAMBDA f : f.received),
                                  short |-> Total(LAMBDA f : f.short)]]]

-----------------------------------------------------------------------------
(* The plan of a preview.  A customer is a cell of the upload, as written; *)
(* the saved addresses and the PDFs are found by its trimmed text.         *)

Upload(c) == IF c \in DOMAIN bulk.upload THEN bulk.upload[c] ELSE Nowhere
SavedFor(view, c) == IF c \in DOMAIN view THEN view[c] ELSE Nowhere

\* merge_and_group_data: the uploaded addresses by the cell as written; To and
\* Cc fall back each on its own, by exact name.
ReminderPlaces(view, c) ==
  [to |-> IF Upload(c).to # {} THEN Upload(c).to ELSE SavedFor(view, Trimmed(c)).to,
   cc |-> IF Upload(c).cc # {} THEN Upload(c).cc ELSE SavedFor(view, Trimmed(c)).cc]
\* Of a confirmation an upload counts as a whole, and names have no case.
ConfirmationPlaces(view, c) ==
  LET same == {n \in DOMAIN view : Caseless(n) = Caseless(Trimmed(c))}
  IN CASE Upload(c) # Nowhere -> Upload(c)
       [] Upload(c) = Nowhere /\ same # {} -> view[CHOOSE n \in same : TRUE]
       [] OTHER -> Nowhere

PdfFor(c) ==
  LET same == {f \in DOMAIN bulk.pdfs : Caseless(bulk.pdfs[f]) = Caseless(Trimmed(c))}
  IN IF same = {} THEN NoFile ELSE Max(same)

CustomerRow(view, c) ==
  LET p == IF bulk.tool = "reminder" THEN ReminderPlaces(view, c) ELSE ConfirmationPlaces(view, c)
  IN [key |-> c, to |-> p.to, cc |-> p.cc, pdf |-> PdfFor(c),
      skip |-> p.to \cup p.cc = {} \/ (p.to \cup p.cc) \cap Invalid # {}]

\* mutant: confirmations take the cells as written, too
Repeated_Raw == \E i, j \in DOMAIN bulk.customers : i # j /\ bulk.customers[i] = bulk.customers[j]

\* Reminders compare the cells as written, and trim them only afterwards.
Repeated ==
  LET name(i) == IF bulk.tool = "reminder" THEN bulk.customers[i] ELSE Caseless(Trimmed(bulk.customers[i]))
  IN \E i, j \in DOMAIN bulk.customers : i # j /\ name(i) = name(j)

ReminderRow(r) == [key |-> r.key, to |-> ToSet(r.to), cc |-> ToSet(r.cc), pdf |-> NoFile, skip |-> FALSE]

-----------------------------------------------------------------------------
(* Users *)

BulkInit ==
  /\ bulk \in BulkScenarios
  /\ saved = bulk.saved /\ sender = TRUE
  /\ proposal = [state |-> "none", claim |-> "none"]
  /\ batch = [b \in Sends |-> NoBatch]
  /\ pdfs = {} /\ left = <<>> /\ history = <<>>

Spends(n) == bulk.faults >= n /\ bulk' = [bulk EXCEPT !.faults = @ - n]

\* An address is edited, or the sender is taken out of the settings.
EditsMeanwhile ==
  /\ Spends(1)
  /\ \/ \E e \in bulk.edits : saved' = [saved EXCEPT ![e.name] = e.to] /\ UNCHANGED sender
     \/ sender' = ~sender /\ UNCHANGED saved
  /\ UNCHANGED <<proposal, batch, pdfs, left, history>>

\* preview: the saved addresses are read by the request, not by the job.
Preview ==
  /\ proposal.state = "none" /\ sender /\ bulk.tool # "none"
  /\ proposal' = [state |-> "queued", claim |-> "none", view |-> saved]
  /\ pdfs' = DOMAIN bulk.pdfs
  /\ UNCHANGED <<bulk, saved, sender, batch, left, history>>

\* _job_preview
PreviewBuilds ==
  /\ proposal.state = "queued"
  /\ LET plan == SendPlan(proposal.view, bulk.sheet)
         empty == bulk.tool = "fse" /\ Details(bulk.sheet) = <<>>
     IN proposal' = CASE Repeated \/ empty -> [proposal EXCEPT !.state = "error"]
                      [] bulk.tool = "fse" /\ ~empty ->
                           [state |-> "ready", claim |-> "none", view |-> proposal.view, plan |-> plan,
                            rows |-> [i \in DOMAIN plan.reminders |-> ReminderRow(plan.reminders[i])]]
                      [] OTHER ->
                           [state |-> "ready", claim |-> "none", view |-> proposal.view,
                            rows |-> [i \in DOMAIN bulk.customers |-> CustomerRow(proposal.view, bulk.customers[i])]]
  /\ UNCHANGED <<bulk, saved, sender, batch, pdfs, left, history>>

Submitted(b, kind, rows) ==
  batch' = [batch EXCEPT ![b] = [NoBatch EXCEPT !.state = "queued", !.kind = kind, !.rows = rows]]

\* confirm_send: what was reviewed is sent once; a job that cannot be queued
\* leaves the preview used up.
ConfirmSend(b) ==
  /\ bulk.tool \in {"reminder", "confirmation"} /\ proposal.state = "ready" /\ sender
  /\ proposal.claim = "none" /\ batch[b].state = "none"
  /\ \/ Submitted(b, "customers", proposal.rows) /\ proposal' = [proposal EXCEPT !.claim = "completed"] /\ UNCHANGED bulk
     \/ Spends(1) /\ proposal' = [proposal EXCEPT !.claim = "failed"] /\ UNCHANGED batch
  /\ UNCHANGED <<saved, sender, pdfs, left, history>>

\* send: some of the rows on the screen, as the user has edited them; nothing
\* is claimed.
OnScreen(typed) ==
  [i \in DOMAIN proposal.rows |->
     IF proposal.rows[i].key \in DOMAIN typed THEN [proposal.rows[i] EXCEPT !.to = typed[proposal.rows[i].key]] ELSE proposal.rows[i]]
SendRows(b) ==
  /\ bulk.tool = "fse" /\ proposal.state = "ready" /\ batch[b].state = "none"
  /\ \E typed \in bulk.typed, keys \in SUBSET {proposal.rows[i].key : i \in DOMAIN proposal.rows} :
       /\ keys # {}
       /\ Submitted(b, "rows", SelectSeq(OnScreen(typed), LAMBDA r : r.key \in keys))
  /\ UNCHANGED <<bulk, saved, sender, proposal, pdfs, left, history>>

SendBroadcast(b) ==
  /\ bulk.tool = "fse" /\ proposal.state = "ready" /\ batch[b].state = "none"
  /\ Submitted(b, "broadcast", <<ReminderRow(proposal.plan.broadcast @@ [key |-> "all"])>>)
  /\ UNCHANGED <<bulk, saved, sender, proposal, pdfs, left, history>>

\* cancel_job: at once while it is queued.
Cancel(b) ==
  /\ batch[b].state \in {"queued", "sending"} /\ ~batch[b].stop /\ Spends(1)
  /\ batch' = [batch EXCEPT ![b].stop = TRUE, ![b].state = IF @ = "queued" THEN "cancelled" ELSE @]
  /\ UNCHANGED <<saved, sender, proposal, pdfs, left, history>>

-----------------------------------------------------------------------------
(* The send jobs: _job_send, _job_send_rows, _job_send_broadcast. *)

MailLine(r, status) == [key |-> r.key, status |-> status]
Sendable(t) == SelectSeq(t.rows, LAMBDA r : t.kind # "customers" \/ ~r.skip)
Skipped(rows) ==
  LET skip == SelectSeq(rows, LAMBDA r : r.skip) IN [i \in DOMAIN skip |-> MailLine(skip[i], "skipped")]

Count(report, status) == Cardinality({i \in DOMAIN report : report[i].status = status})
\* record_bulk
Outcome(report) ==
  CASE Count(report, "sent") = 0 -> "failed"
    [] Count(report, "sent") > 0 /\ Count(report, "failed") = 0 -> "sent"
    [] OTHER -> "partial"
BulkEntry(b, report) ==
  [batch |-> b, status |-> Outcome(report), sent |-> Count(report, "sent"), failed |-> Count(report, "failed")]
\* An entry without a count of what went.
PlainEntry(b, status) == [batch |-> b, status |-> status, sent |-> IF status = "sent" THEN 1 ELSE 0, failed |-> -1]

\* Best effort: what cannot be recorded is only logged.
RecordsBatch(entry) == history' = Append(history, entry) \/ (bulk.lossy /\ UNCHANGED history)
Unlinks(t) == pdfs' = pdfs \ (IF t.kind = "customers" THEN {t.rows[i].pdf : i \in DOMAIN t.rows} ELSE {})

BatchStarts(b) ==
  /\ batch[b].state = "queued"
  /\ batch' = [batch EXCEPT ![b].state = IF sender THEN "sending" ELSE "error", ![b].at = 1,
                            ![b].report = IF batch[b].kind = "customers" THEN Skipped(batch[b].rows) ELSE <<>>]
  /\ UNCHANGED <<bulk, saved, sender, proposal, pdfs, left, history>>

Sending(b) == batch[b].state = "sending" /\ batch[b].at <= Len(Sendable(batch[b]))
Row(b) == Sendable(batch[b])[batch[b].at]
NoMail(b) == Row(b).to = {} \/ (Row(b).to \cup Row(b).cc) \cap Invalid # {}

\* No connection for the whole batch, or no mail for the broadcast.
BatchFails(b) ==
  /\ Sending(b) /\ Spends(1)
  /\ \/ batch[b].kind = "customers" /\ batch[b].at = 1
     \/ batch[b].kind = "broadcast" /\ ~NoMail(b)
  /\ batch' = [batch EXCEPT ![b].state = "error"]
  /\ history' = Append(history, PlainEntry(b, "failed"))
  /\ Unlinks(batch[b])
  /\ UNCHANGED <<saved, sender, proposal, left>>

Taken(b) ==
  left' = Append(left, [batch |-> b, key |-> Row(b).key, to |-> Row(b).to, cc |-> Row(b).cc, pdf |-> Row(b).pdf])
Reports(b, status) ==
  batch' = [batch EXCEPT ![b].at = @ + 1, ![b].report = Append(@, MailLine(Row(b), status)),
                         ![b].state = IF batch[b].stop /\ batch[b].kind # "broadcast" THEN "stopping" ELSE "sending"]

\* One message; a failure may come after the server took it.  The progress
\* call that follows it raises in a job that is asked to stop.
SendsOne(b) ==
  /\ Sending(b)
  /\ CASE batch[b].kind = "broadcast" /\ NoMail(b) ->
            batch' = [batch EXCEPT ![b].state = "error"] /\ UNCHANGED <<left, bulk>>
       [] batch[b].kind = "rows" /\ NoMail(b) ->
            Reports(b, IF Row(b).to = {} THEN "skipped" ELSE "failed") /\ UNCHANGED <<left, bulk>>
       [] Row(b).pdf \notin pdfs \cup {NoFile} -> Reports(b, "failed") /\ UNCHANGED <<left, bulk>>
       [] OTHER ->
            \/ Reports(b, "sent") /\ Taken(b) /\ UNCHANGED bulk
            \/ batch[b].kind # "broadcast" /\ Spends(1) /\ Reports(b, "failed") /\ (Taken(b) \/ UNCHANGED left)
  /\ UNCHANGED <<saved, sender, proposal, pdfs, history>>

\* JobCancelled: caught for the record of a customers' batch, not of the
\* executives'; a broadcast asks before its one message.
BatchStops(b) ==
  /\ \/ batch[b].state = "stopping"
     \/ batch[b].kind = "broadcast" /\ Sending(b) /\ batch[b].stop
  /\ batch' = [batch EXCEPT ![b].state = "cancelled"]
  /\ IF batch[b].kind = "customers" THEN RecordsBatch(PlainEntry(b, "failed")) ELSE UNCHANGED history
  /\ Unlinks(batch[b])
  /\ UNCHANGED <<bulk, saved, sender, proposal, left>>

BatchEnds(b) ==
  /\ batch[b].state = "sending" /\ batch[b].at > Len(Sendable(batch[b]))
  /\ RecordsBatch(IF batch[b].kind = "broadcast" THEN PlainEntry(b, "sent") ELSE BulkEntry(b, batch[b].report))
  /\ \E state \in {"done"} \cup (IF batch[b].stop THEN {"cancelled"} ELSE {}) :
       batch' = [batch EXCEPT ![b].state = state]
  /\ Unlinks(batch[b])
  /\ UNCHANGED <<bulk, saved, sender, proposal, left>>

-----------------------------------------------------------------------------
(* Faults: a worker dies and its batch is never executed again, a PDF is   *)
(* swept while the preview waits for its user.                             *)

\* mutant: recovery queues a batch like any other job
AfterDeath_Queued(t) == [t EXCEPT !.state = "queued", !.at = 0, !.report = <<>>]

AfterDeath(t) == [t EXCEPT !.state = "lost"]

WorkerDies(b) ==
  /\ batch[b].state \in {"sending", "stopping"} /\ Spends(1)
  /\ batch' = [batch EXCEPT ![b] = AfterDeath(batch[b])]
  /\ UNCHANGED <<saved, sender, proposal, pdfs, left, history>>

PdfSwept ==
  /\ pdfs # {} /\ Spends(1)
  /\ \E f \in pdfs : pdfs' = pdfs \ {f}
  /\ UNCHANGED <<saved, sender, proposal, batch, left, history>>

BulkNext ==
  \/ EditsMeanwhile \/ Preview \/ PreviewBuilds \/ PdfSwept
  \/ \E b \in Sends :
       \/ ConfirmSend(b) \/ SendRows(b) \/ SendBroadcast(b) \/ Cancel(b)
       \/ BatchStarts(b) \/ BatchFails(b) \/ SendsOne(b) \/ BatchStops(b) \/ BatchEnds(b) \/ WorkerDies(b)

-----------------------------------------------------------------------------
(* Properties *)

MailsTo(b, key) == Cardinality({i \in DOMAIN left : left[i].batch = b /\ left[i].key = key})
Entries(b) == {i \in DOMAIN history : history[i].batch = b}

\* Whatever fails, is cancelled or dies: an executive gets at most one mail for
\* each click, and a customer's row at most one of a reviewed preview.  A
\* confirmation goes once to a name however it is typed; a reminder does so only
\* for cells that are typed alike, 'Acme' and 'Acme ' are two.
SentOnce ==
  LET Name(i) == IF bulk.tool = "confirmation" THEN Caseless(Trimmed(left[i].key)) ELSE left[i].key
  IN /\ \A b \in Sends, i \in DOMAIN left : left[i].batch = b => MailsTo(b, left[i].key) = 1
     /\ bulk.tool # "fse" => \A i, j \in DOMAIN left : Name(i) = Name(j) => i = j

\* What leaves is what was reviewed, with its PDF, at addresses that the upload
\* or the table as the preview read it gave for that customer.
SentAsReviewed ==
  \A i \in DOMAIN left : bulk.tool # "fse" =>
    LET m == left[i]
        same == {n \in DOMAIN proposal.view : Caseless(n) = Caseless(Trimmed(m.key))}
        known == UNION {p.to \cup p.cc : p \in {Upload(m.key)} \cup {proposal.view[n] : n \in same}}
    IN /\ \E r \in ToSet(proposal.rows) : r = [key |-> m.key, to |-> m.to, cc |-> m.cc, pdf |-> m.pdf, skip |-> FALSE]
       /\ m.to \cup m.cc \subseteq known

\* The report of a finished batch tells every row of it once; who is told
\* "sent" was mailed, who is told "skipped" was not; its history entry counts
\* the same, and says "sent" only if nobody failed.
ToldTheTruth ==
  \A b \in Sends : batch[b].state = "done" =>
    /\ \A key \in {r.key : r \in ToSet(batch[b].rows)} :
         LET lines == {i \in DOMAIN batch[b].report : batch[b].report[i].key = key}
         IN /\ Cardinality(lines) = 1
            /\ \A i \in lines : CASE batch[b].report[i].status = "sent" -> MailsTo(b, key) = 1
                                  [] batch[b].report[i].status = "skipped" -> MailsTo(b, key) = 0
                                  [] OTHER -> TRUE
    /\ \A i \in Entries(b) :
         /\ history[i].sent = Count(batch[b].report, "sent")
         /\ history[i].status = "sent" <=> history[i].sent > 0 /\ Count(batch[b].report, "failed") = 0

\* A customers' batch that mailed anyone is in the history once, unless its
\* worker died or the record failed.
BatchIsRecorded ==
  \A b \in Sends : batch[b].kind = "customers" =>
    /\ Cardinality(Entries(b)) <= 1
    /\ batch[b].state \in Ended \ {"lost"} /\ (\E i \in DOMAIN left : left[i].batch = b) /\ ~bulk.lossy
         => Entries(b) # {}

\* The broadcast names everyone who gets a reminder, each mailbox once over To
\* and Cc, no reminder copies the one it is for, and its grand total is that
\* of the parties, whatever the sheet's own totals say.
PlanAddsUp(sheet, plan) ==
  LET b == plan.broadcast
      reached == UNION {Mailboxes(plan.reminders[i].to) : i \in DOMAIN plan.reminders}
  IN /\ Mailboxes(b.to) = reached /\ Cardinality(reached) = Len(b.to)
     /\ Mailboxes(b.to) \cap Mailboxes(b.cc) = {}
     /\ \A i \in DOMAIN plan.reminders :
          Mailboxes(plan.reminders[i].to) \cap Mailboxes(plan.reminders[i].cc) = {}
     /\ b.figures = CellFigures(Details(sheet))

\* What the tools mail is mailed once, as reviewed, reported and recorded; the
\* figures in the executives' reminders are those of the sheet.
BulkMailRight ==
  /\ SentOnce /\ SentAsReviewed /\ ToldTheTruth /\ BatchIsRecorded
  /\ bulk.tool = "fse" /\ proposal.state = "ready" => PlanAddsUp(bulk.sheet, proposal.plan)
=============================================================================
