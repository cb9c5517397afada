------------------------------ MODULE JobAction ------------------------------
(***************************************************************************)
(* One-shot actions on a finished job: claim_job_action and                *)
(* finish_job_action of backend/app/jobs.py, the endpoints that mail what  *)
(* a person has previewed, and the tabs that call them.  API processes     *)
(* serve the clicks of several tabs at once; any of them may die, and any  *)
(* statement may fail before or after it took effect.                      *)
(*                                                                         *)
(* A preview (report_mail_routes, unaccounted_txn, the Ultrafine reminders *)
(* and confirmations) has ONE action, "confirm-send".  A finished report   *)
(* (finished_report_mail) has one action per click, because the browser    *)
(* makes a new request_id in every call of send().                         *)
(***************************************************************************)
EXTENDS Naturals

CONSTANTS
  Previews,   \* finished preview jobs
  Reports,    \* finished report jobs
  Messages,   \* how many messages a job sends; a handed-over batch counts as one
  Requests,   \* clicks on Send; each is used once
  Tabs,       \* tabs that show these jobs
  Confirm,    \* the action "confirm-send"
  NoRequest,
  NoJob

Jobs == Previews \cup Reports

ASSUME ActionConstants ==
  /\ Previews \cap Reports = {} /\ NoJob \notin Jobs
  /\ Confirm \notin Requests /\ NoRequest \notin Requests
  /\ Messages \in [Jobs -> Nat \ {0}]

VARIABLES
  hidden,   \* BackgroundJob.is_deleted
  action,   \* BackgroundJobAction.status by job and action
  req,      \* the requests inside the API processes
  tab,      \* what a tab shows, waits for and was told
  out       \* how often SMTP (or the job queue) has taken each message

vars == <<hidden, action, req, tab, out>>

Statuses == {"absent", "in_progress", "completed", "failed"}
Answers == Statuses \cup {"none", "missing", "sent", "not sent", "lost"}

\* next: the message that goes out next; ok: what finish_job_action will record.
Request == [pc: {"unused", "view", "read", "insert", "send", "finish", "over"},
            job: Jobs \cup {NoJob}, next: Nat, ok: BOOLEAN, answer: Answers]

Unused == [pc |-> "unused", job |-> NoJob, next |-> 1, ok |-> FALSE, answer |-> "none"]

Name(r) == IF req[r].job \in Reports THEN r ELSE Confirm

Status(r) == action[req[r].job][Name(r)]

At(r, pc) == r \in Requests /\ req[r].pc = pc

Init ==
  /\ hidden = [j \in Jobs |-> FALSE]
  /\ action = [j \in Jobs |-> [a \in Requests \cup {Confirm} |-> "absent"]]
  /\ req = [r \in Requests |-> Unused]
  /\ tab \in [Tabs -> [job: Jobs, waits: {NoRequest}, told: {FALSE}]]
  /\ out = [j \in Jobs |-> [m \in 1..Messages[j] |-> 0]]

-----------------------------------------------------------------------------
(* The tab. *)

\* The button is enabled again with every answer but success; a person who has
\* been told that the mail is sent is content.
Click(t, r) ==
  /\ At(r, "unused") /\ tab[t].waits = NoRequest /\ ~tab[t].told
  /\ req' = [req EXCEPT ![r].pc = "view", ![r].job = tab[t].job]
  /\ tab' = [tab EXCEPT ![t].waits = r]
  /\ UNCHANGED <<hidden, action, out>>

\* fetch is aborted after its time-out; the endpoint goes on.
GiveUp(t) ==
  /\ tab[t].waits # NoRequest
  /\ tab' = [tab EXCEPT ![t].waits = NoRequest]
  /\ UNCHANGED <<hidden, action, req, out>>

-----------------------------------------------------------------------------
(* The endpoint. *)

\* The request ends; the tab that still waits for it is told.
Answered(r, answer) ==
  /\ req' = [req EXCEPT ![r].pc = "over", ![r].answer = answer]
  /\ tab' = [t \in Tabs |->
       IF tab[t].waits = r
       THEN [tab[t] EXCEPT !.waits = NoRequest, !.told = answer = "sent"] ELSE tab[t]]

Goes(r, pc) == req' = [req EXCEPT ![r].pc = pc] /\ UNCHANGED tab

View(r) ==
  /\ At(r, "view")
  /\ IF hidden[req[r].job] THEN Answered(r, "missing") ELSE Goes(r, "read")
  /\ UNCHANGED <<hidden, action, out>>

\* The two SELECTs of claim_job_action see one snapshot.
ReadAction(r) ==
  /\ At(r, "read")
  /\ IF hidden[req[r].job] THEN Answered(r, "missing")
     ELSE IF Status(r) # "absent" THEN Answered(r, Status(r))
     ELSE Goes(r, "insert")
  /\ UNCHANGED <<hidden, action, out>>

SetStatus(r, s) == action' = [action EXCEPT ![req[r].job][Name(r)] = s]

\* Mutants of Insert: no unique key; a failed action may be claimed again.
Insert_NoUniqueKey(r) ==
  /\ At(r, "insert") /\ SetStatus(r, "in_progress") /\ Goes(r, "send")
  /\ UNCHANGED <<hidden, out>>

Insert_ReclaimsFailed(r) ==
  /\ At(r, "insert")
  /\ IF Status(r) \in {"absent", "failed"}
     THEN SetStatus(r, "in_progress") /\ Goes(r, "send")
     ELSE Answered(r, Status(r)) /\ UNCHANGED action
  /\ UNCHANGED <<hidden, out>>

\* uq_background_job_action: the second INSERT raises IntegrityError.
Insert(r) ==
  /\ At(r, "insert")
  /\ IF Status(r) = "absent"
     THEN SetStatus(r, "in_progress") /\ Goes(r, "send")
     ELSE Answered(r, Status(r)) /\ UNCHANGED action
  /\ UNCHANGED <<hidden, out>>

\* Any other error of the INSERT, or a commit whose answer is lost.
InsertRaises(r) ==
  /\ At(r, "insert")
  /\ \/ UNCHANGED action
     \/ Status(r) = "absent" /\ SetStatus(r, "in_progress")
  /\ Answered(r, "lost")
  /\ UNCHANGED <<hidden, out>>

Taken(r) == out' = [out EXCEPT ![req[r].job][req[r].next] = @ + 1]

\* send_mail returns, or submit_job does.
Send(r) ==
  /\ At(r, "send")
  /\ Taken(r)
  /\ req' = [req EXCEPT ![r].next = @ + 1,
       ![r].pc = IF req[r].next = Messages[req[r].job] THEN "finish" ELSE "send",
       ![r].ok = req[r].next = Messages[req[r].job]]
  /\ UNCHANGED <<hidden, action, tab>>

\* Mutant of SendRaises: the endpoint swallows the error and reports success.
SendRaises_Swallowed(r) ==
  /\ At(r, "send")
  /\ Taken(r) \/ UNCHANGED out
  /\ req' = [req EXCEPT ![r].pc = "finish", ![r].ok = TRUE]
  /\ UNCHANGED <<hidden, action, tab>>

\* It raises, maybe only after the server has taken the message.
SendRaises(r) ==
  /\ At(r, "send")
  /\ Taken(r) \/ UNCHANGED out
  /\ req' = [req EXCEPT ![r].pc = "finish"]
  /\ UNCHANGED <<hidden, action, tab>>

\* finish_job_action; it returns False, unread, when the row is not in_progress.
FinishAction(r) ==
  /\ At(r, "finish")
  /\ IF Status(r) = "in_progress"
     THEN SetStatus(r, IF req[r].ok THEN "completed" ELSE "failed")
     ELSE UNCHANGED action
  /\ Answered(r, IF req[r].ok THEN "sent" ELSE "not sent")
  /\ UNCHANGED <<hidden, out>>

FinishActionRaises(r) ==
  /\ At(r, "finish")
  /\ Answered(r, "lost")
  /\ UNCHANGED <<hidden, action, out>>

\* The API process dies.
Crash(r) ==
  /\ r \in Requests /\ req[r].pc \notin {"unused", "over"}
  /\ Answered(r, "lost")
  /\ UNCHANGED <<hidden, action, out>>

\* prune_expired_jobs.
Prune(j) ==
  /\ ~hidden[j]
  /\ hidden' = [hidden EXCEPT ![j] = TRUE]
  /\ UNCHANGED <<action, req, tab, out>>

Next ==
  \/ \E t \in Tabs : GiveUp(t) \/ \E r \in Requests : Click(t, r)
  \/ \E r \in Requests :
       \/ View(r) \/ ReadAction(r) \/ Insert(r) \/ InsertRaises(r)
       \/ Send(r) \/ SendRaises(r) \/ FinishAction(r) \/ FinishActionRaises(r) \/ Crash(r)
  \/ \E j \in Jobs : Prune(j)

Spec == Init /\ [][Next]_vars

-----------------------------------------------------------------------------
(* Properties. *)

\* However many tabs confirm a preview, and whatever fails, each of its
\* messages is handed over at most once.
MessageSentOnce == \A j \in Previews : \A m \in 1..Messages[j] : out[j][m] <= 1

\* Who is told that a mail was sent, now or before, is told the truth: every
\* message of the job has been taken.
AnswersAreTrue ==
  \A r \in Requests : req[r].answer \in {"sent", "completed"} =>
    \A m \in 1..Messages[req[r].job] : out[req[r].job][m] >= 1

\* Once an action is recorded as completed or failed, it stays so and nothing
\* more is sent of its job: the advice to make a fresh preview after a failure
\* is safe.
NothingAfterVerdict ==
  [][\A j \in Previews :
       action[j][Confirm] \in {"completed", "failed"} =>
         out'[j] = out[j] /\ action'[j][Confirm] = action[j][Confirm]]_vars

(* The inductive invariant: a preview has one sender at a time, only while   *)
(* the action is in progress, and it has sent exactly the messages before    *)
(* "next"; nothing of an unclaimed preview has been sent.                    *)

TypeOK ==
  /\ hidden \in [Jobs -> BOOLEAN]
  /\ action \in [Jobs -> [Requests \cup {Confirm} -> Statuses]]
  /\ req \in [Requests -> Request]
  /\ tab \in [Tabs -> [job: Jobs, waits: Requests \cup {NoRequest}, told: BOOLEAN]]
  /\ out = [j \in Jobs |-> out[j]]
  /\ \A j \in Jobs : out[j] \in [1..Messages[j] -> Nat]

Holds(r) == req[r].pc \in {"send", "finish"}

HoldersClaimed ==
  /\ \A r \in Requests : req[r].pc # "unused" => req[r].job \in Jobs
  /\ \A r \in Requests : Holds(r) => Status(r) = "in_progress"
  /\ \A r, q \in Requests :
       Holds(r) /\ Holds(q) /\ req[r].job = req[q].job /\ Name(r) = Name(q) => r = q

SentInOrder ==
  \A r \in Requests : req[r].pc = "send" =>
    /\ req[r].next \in 1..Messages[req[r].job]
    /\ \A m \in 1..Messages[req[r].job] :
         /\ m < req[r].next => out[req[r].job][m] >= 1
         /\ req[r].job \in Previews /\ m >= req[r].next => out[req[r].job][m] = 0

Early ==
  \A r \in Requests :
    /\ req[r].pc \in {"unused", "view", "read", "insert"} => req[r].next = 1
    /\ req[r].ok => req[r].pc \in {"finish", "over"}
    /\ req[r].answer # "none" => req[r].pc = "over"

UnclaimedUnsent ==
  \A j \in Previews : action[j][Confirm] = "absent" => \A m \in 1..Messages[j] : out[j][m] = 0

AllTaken(j) == \A m \in 1..Messages[j] : out[j][m] >= 1

CompletedIsSent ==
  /\ \A r \in Requests : req[r].pc = "finish" /\ req[r].ok => AllTaken(req[r].job)
  /\ \A j \in Jobs, a \in Requests \cup {Confirm} : action[j][a] = "completed" => AllTaken(j)

Inductive ==
  /\ TypeOK /\ HoldersClaimed /\ Early /\ SentInOrder /\ UnclaimedUnsent /\ CompletedIsSent
  /\ MessageSentOnce /\ AnswersAreTrue
=============================================================================
