-------------------------------- MODULE Desk --------------------------------
(***************************************************************************)
(* The report tools of one application: the cashflow books, the mapping    *)
(* tables, the payables report, and the Debtors mail with its build, its   *)
(* reports and its attachments.  They keep their rows in tables of their   *)
(* own and their builds in threads of their own, so that a step of one is  *)
(* no step of another; a behaviour is the work with one of them.           *)
(***************************************************************************)
EXTENDS Cashflow, MappingStore, Payables, DebtorsBuild, DebtorsMail

VARIABLE tool  \* the one that is worked with

desks == <<books, mappings, payables, build, attachments, debtorsMail, tool>>

Init ==
  /\ tool \in {"cashflow", "mappings", "payables", "debtors build", "debtors reports", "attachments"}
  /\ BooksInit /\ (tool = "cashflow" \/ scenario.jobs \cup scenario.clerks = {})
  /\ StoreInit /\ (tool = "mappings" \/ store.editors \cup store.reports \cup store.seeders = {})
  /\ PayInit /\ (tool = "payables" \/ paydesk.doc = <<>>)
  /\ BuildInit /\ (tool = "debtors build" \/ ~plan.on)
  /\ AttachInit /\ (tool = "attachments" \/ parcel.books = <<>>)
  /\ DebtorsInit /\ (tool = "debtors reports" \/ mends = 0)

Next ==
  \/ BooksNext /\ UNCHANGED <<mappings, payables, build, attachments, debtorsMail, tool>>
  \/ StoreNext /\ UNCHANGED <<books, payables, build, attachments, debtorsMail, tool>>
  \/ PayNext /\ UNCHANGED <<books, mappings, build, attachments, debtorsMail, tool>>
  \/ BuildNext /\ UNCHANGED <<books, mappings, payables, attachments, debtorsMail, tool>>
  \/ Fit /\ UNCHANGED <<books, mappings, payables, build, debtorsMail, tool>>
  \/ (Compiles \/ Mends) /\ UNCHANGED <<books, mappings, payables, build, attachments, tool>>

Spec == Init /\ [][Next]_desks /\ BuildFairness

-----------------------------------------------------------------------------
(* Properties *)

\* What the tools make adds up: the rows of a bank line, the sheets of the
\* payables and of the debtors; what a user is told to mend, mends them, and
\* the mail carries all of its workbooks, once.
SheetsRight == MoneyIsPlaced /\ PayablesRight /\ DebtorsRight /\ MailsCarryAll
=============================================================================
