--------------------------- MODULE MCInvoiceTracker ---------------------------
(* The scenarios of InvoiceTracker for TLC. *)
EXTENDS InvoiceTracker, TLC

First(jobs) == jobs \X {1}

\* Three checks that overlap, the locks of which lapse and are renewed late; two
\* days' checks that are executed again; a check by hand with a request, and two
\* faults.
MCScenarios ==
  {[team |-> First(Jobs), faults |-> 0],
   [team |-> Scheduled \X (1..MaxAttempts), faults |-> 2],
   [team |-> Manual \X (1..MaxAttempts) \cup Mails, faults |-> 2]}

MCSymmetry == Permutations(Scheduled) \cup Permutations(Manual) \cup Permutations(Mails)
=============================================================================
