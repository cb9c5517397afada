---------------------------- MODULE MCIoclBalance ----------------------------
(* The jobs, requests and accounts of IoclBalance are interchangeable. *)
EXTENDS IoclBalance, TLC

\* Everything on, or no reminders.
MCModes == {Switches, {"enabled", "daily"}}

First(jobs) == jobs \X {1}

\* Three checks that overlap; two with a fault, with a request, with a change of
\* the settings; one that its job queue executes again.
MCScenarios ==
  {[team |-> First(Jobs), faults |-> 0, edits |-> 0],
   [team |-> First(Scheduled), faults |-> 1, edits |-> 0],
   [team |-> First(Scheduled) \cup Mails, faults |-> 0, edits |-> 0],
   [team |-> First(Scheduled), faults |-> 0, edits |-> 1],
   [team |-> Manual \X (1..MaxAttempts) \cup Mails, faults |-> 2, edits |-> 1]}

MCSymmetry ==
  Permutations(Scheduled) \cup Permutations(Manual) \cup Permutations(Mails) \cup Permutations(Accounts)
=============================================================================
