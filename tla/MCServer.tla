------------------------------ MODULE MCServer ------------------------------
(* The scenarios of Server for TLC. *)
EXTENDS Server, TLC

MCProcesses == Launches

Quiet == [team |-> Launches, crashes |-> 0, asked |-> {}, times |-> {Nobody}, uploads |-> {}, reports |-> {},
          previews |-> {}, keeps |-> {CHOOSE k \in Keeps : TRUE}, clocks |-> {}, requests |-> {}]
One == {CHOOSE l \in Launches : TRUE}
AnUpload == {CHOOSE u \in Uploads : TRUE}
AReport == {CHOOSE r \in Reports : TRUE}
Files1 == [Quiet EXCEPT !.team = One, !.keeps = Keeps, !.clocks = {"files"}]

MCCallers == Logins
MCLimitKeys == {ClientKey, AccountKey}
MCSymmetry == Permutations(Logins)

\* Every login at once; a login beside the requests of a session; a session
\* whose password is changed; admins who remove each other.
Teams == {Logins, Removals} \cup {{l} \cup Activities \cup Logouts : l \in Logins} \cup {{l, a} \cup Resets : l \in Logins, a \in Activities}
ServingScenarios == {[Quiet EXCEPT !.team = {}, !.clocks = {"requests"}, !.requests = t] : t \in Teams}

\* Windows that are opened and closed; a suite that makes its backups, beside
\* the admin's; a suite that sweeps, while users upload, report and preview,
\* while the admin changes what it keeps, and while it is restarted.
MCScenarios ==
  ServingScenarios \cup
  {[Quiet EXCEPT !.crashes = 2],
   [Quiet EXCEPT !.team = One, !.crashes = 1, !.asked = RunNows, !.times = Times, !.clocks = {"minutes"}],
   [Files1 EXCEPT !.uploads = AnUpload, !.reports = Reports, !.clocks = {"files", "retention"}],
   [Files1 EXCEPT !.uploads = Uploads, !.reports = AReport, !.keeps = Quiet.keeps],
   [Files1 EXCEPT !.crashes = 1, !.uploads = AnUpload, !.previews = Previews]}
=============================================================================
