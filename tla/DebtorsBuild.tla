---------------------------- MODULE DebtorsBuild ----------------------------
(***************************************************************************)
(* The build of the Debtors Reports mail: three reports on three threads,  *)
(* from ERP queries that run on connections of their own and are stopped   *)
(* by watchers (services/debtors_mailer/auto_mail.py, erp_ageing.py,       *)
(* customer_region.py, the report_job modules of the three reports, and    *)
(* the GST look-up of gst_invoice_adder/processor.py).                     *)
(***************************************************************************)
EXTENDS Sequences, FiniteSets, Functions, TLC

CONSTANTS
  Slices,         \* the ageing is fetched in this many slices at once
  Batches,        \* of the GST look-up
  BuildScenarios  \* [on, cancel, many, unidentified, hold, fails]: is there a build, may the user cancel it, are there
                  \* pairs enough for the open-items query, Unidentified receipts, unmapped names that hold the mail;
                  \* and which queries and reports may fail

ASSUME BuildConstants ==
  /\ Slices \cap Batches = {}
  /\ (Slices \cup Batches) \cap {"register", "region", "comments", "locations", "open"} = {}

VARIABLES
  thread,   \* [at, error] of each report's thread
  query,    \* of each ERP query
  events,   \* the events that are set: of the user, of a failed report, of a failed slice
  holder,   \* the thread that has the lock of _SharedAgeing
  ageing,   \* the fetch of the shared ageing: [fetched, error], the error of the slice that failed first
  errors,   \* first_error
  outcome,  \* of the build
  plan

build == <<thread, query, events, holder, ageing, errors, outcome, plan>>

Reports == {"gst", "untagged", "unapplied"}
Lookups == {"comments", "locations"}
Watched == Slices \cup Lookups \cup {"register", "region"}   \* the others are of the GST pool
Pooled == Batches \cup {"open"}
Under == {"connecting", "acquired", "running", "retrying"}   \* under way
NoThread == "nobody"

\* EitherEvent: a slice also stops for its siblings.
Told == events \cap {"user", "stop"} # {}
Signalled(q) == Told \/ (q \in Slices /\ "slice" \in events)

BuildInit ==
  /\ plan \in BuildScenarios
  /\ thread = [t \in Reports |-> [at |-> IF plan.on THEN "start" ELSE "done", error |-> "none"]]
  /\ query = [q \in Watched \cup Pooled |-> IF plan.on /\ q = "region" THEN "connecting" ELSE "idle"]
  /\ events = {} /\ holder = NoThread /\ errors = <<>>
  /\ ageing = [fetched |-> FALSE, error |-> "none"]
  /\ outcome = IF plan.on THEN "none" ELSE "no build"

UserCancels ==
  /\ plan.cancel /\ outcome = "none" /\ "user" \notin events
  /\ events' = events \cup {"user"}
  /\ UNCHANGED <<thread, query, holder, ageing, errors, outcome, plan>>

-----------------------------------------------------------------------------
(* Queries, their connections and their watchers. *)

Becomes(q, state) == query' = [query EXCEPT ![q] = state] /\ UNCHANGED <<thread, events, holder, ageing, errors, outcome, plan>>

\* A connection that fails is no cancellation; the look-ups of receipts ask
\* once more before they begin; the open-items query is told its connection.
Connects(q) ==
  /\ query[q] = "connecting"
  /\ \/ q \in plan.fails /\ Becomes(q, "error")
     \/ /\ q # "open" /\ ~(q \in Lookups /\ Told)
        /\ Becomes(q, "running")
     \/ q \in Lookups /\ Told /\ Becomes(q, "quit")
     \/ q = "open" /\ Becomes(q, "acquired")
Noted == query["open"] = "acquired" /\ Becomes("open", "running")

\* The ERP answers, if it does.  A bulk query that fails is asked again pair
\* by pair, and a pair that fails stays blank; a failure after the signal
\* counts as a cancellation; a look-up may see the signal between batches.
Answers(q) ==
  \/ query[q] \in {"running", "retrying"} /\ Becomes(q, "ok")
  \/ q \in plan.fails \ Batches /\ query[q] = "running" /\ Becomes(q, IF q # "open" /\ Signalled(q) THEN "cut" ELSE "error")
  \/ query[q] = "running" /\ q \in Lookups /\ Told /\ Becomes(q, "quit")
  \/ q \in plan.fails \cap Batches /\ query[q] \in {"running", "retrying"} /\ Becomes(q, IF Told THEN "quit" ELSE "retrying")

\* mutant: only the slices have watchers
Watches_Slices(q) == q \in Slices /\ query[q] = "running" /\ Signalled(q) /\ Becomes(q, "cut")

\* _start_cancel_watcher
Watches(q) == q \in Watched /\ query[q] = "running" /\ Signalled(q) /\ Becomes(q, "cut")

\* A batch that is told before it has a connection does not ask for one.
BatchStarts(q) ==
  /\ thread["gst"].at = "batches" /\ q \in Batches /\ query[q] = "idle"
  /\ Becomes(q, IF Told THEN "quit" ELSE "connecting")

\* fetch_ageing_from_erp: the slice that fails first is remembered, and stops the others.
SliceFails(q) ==
  /\ holder # NoThread /\ query[q] \in {"error", "cut"}
  /\ query' = [query EXCEPT ![q] = "seen"]
  /\ ageing' = [ageing EXCEPT !.error = IF @ # "none" THEN @ ELSE IF query[q] = "cut" THEN "cancelled" ELSE "failed"]
  /\ events' = events \cup {"slice"}
  /\ UNCHANGED <<thread, holder, errors, outcome, plan>>

-----------------------------------------------------------------------------
(* What the threads do. *)

Goes(t, at) == thread' = [thread EXCEPT ![t].at = at]
Raises(t, error) == thread' = [thread EXCEPT ![t] = [at |-> "raised", error |-> error]]
Issue(q) == query' = [query EXCEPT ![q] = "connecting"]

\* The GST report leaves its try block.  Unless the open-items query was waited
\* for it is cancelled, if it has noted its connection; the pool is closed by
\* force if the build was told to stop, and else only when it is not busy.
ClosedPool(queries, consumed) ==
  LET left == [queries EXCEPT !["open"] = IF ~consumed /\ @ = "running" THEN "cut" ELSE @]
      busy == \E q \in Pooled : left[q] \in Under \ {"connecting"}
  IN [q \in DOMAIN left |->
        IF q \in Pooled /\ left[q] \in Under /\ (Told \/ ~busy) THEN "cut" ELSE left[q]]
\* A cancelled look-up cuts the connections that are at work.
CutPool(queries) ==
  [q \in DOMAIN queries |-> IF q \in Pooled /\ queries[q] \in {"running", "retrying"} THEN "cut" ELSE queries[q]]

Starts(t) ==
  /\ thread[t].at = "start"
  /\ \/ t = "gst" /\ Goes(t, "ageing") /\ Issue("open")
     \/ t = "gst" /\ t \in plan.fails /\ Raises(t, "failed") /\ UNCHANGED query
     \/ t = "unapplied" /\ Goes(t, "register") /\ Issue("register")
     \/ t = "untagged" /\ Goes(t, "ageing") /\ UNCHANGED query
  /\ UNCHANGED <<events, holder, ageing, errors, outcome, plan>>

Registered(t) ==
  /\ thread[t].at = "register" /\ query["register"] \in {"ok", "error", "cut"}
  /\ CASE query["register"] = "ok" -> Goes(t, "ageing")
       [] query["register"] = "error" -> Raises(t, "failed")
       [] query["register"] = "cut" -> Raises(t, "cancelled")
  /\ UNCHANGED <<query, events, holder, ageing, errors, outcome, plan>>

HasAgeing(t) == Goes(t, IF t # "gst" THEN "regions" ELSE IF plan.many THEN "open" ELSE "batches")
NoAgeing(t, error) ==
  /\ Raises(t, error)
  /\ query' = IF t = "gst" THEN ClosedPool(query, FALSE) ELSE query

\* _SharedAgeing.get: who has the lock fetches unless it was done.
GetsLock(t) ==
  /\ thread[t].at = "ageing" /\ holder = NoThread
  /\ IF ageing.fetched
     THEN HasAgeing(t) /\ UNCHANGED <<query, events, holder, ageing>>
     ELSE /\ holder' = t /\ Goes(t, "fetching")
          /\ query' = [q \in DOMAIN query |-> IF q \in Slices THEN "connecting" ELSE query[q]]
          /\ events' = events \ {"slice"}
          /\ ageing' = [ageing EXCEPT !.error = "none"]
  /\ UNCHANGED <<errors, outcome, plan>>

\* It waits for every slice; an ageing without rows is an error too.
Fetches(t) ==
  /\ thread[t].at = "fetching" /\ \A q \in Slices : query[q] \in {"ok", "seen"}
  /\ \/ /\ ageing.error = "none"
        /\ ageing' = [ageing EXCEPT !.fetched = TRUE] /\ HasAgeing(t) /\ UNCHANGED query
     \/ t \in plan.fails /\ ageing.error = "none" /\ NoAgeing(t, "failed") /\ UNCHANGED ageing
     \/ ageing.error # "none" /\ NoAgeing(t, ageing.error) /\ UNCHANGED ageing
  /\ holder' = NoThread
  /\ UNCHANGED <<events, errors, outcome, plan>>

\* RegionFetch.result: without regions the mappings are used.
HasRegions(t) ==
  /\ thread[t].at = "regions" /\ query["region"] \in {"ok", "error", "cut"}
  /\ \/ query["region"] = "cut" /\ Raises(t, "cancelled") /\ UNCHANGED query
     \/ query["region"] # "cut" /\ t = "untagged" /\ Goes(t, "write") /\ UNCHANGED query
     \/ /\ query["region"] # "cut" /\ t = "unapplied"
        /\ LET first == IF plan.unidentified THEN "comments" ELSE "locations" IN Goes(t, first) /\ Issue(first)
  /\ UNCHANGED <<events, holder, ageing, errors, outcome, plan>>

\* split_unidentified, process_report: what a look-up lacks is left blank,
\* whatever made it fail; only a signal seen between two batches is raised.
LooksUp(t) ==
  LET at == thread[t].at
  IN /\ at \in Lookups /\ query[at] \notin Under
     /\ \/ query[at] = "quit" /\ Raises(t, "cancelled") /\ UNCHANGED query
        \/ query[at] # "quit" /\ at = "comments" /\ Goes(t, "locations") /\ Issue("locations")
        \/ query[at] # "quit" /\ at = "locations" /\ Goes(t, "write") /\ UNCHANGED query
     /\ UNCHANGED <<events, holder, ageing, errors, outcome, plan>>

\* OpenItemsGst.result: pairs it does not cover, or all, are left to the batches.
OpenItems(t) ==
  /\ thread[t].at = "open"
  /\ \/ Told /\ Raises(t, "cancelled") /\ query' = ClosedPool([query EXCEPT !["open"] = IF @ = "running" THEN "cut" ELSE @], TRUE)
     \/ query["open"] \in {"ok", "error"} /\ Goes(t, "batches") /\ UNCHANGED query
     \/ query["open"] = "ok" /\ Goes(t, "write") /\ query' = ClosedPool(query, TRUE)
  /\ UNCHANGED <<events, holder, ageing, errors, outcome, plan>>

\* _fetch_all_parallel: only when no batch got a connection is that an error.
Collects(t) ==
  LET done == \A q \in Batches : query[q] \in {"ok", "error"}
  IN /\ thread[t].at = "batches"
     /\ \/ /\ Told \/ \E q \in Batches : query[q] = "quit"
           /\ Raises(t, "cancelled")
           /\ query' = ClosedPool([q \in DOMAIN query |-> IF q \in Batches /\ query[q] = "idle" THEN "quit"
                                                          ELSE CutPool(query)[q]], plan.many)
        \/ done /\ (\A q \in Batches : query[q] = "error") /\ Raises(t, "failed") /\ query' = ClosedPool(query, plan.many)
        \/ done /\ (\E q \in Batches : query[q] = "ok") /\ Goes(t, "write") /\ query' = ClosedPool(query, plan.many)
     /\ UNCHANGED <<events, holder, ageing, errors, outcome, plan>>

\* run_cpu_phase: in these threads it knows of no cancel event.
WritesBook(t) ==
  /\ thread[t].at = "write"
  /\ Goes(t, "done") \/ (t \in plan.fails /\ Raises(t, "failed"))
  /\ UNCHANGED <<query, events, holder, ageing, errors, outcome, plan>>

\* mutant: the others are stopped before the error is recorded
Guarded_StopsFirst(t) ==
  /\ \/ thread[t].at = "raised" /\ Goes(t, "recorded") /\ events' = events \cup {"stop"} /\ UNCHANGED errors
     \/ thread[t].at = "recorded" /\ Goes(t, "over") /\ UNCHANGED events
        /\ errors' = IF errors = <<>> THEN <<thread[t].error>> ELSE errors
  /\ UNCHANGED <<query, holder, ageing, outcome, plan>>

\* guarded: first the error, then the signal to the others.
Guarded(t) ==
  /\ \/ thread[t].at = "raised" /\ Goes(t, "recorded") /\ UNCHANGED events
        /\ errors' = IF errors = <<>> THEN <<thread[t].error>> ELSE errors
     \/ thread[t].at = "recorded" /\ Goes(t, "over") /\ events' = events \cup {"stop"} /\ UNCHANGED errors
  /\ UNCHANGED <<query, holder, ageing, outcome, plan>>

Steps(t) ==
  \/ Starts(t) \/ Registered(t) \/ GetsLock(t) \/ Fetches(t) \/ HasRegions(t)
  \/ LooksUp(t) \/ OpenItems(t) \/ Collects(t) \/ WritesBook(t) \/ Guarded(t)

\* mutant: nobody asks once more whether it was cancelled
Outcome_Unasked == IF errors # <<>> THEN Head(errors) ELSE IF plan.hold THEN "held" ELSE "mail"

\* The pool waits for every thread, whatever failed.
Outcome ==
  CASE errors # <<>> -> Head(errors)
    [] errors = <<>> /\ "user" \in events -> "cancelled"
    [] errors = <<>> /\ "user" \notin events -> IF plan.hold THEN "held" ELSE "mail"
Ends ==
  /\ outcome = "none" /\ \A t \in Reports : thread[t].at \in {"done", "over"}
  /\ outcome' = Outcome
  /\ UNCHANGED <<thread, query, events, holder, ageing, errors, plan>>

BuildNext ==
  \/ UserCancels \/ Noted \/ Ends
  \/ \E t \in Reports : Steps(t)
  \/ \E q \in Watched \cup Pooled : Connects(q) \/ Answers(q) \/ Watches(q)
  \/ \E q \in Batches : BatchStarts(q)
  \/ \E q \in Slices : SliceFails(q)

\* Threads run and connections are made or refused; the ERP need not answer.
BuildFairness ==
  /\ WF_build(Noted) /\ WF_build(Ends)
  /\ \A t \in Reports : WF_build(Steps(t))
  /\ \A q \in Watched \cup Pooled : WF_build(Connects(q)) /\ WF_build(Watches(q))
  /\ \A q \in Batches : WF_build(BatchStarts(q))
  /\ \A q \in Slices : WF_build(SliceFails(q))

-----------------------------------------------------------------------------
(* What holds in between. *)

\* Where a report's thread can be.
Path(t) ==
  {"start", "ageing", "fetching", "write", "done", "raised", "recorded", "over"}
  \cup (IF t = "gst" THEN {"open", "batches"} ELSE IF t = "untagged" THEN {"regions"}
        ELSE {"register", "regions", "comments", "locations"})
Points == Path("gst") \cup Path("untagged") \cup Path("unapplied")
QueryStates == Under \cup {"idle", "ok", "error", "cut", "quit", "seen"}
BuildTypes ==
  /\ thread \in [Reports -> [at : Points, error : {"none", "failed", "cancelled"}]]
  /\ \A t \in Reports : thread[t].at \in Path(t)
  /\ query \in [Watched \cup Pooled -> QueryStates]
  /\ events \subseteq {"user", "stop", "slice"}
  /\ holder \in Reports \cup {NoThread}
  /\ ageing \in [fetched : BOOLEAN, error : {"none", "failed", "cancelled"}]
  /\ errors \in {<<>>, <<"failed">>, <<"cancelled">>}

\* One thread at a time has the lock of the ageing.  Outside the lock no slice is
\* under way, and what was fetched came to its end.
AgeingIsShared ==
  /\ \A t \in Reports : thread[t].at = "fetching" <=> holder = t
  /\ holder = NoThread => \A q \in Slices : query[q] \in {"idle", "ok", "seen"}
  /\ holder # NoThread => \A q \in Slices : query[q] = "seen" => ageing.error # "none"
  /\ ageing.fetched => \A q \in Slices : query[q] = "ok"

\* A query is cut off, or left, only by a signal of the user or of a failed
\* report; a slice, also by that of its siblings.
CutsAreTold ==
  /\ \A q \in (Watched \ Slices) \cup Batches : query[q] \in {"cut", "quit"} => Told
  /\ \A q \in Slices : query[q] = "cut" => Told \/ ageing.error # "none"
  /\ "slice" \in events => ageing.error # "none"
  /\ ageing.error = "cancelled" => Told

\* The first error is recorded before the others are told to stop.
FailuresAreRecorded ==
  /\ \A t \in Reports :
       /\ thread[t].at = "raised" => thread[t].error # "none"
       /\ thread[t].at = "raised" /\ thread[t].error = "cancelled" => "user" \in events \/ errors # <<>>
       /\ thread[t].at \in {"recorded", "over"} => errors # <<>>
       /\ thread[t].at = "over" => "stop" \in events
  /\ "stop" \in events => errors # <<>>
  /\ errors = <<"cancelled">> => "user" \in events

\* A query goes on only while its report waits for it.
QueriesAreAwaited ==
  /\ query["register"] \in Under => thread["unapplied"].at = "register"
  /\ \A q \in Lookups : query[q] \in Under => thread["unapplied"].at = q
  /\ \A q \in Batches : query[q] \in Under => thread["gst"].at = "batches"
  /\ thread["gst"].at \in {"start", "ageing", "fetching", "open"} => \A q \in Batches : query[q] = "idle"

\* A report that is past a query has its answer.
AnswersAreThere ==
  /\ plan.on /\ thread["gst"].at \in {"open", "batches", "write", "done"} => ageing.fetched
  /\ plan.on /\ thread["untagged"].at \in {"regions", "write", "done"} => ageing.fetched
  /\ plan.on /\ thread["unapplied"].at \in {"regions", "comments", "locations", "write", "done"} => ageing.fetched
  /\ plan.on /\ thread["unapplied"].at \in {"ageing", "fetching", "regions", "comments", "locations", "write", "done"}
       => query["register"] = "ok"
  /\ plan.on /\ thread["unapplied"].at \in {"comments", "locations", "write", "done"} => query["region"] \in {"ok", "error"}

OutcomeIsLast ==
  /\ outcome # "none" => \A t \in Reports : thread[t].at \in {"done", "over"}
  /\ outcome \in {"mail", "held"} => plan.on /\ errors = <<>> /\ "user" \notin events
  /\ outcome = "cancelled" => "user" \in events
  /\ ~plan.on => outcome = "no build" /\ \A q \in Watched \cup Pooled : query[q] = "idle"

BuildInductive ==
  /\ BuildTypes /\ AgeingIsShared /\ CutsAreTold /\ FailuresAreRecorded
  /\ QueriesAreAwaited /\ AnswersAreThere /\ OutcomeIsLast

-----------------------------------------------------------------------------
(* Properties *)

\* A mail is made from queries that came to their end: none of those it needs
\* failed, and what a cancellation cut off is in no mail, although a look-up
\* that is cut off is taken for one that found nothing.  A build is recorded
\* as cancelled only if the user cancelled it, although each report that fails
\* cancels the others.  And when it is over no query of it goes on but the
\* regions', which is being stopped, and the open items', which may be missed.
BuildIsHonest ==
  /\ outcome \in {"mail", "held"} =>
       /\ \A q \in Slices \cup {"register"} : query[q] = "ok"
       /\ \A q \in Watched \cup Batches : query[q] \notin Under \cup {"cut", "quit"}
  /\ outcome = "cancelled" => "user" \in events
  /\ outcome # "none" =>
       \A q \in DOMAIN query : query[q] \in Under => q = "open" \/ (q = "region" /\ Told)

\* A build that the user cancels, or one of whose reports fails, comes to its
\* end and stops its query for the regions, even when the ERP never answers.
StopsWhenTold == Told ~> (outcome # "none" /\ query["region"] \notin Under)
=============================================================================
