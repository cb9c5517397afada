-------------------------- MODULE JobActionProofs --------------------------
(***************************************************************************)
(* Proofs about JobAction, for any number of previews, messages, requests  *)
(* and tabs.  Every step of a request replaces one record of req and keeps *)
(* its job, so the lemmas speak about the record "new" that replaces it.   *)
(***************************************************************************)
EXTENDS JobAction, TLAPS

Replaces(r, new) ==
  /\ r \in Requests /\ req[r].pc # "unused"
  /\ req' = [req EXCEPT ![r] = new]
  /\ new \in Request /\ new.pc # "unused" /\ new.job = req[r].job

\* A request that is replaced keeps its job and its action; the others keep all.
LEMMA Replaced ==
  ASSUME Inductive, NEW r, NEW new, Replaces(r, new)
  PROVE  /\ req' \in [Requests -> Request]
         /\ req'[r] = new
         /\ \A q \in Requests : q # r => req'[q] = req[q]
         /\ \A q \in Requests : req'[q].job = req[q].job /\ Name(q)' = Name(q)
         /\ req[r].job \in Jobs /\ Name(r) \in Requests \cup {Confirm}
         /\ \A q \in Requests : req'[q].pc # "unused" => req'[q].job \in Jobs
<1>1. /\ req \in [Requests -> Request] /\ r \in Requests
      /\ \A q \in Requests : req[q].pc # "unused" => req[q].job \in Jobs
  BY DEF Inductive, TypeOK, HoldersClaimed, Replaces
<1>2. /\ req' \in [Requests -> Request] /\ req'[r] = new
      /\ \A q \in Requests : q # r => req'[q] = req[q]
  BY <1>1 DEF Replaces
<1>3. \A q \in Requests : req'[q].job = req[q].job
  BY <1>1, <1>2 DEF Replaces
<1> QED BY <1>1, <1>2, <1>3 DEF Replaces, Name

\* A request ends with a true answer while the tables stay as they are.
LEMMA AnsweredKeeps ==
  ASSUME ActionConstants, Inductive, NEW r \in Requests, NEW a \in Answers,
         req[r].pc # "unused", Answered(r, a), UNCHANGED <<hidden, action, out>>,
         a \in {"sent", "completed"} => AllTaken(req[r].job)
  PROVE  Inductive'
<1> DEFINE new == [req[r] EXCEPT !.pc = "over", !.answer = a]
<1>0. /\ req \in [Requests -> Request]
      /\ tab \in [Tabs -> [job: Jobs, waits: Requests \cup {NoRequest}, told: BOOLEAN]]
  BY DEF Inductive, TypeOK
<1>1. Replaces(r, new) /\ new.pc = "over" /\ new.answer = a
  BY <1>0 DEF Replaces, Answered, Request
<1> HIDE DEF new
<1>2. /\ req' \in [Requests -> Request] /\ req'[r] = new
      /\ \A q \in Requests : q # r => req'[q] = req[q]
      /\ \A q \in Requests : req'[q].job = req[q].job /\ Name(q)' = Name(q)
      /\ \A q \in Requests : req'[q].pc # "unused" => req'[q].job \in Jobs
  BY <1>1, Replaced
<1>3. TypeOK'
  <2>1. tab' \in [Tabs -> [job: Jobs, waits: Requests \cup {NoRequest}, told: BOOLEAN]]
    BY <1>0 DEF Answered
  <2> QED BY <1>2, <2>1 DEF Inductive, TypeOK
<1>4. HoldersClaimed'
  BY <1>1, <1>2 DEF Inductive, HoldersClaimed, Holds, Status
<1>5. SentInOrder' /\ Early'
  BY <1>1, <1>2 DEF Inductive, SentInOrder, Early
<1>6. UnclaimedUnsent' /\ MessageSentOnce'
  BY DEF Inductive, UnclaimedUnsent, MessageSentOnce
<1>7. CompletedIsSent'
  BY <1>1, <1>2 DEF Inductive, CompletedIsSent, AllTaken
<1>8. AnswersAreTrue'
  BY <1>1, <1>2 DEF Inductive, AnswersAreTrue, AllTaken
<1> QED BY <1>3, <1>4, <1>5, <1>6, <1>7, <1>8 DEF Inductive

\* A request goes to a place where it does not hold the action yet.
LEMMA GoesKeeps ==
  ASSUME ActionConstants, Inductive, NEW r \in Requests, req[r].pc \in {"view", "read"},
         NEW pc \in {"view", "read", "insert"}, Goes(r, pc), UNCHANGED <<hidden, action, out>>
  PROVE  Inductive'
<1> DEFINE new == [req[r] EXCEPT !.pc = pc]
<1>0. req \in [Requests -> Request]
  BY DEF Inductive, TypeOK
<1>1. /\ Replaces(r, new) /\ new.pc = pc /\ new.answer = req[r].answer
      /\ new.next = req[r].next /\ new.ok = req[r].ok
  BY <1>0 DEF Replaces, Goes, Request
<1> HIDE DEF new
<1>2. /\ req' \in [Requests -> Request] /\ req'[r] = new
      /\ \A q \in Requests : q # r => req'[q] = req[q]
      /\ \A q \in Requests : req'[q].job = req[q].job /\ Name(q)' = Name(q)
      /\ \A q \in Requests : req'[q].pc # "unused" => req'[q].job \in Jobs
  BY <1>1, Replaced
<1>3. TypeOK'
  BY <1>2 DEF Inductive, TypeOK, Goes
<1>4. HoldersClaimed'
  BY <1>1, <1>2 DEF Inductive, HoldersClaimed, Holds, Status
<1>5. SentInOrder' /\ Early'
  BY <1>1, <1>2 DEF Inductive, SentInOrder, Early
<1>6. UnclaimedUnsent' /\ MessageSentOnce'
  BY DEF Inductive, UnclaimedUnsent, MessageSentOnce
<1>7. CompletedIsSent'
  BY <1>1, <1>2 DEF Inductive, CompletedIsSent, AllTaken
<1>8. AnswersAreTrue'
  BY <1>1, <1>2 DEF Inductive, AnswersAreTrue
<1> QED BY <1>3, <1>4, <1>5, <1>6, <1>7, <1>8 DEF Inductive

\* What SetStatus does to the table of actions.
LEMMA StatusSet ==
  ASSUME ActionConstants, Inductive, NEW r \in Requests, req[r].pc # "unused",
         NEW s \in Statuses, SetStatus(r, s)
  PROVE  /\ action' \in [Jobs -> [Requests \cup {Confirm} -> Statuses]]
         /\ action'[req[r].job][Name(r)] = s
         /\ \A j \in Jobs, a \in Requests \cup {Confirm} :
              j # req[r].job \/ a # Name(r) => action'[j][a] = action[j][a]
<1>1. /\ action \in [Jobs -> [Requests \cup {Confirm} -> Statuses]]
      /\ req[r].job \in Jobs /\ Name(r) \in Requests \cup {Confirm}
  BY DEF Inductive, TypeOK, HoldersClaimed, Name
<1> QED BY <1>1 DEF SetStatus

\* Insert: the first request to claim becomes the only holder.
LEMMA InsertKeeps ==
  ASSUME ActionConstants, Inductive, NEW r \in Requests, Insert(r)
  PROVE  Inductive'
<1>0. /\ req \in [Requests -> Request] /\ req[r].pc = "insert"
      /\ action \in [Jobs -> [Requests \cup {Confirm} -> Statuses]]
      /\ req[r].job \in Jobs /\ Name(r) \in Requests \cup {Confirm}
  BY DEF Insert, At, Inductive, TypeOK, HoldersClaimed, Name
<1>1. CASE Status(r) # "absent"
  <2>1. Status(r) \in Answers /\ (Status(r) = "completed" => AllTaken(req[r].job))
    <3>1. Status(r) \in Statuses
      BY <1>0 DEF Status
    <3>2. Status(r) = "completed" => AllTaken(req[r].job)
      BY <1>0 DEF Status, Inductive, CompletedIsSent
    <3> QED BY <3>1, <3>2 DEF Answers
  <2>2. Answered(r, Status(r)) /\ UNCHANGED <<hidden, action, out>> /\ Status(r) # "sent"
    BY <1>0, <1>1 DEF Insert, Status, Statuses
  <2> QED BY <1>0, <2>1, <2>2, AnsweredKeeps
<1>2. CASE Status(r) = "absent"
  <2> DEFINE new == [req[r] EXCEPT !.pc = "send"]
  <2>0. SetStatus(r, "in_progress") /\ Goes(r, "send") /\ UNCHANGED <<hidden, out>>
    BY <1>2 DEF Insert
  <2>1. /\ Replaces(r, new) /\ new.pc = "send" /\ new.answer = req[r].answer
        /\ new.next = req[r].next /\ new.ok = req[r].ok
    BY <1>0, <2>0 DEF Replaces, Goes, Request
  <2> HIDE DEF new
  <2>2. /\ req' \in [Requests -> Request] /\ req'[r] = new
        /\ \A q \in Requests : q # r => req'[q] = req[q]
        /\ \A q \in Requests : req'[q].job = req[q].job /\ Name(q)' = Name(q)
        /\ \A q \in Requests : req'[q].pc # "unused" => req'[q].job \in Jobs
    BY <2>1, Replaced
  <2>3. /\ action' \in [Jobs -> [Requests \cup {Confirm} -> Statuses]]
        /\ action'[req[r].job][Name(r)] = "in_progress"
        /\ \A j \in Jobs, a \in Requests \cup {Confirm} :
             j # req[r].job \/ a # Name(r) => action'[j][a] = action[j][a]
    BY <1>0, <2>0, StatusSet DEF Statuses
  <2>4. TypeOK'
    BY <2>0, <2>2, <2>3 DEF Inductive, TypeOK, Goes
  <2>5. HoldersClaimed'
    <3>1. \A q \in Requests : Holds(q) => req[q].job # req[r].job \/ Name(q) # Name(r)
      BY <1>2, <1>0 DEF Inductive, HoldersClaimed, Status
    <3>2. \A q \in Requests : Holds(q) => req[q].job \in Jobs /\ Name(q) \in Requests \cup {Confirm}
      BY DEF Inductive, HoldersClaimed, Holds, Name
    <3> QED BY <2>1, <2>2, <2>3, <3>1, <3>2 DEF Inductive, HoldersClaimed, Holds, Status
  <2>6. SentInOrder' /\ Early'
    <3>1. req[r].next = 1
      BY <1>0 DEF Inductive, Early
    <3>2. Messages[req[r].job] \in Nat \ {0}
      BY <1>0 DEF ActionConstants
    <3>3. req[r].job \in Previews => Name(r) = Confirm
      BY <1>0 DEF Name, ActionConstants
    <3>4. req[r].job \in Previews => \A m \in 1..Messages[req[r].job] : out[req[r].job][m] = 0
      BY <1>2, <3>3 DEF Inductive, UnclaimedUnsent, Status
    <3>5. SentInOrder'
      BY <2>0, <2>1, <2>2, <3>1, <3>2, <3>4 DEF Inductive, SentInOrder
    <3>6. Early'
      BY <1>0, <2>1, <2>2 DEF Inductive, Early
    <3> QED BY <3>5, <3>6
  <2>7. UnclaimedUnsent' /\ MessageSentOnce'
    BY <1>0, <2>0, <2>3 DEF Inductive, UnclaimedUnsent, MessageSentOnce, Jobs
  <2>8. CompletedIsSent'
    BY <2>0, <2>1, <2>2, <2>3 DEF Inductive, CompletedIsSent, AllTaken
  <2>9. AnswersAreTrue'
    BY <2>0, <2>1, <2>2 DEF Inductive, AnswersAreTrue
  <2> QED BY <2>4, <2>5, <2>6, <2>7, <2>8, <2>9 DEF Inductive
<1> QED BY <1>1, <1>2

\* The status of a claim is written together with the end of its request.
LEMMA SettledKeeps ==
  ASSUME ActionConstants, Inductive, NEW r \in Requests, req[r].pc # "unused",
         NEW s \in Statuses \ {"absent"}, NEW a \in Answers,
         SetStatus(r, s), Answered(r, a), UNCHANGED <<hidden, out>>,
         Status(r) = "absent" \/ Holds(r),
         s = "completed" \/ a \in {"sent", "completed"} => AllTaken(req[r].job)
  PROVE  Inductive'
<1> DEFINE new == [req[r] EXCEPT !.pc = "over", !.answer = a]
<1>0. /\ req \in [Requests -> Request]
      /\ tab \in [Tabs -> [job: Jobs, waits: Requests \cup {NoRequest}, told: BOOLEAN]]
      /\ req[r].job \in Jobs /\ Name(r) \in Requests \cup {Confirm}
  BY DEF Inductive, TypeOK, HoldersClaimed, Name
<1>1. Replaces(r, new) /\ new.pc = "over" /\ new.answer = a
  BY <1>0 DEF Replaces, Answered, Request
<1> HIDE DEF new
<1>2. /\ req' \in [Requests -> Request] /\ req'[r] = new
      /\ \A q \in Requests : q # r => req'[q] = req[q]
      /\ \A q \in Requests : req'[q].job = req[q].job /\ Name(q)' = Name(q)
      /\ \A q \in Requests : req'[q].pc # "unused" => req'[q].job \in Jobs
  BY <1>1, Replaced
<1>3. /\ action' \in [Jobs -> [Requests \cup {Confirm} -> Statuses]]
      /\ action'[req[r].job][Name(r)] = s
      /\ \A j \in Jobs, b \in Requests \cup {Confirm} :
           j # req[r].job \/ b # Name(r) => action'[j][b] = action[j][b]
  BY <1>0, StatusSet
<1>4. TypeOK'
  <2>1. tab' \in [Tabs -> [job: Jobs, waits: Requests \cup {NoRequest}, told: BOOLEAN]]
    BY <1>0 DEF Answered
  <2> QED BY <1>2, <1>3, <2>1 DEF Inductive, TypeOK
<1>5. HoldersClaimed'
  <2>1. \A q \in Requests : q # r /\ Holds(q) => req[q].job # req[r].job \/ Name(q) # Name(r)
    BY <1>0 DEF Inductive, HoldersClaimed, Status
  <2>2. \A q \in Requests : Holds(q) => req[q].job \in Jobs /\ Name(q) \in Requests \cup {Confirm}
    BY DEF Inductive, HoldersClaimed, Holds, Name
  <2> QED BY <1>1, <1>2, <1>3, <2>1, <2>2 DEF Inductive, HoldersClaimed, Holds, Status
<1>6. SentInOrder' /\ Early'
  BY <1>1, <1>2 DEF Inductive, SentInOrder, Early
<1>7. UnclaimedUnsent' /\ MessageSentOnce'
  BY <1>0, <1>3 DEF Inductive, UnclaimedUnsent, MessageSentOnce, Jobs
<1>8. CompletedIsSent'
  BY <1>1, <1>2, <1>3 DEF Inductive, CompletedIsSent, AllTaken
<1>9. AnswersAreTrue'
  BY <1>1, <1>2 DEF Inductive, AnswersAreTrue, AllTaken
<1> QED BY <1>4, <1>5, <1>6, <1>7, <1>8, <1>9 DEF Inductive

LEMMA InsertRaisesKeeps ==
  ASSUME ActionConstants, Inductive, NEW r \in Requests, InsertRaises(r)
  PROVE  Inductive'
<1>1. req[r].pc = "insert" /\ Answered(r, "lost") /\ UNCHANGED <<hidden, out>>
  BY DEF InsertRaises, At
<1>2. CASE UNCHANGED action
  BY <1>1, <1>2, AnsweredKeeps DEF Answers
<1>3. CASE Status(r) = "absent" /\ SetStatus(r, "in_progress")
  BY <1>1, <1>3, SettledKeeps DEF Answers, Statuses
<1> QED BY <1>2, <1>3 DEF InsertRaises

LEMMA FinishActionKeeps ==
  ASSUME ActionConstants, Inductive, NEW r \in Requests, FinishAction(r)
  PROVE  Inductive'
<1>1. /\ req[r].pc = "finish" /\ Holds(r) /\ UNCHANGED <<hidden, out>>
      /\ Status(r) = "in_progress"
      /\ req[r].ok => AllTaken(req[r].job)
  BY DEF FinishAction, At, Holds, Inductive, HoldersClaimed, CompletedIsSent
<1>2. CASE req[r].ok
  <2>1. SetStatus(r, "completed") /\ Answered(r, "sent")
    BY <1>1, <1>2 DEF FinishAction
  <2> QED BY <1>1, <1>2, <2>1, SettledKeeps DEF Answers, Statuses
<1>3. CASE ~req[r].ok
  <2>1. SetStatus(r, "failed") /\ Answered(r, "not sent")
    BY <1>1, <1>3 DEF FinishAction
  <2> QED BY <1>1, <2>1, SettledKeeps DEF Answers, Statuses
<1> QED BY <1>2, <1>3

\* A holder hands over its next message, or maybe not, and goes on or finishes.
LEMMA SendKeeps ==
  ASSUME ActionConstants, Inductive, NEW r \in Requests, Send(r) \/ SendRaises(r)
  PROVE  Inductive'
<1> DEFINE j == req[r].job
           n == req[r].next
           new == req'[r]
<1>0. /\ req \in [Requests -> Request] /\ req[r].pc = "send" /\ Holds(r)
      /\ out = [i \in Jobs |-> out[i]] /\ \A i \in Jobs : out[i] \in [1..Messages[i] -> Nat]
      /\ j \in Jobs /\ Messages[j] \in Nat \ {0} /\ n \in 1..Messages[j]
      /\ UNCHANGED <<hidden, action, tab>>
  BY DEF Send, SendRaises, At, Holds, Inductive, TypeOK, HoldersClaimed, SentInOrder, ActionConstants
<1>1. /\ Replaces(r, new) /\ new.answer = req[r].answer
      /\ new.pc \in {"send", "finish"} /\ (new.ok => new.pc = "finish")
      /\ new.pc = "send" => Send(r) /\ n < Messages[j] /\ new.next = n + 1
      /\ new.pc = "finish" /\ new.ok => (Send(r) /\ n = Messages[j]) \/ req[r].ok
  <2>0. ~req[r].ok
    BY <1>0 DEF Inductive, Early
  <2>1. CASE Send(r)
    <3> DEFINE rec == [req[r] EXCEPT !.next = n + 1,
                         !.pc = IF n = Messages[j] THEN "finish" ELSE "send",
                         !.ok = n = Messages[j]]
    <3>0. rec \in Request
      <4>1. req[r] \in Request /\ n + 1 \in Nat /\ (n = Messages[j]) \in BOOLEAN
        BY <1>0
      <4>2. (IF n = Messages[j] THEN "finish" ELSE "send") \in {"send", "finish"}
        OBVIOUS
      <4> QED BY <4>1, <4>2 DEF Request
    <3>1. req' = [req EXCEPT ![r] = rec] /\ rec \in Request
      BY <1>0, <2>1, <3>0 DEF Send
    <3>2. new = rec
      BY <1>0, <3>1
    <3> QED BY <1>0, <2>0, <2>1, <3>1, <3>2 DEF Replaces, Request
  <2>2. CASE SendRaises(r)
    <3> DEFINE rec == [req[r] EXCEPT !.pc = "finish"]
    <3>1. req' = [req EXCEPT ![r] = rec] /\ rec \in Request
      BY <1>0, <2>2 DEF SendRaises, Request
    <3>2. new = rec
      BY <1>0, <3>1
    <3> QED BY <1>0, <2>0, <3>1, <3>2 DEF Replaces, Request
  <2> QED BY <2>1, <2>2
<1>2. /\ req' \in [Requests -> Request] /\ req'[r] = new
      /\ \A q \in Requests : q # r => req'[q] = req[q]
      /\ \A q \in Requests : req'[q].job = req[q].job /\ Name(q)' = Name(q)
      /\ \A q \in Requests : req'[q].pc # "unused" => req'[q].job \in Jobs
  BY <1>1, Replaced
\* The tables: only message n of job j may be taken, once more than before.
<1>3. /\ out' = [i \in Jobs |-> out'[i]] /\ \A i \in Jobs : out'[i] \in [1..Messages[i] -> Nat]
      /\ \A i \in Jobs : \A m \in 1..Messages[i] :
           out'[i][m] = out[i][m] \/ (i = j /\ m = n /\ out'[i][m] = out[i][m] + 1)
      /\ Send(r) => out'[j][n] = out[j][n] + 1
  <2>1. CASE Taken(r)
    <3> DEFINE more == [out[j] EXCEPT ![n] = out[j][n] + 1]
    <3>1. /\ more \in [1..Messages[j] -> Nat] /\ more[n] = out[j][n] + 1
          /\ \A m \in 1..Messages[j] : m # n => more[m] = out[j][m]
      BY <1>0
    <3>2. out' = [out EXCEPT ![j] = more]
      BY <1>0, <2>1 DEF Taken
    <3> HIDE DEF more
    <3>3. /\ out' = [i \in Jobs |-> out'[i]] /\ out'[j] = more
          /\ \A i \in Jobs : i # j => out'[i] = out[i]
      BY <1>0, <3>2
    <3> QED BY <1>0, <3>1, <3>3
  <2>2. CASE UNCHANGED out /\ ~Send(r)
    BY <1>0, <2>2
  <2> QED BY <2>1, <2>2 DEF Send, SendRaises
<1> HIDE DEF new
<1>4. \A i \in Jobs : \A m \in 1..Messages[i] : out'[i][m] >= out[i][m]
  BY <1>0, <1>3
<1>5. /\ \A m \in 1..Messages[j] : m < n => out[j][m] >= 1
      /\ j \in Previews => \A m \in 1..Messages[j] : m >= n => out[j][m] = 0
  BY <1>0 DEF Inductive, SentInOrder
<1>6. TypeOK'
  BY <1>0, <1>2, <1>3 DEF Inductive, TypeOK
<1>7. HoldersClaimed'
  <2>1. \A q \in Requests : Holds(q)' => Holds(q)
    BY <1>0, <1>2 DEF Holds
  <2>2. \A q \in Requests : Status(q)' = Status(q)
    BY <1>0, <1>2 DEF Status
  <2> QED BY <1>2, <2>1, <2>2 DEF Inductive, HoldersClaimed
<1>8. Early'
  <2>1. req[r].answer = "none"
    BY <1>0 DEF Inductive, Early
  <2> QED BY <1>1, <1>2, <2>1 DEF Inductive, Early
\* Another sender of a preview would hold the same action.
<1>9. \A q \in Requests : q # r /\ req[q].pc = "send" => req[q].job # j \/ j \notin Previews
  <2> SUFFICES ASSUME NEW q \in Requests, q # r, req[q].pc = "send", req[q].job = j, j \in Previews
               PROVE  FALSE
    OBVIOUS
  <2>1. Name(q) = Name(r) /\ Holds(q)
    BY <1>0 DEF Name, Holds, ActionConstants
  <2> QED BY <1>0, <2>1 DEF Inductive, HoldersClaimed
<1>10. SentInOrder'
  <2> SUFFICES ASSUME NEW q \in Requests, req'[q].pc = "send"
               PROVE  /\ req'[q].next \in 1..Messages[req'[q].job]
                      /\ \A m \in 1..Messages[req'[q].job] :
                           /\ m < req'[q].next => out'[req'[q].job][m] >= 1
                           /\ req'[q].job \in Previews /\ m >= req'[q].next => out'[req'[q].job][m] = 0
    BY DEF SentInOrder
  <2>1. CASE q = r
    <3>1. req'[q].job = j /\ req'[q].next = n + 1 /\ n < Messages[j] /\ out'[j][n] = out[j][n] + 1
      BY <1>1, <1>2, <1>3, <2>1
    <3>2. \A m \in 1..Messages[j] : m < n + 1 => out'[j][m] >= 1
      BY <1>0, <1>3, <1>4, <1>5, <3>1
    <3>3. j \in Previews => \A m \in 1..Messages[j] : m >= n + 1 => out'[j][m] = 0
      <4> SUFFICES ASSUME j \in Previews, NEW m \in 1..Messages[j], m >= n + 1
                   PROVE  out'[j][m] = 0
        OBVIOUS
      <4>1. m # n /\ m >= n
        BY <1>0
      <4> QED BY <1>0, <1>3, <1>5, <4>1
    <3>4. n + 1 \in 1..Messages[j]
      BY <1>0, <3>1
    <3> QED BY <3>1, <3>2, <3>3, <3>4
  <2>2. CASE q # r
    <3>1. req'[q] = req[q] /\ req[q].job \in Jobs /\ req[q].pc = "send"
      BY <1>2, <2>2 DEF Inductive, HoldersClaimed
    <3>2. req[q].job = j => j \notin Previews
      BY <1>9, <2>2, <3>1
    <3>3. /\ req[q].next \in 1..Messages[req[q].job]
          /\ \A m \in 1..Messages[req[q].job] :
               /\ m < req[q].next => out[req[q].job][m] >= 1
               /\ req[q].job \in Previews /\ m >= req[q].next => out[req[q].job][m] = 0
      BY <3>1 DEF Inductive, SentInOrder
    <3>4. \A m \in 1..Messages[req[q].job] : m < req[q].next => out'[req[q].job][m] >= 1
      BY <1>0, <1>3, <1>4, <3>1, <3>3
    <3>5. \A m \in 1..Messages[req[q].job] :
            req[q].job \in Previews /\ m >= req[q].next => out'[req[q].job][m] = 0
      BY <1>3, <3>1, <3>2, <3>3
    <3> QED BY <3>1, <3>3, <3>4, <3>5
  <2> QED BY <2>1, <2>2
<1>11. UnclaimedUnsent'
  <2>1. \A i \in Previews : action[i][Confirm] = "absent" => i # j
    <3>1. j \in Previews => Name(r) = Confirm
      BY <1>0 DEF Name, ActionConstants
    <3> QED BY <1>0, <3>1 DEF Inductive, HoldersClaimed, Status
  <2> QED BY <1>0, <1>3, <2>1 DEF Inductive, UnclaimedUnsent, Jobs
<1>12. MessageSentOnce'
  <2> SUFFICES ASSUME NEW i \in Previews, NEW m \in 1..Messages[i]
               PROVE  out'[i][m] <= 1
    BY DEF MessageSentOnce
  <2>1. i \in Jobs /\ out[i][m] \in Nat /\ out[i][m] <= 1
    BY <1>0 DEF Jobs, Inductive, MessageSentOnce
  <2>2. i = j /\ m = n => out[i][m] = 0
    BY <1>0, <1>5
  <2> QED BY <1>3, <2>1, <2>2
<1>13. \A i \in Jobs : AllTaken(i) => AllTaken(i)'
  BY <1>0, <1>3, <1>4 DEF AllTaken
<1>14. CompletedIsSent'
  <2>1. new.pc = "finish" /\ new.ok => AllTaken(j)'
    <3>1. CASE Send(r) /\ n = Messages[j]
      <4> SUFFICES ASSUME NEW m \in 1..Messages[j] PROVE out'[j][m] >= 1
        BY <1>2 DEF AllTaken
      <4>1. CASE m = n
        BY <1>0, <1>3, <3>1, <4>1
      <4>2. CASE m < n
        <5>1. out[j][m] >= 1 /\ out[j][m] \in Nat
          BY <1>0, <1>5, <4>2
        <5> QED BY <1>0, <1>4, <5>1, <1>3
      <4> QED BY <1>0, <3>1, <4>1, <4>2
    <3>2. ~req[r].ok
      BY <1>0 DEF Inductive, Early
    <3> QED BY <1>1, <3>1, <3>2
  <2>2. \A q \in Requests : req[q].pc # "unused" => req[q].job \in Jobs
    BY DEF Inductive, HoldersClaimed
  <2> QED BY <1>0, <1>2, <1>13, <2>1, <2>2 DEF Inductive, CompletedIsSent, AllTaken
<1>15. AnswersAreTrue'
  <2>1. \A q \in Requests : req'[q].answer = req[q].answer
    BY <1>1, <1>2
  <2>2. \A q \in Requests : req[q].answer # "none" => req[q].job \in Jobs
    BY DEF Inductive, Early, HoldersClaimed
  <2> QED BY <1>2, <1>13, <2>1, <2>2 DEF Inductive, AnswersAreTrue, AllTaken
<1> QED BY <1>6, <1>7, <1>8, <1>10, <1>11, <1>12, <1>14, <1>15 DEF Inductive

\* The browser and the sweep do not touch the requests that hold an action.
LEMMA ClickKeeps ==
  ASSUME ActionConstants, Inductive, NEW t \in Tabs, NEW r \in Requests, Click(t, r)
  PROVE  Inductive'
<1> DEFINE new == [req[r] EXCEPT !.pc = "view", !.job = tab[t].job]
<1>1. /\ req \in [Requests -> Request] /\ req[r].pc = "unused" /\ tab[t].job \in Jobs
      /\ tab \in [Tabs -> [job: Jobs, waits: Requests \cup {NoRequest}, told: BOOLEAN]]
      /\ req' = [req EXCEPT ![r] = new] /\ UNCHANGED <<hidden, action, out>>
  BY DEF Click, At, Inductive, TypeOK
<1>2. /\ new \in Request /\ new.pc = "view" /\ new.job = tab[t].job
      /\ new.next = req[r].next /\ new.ok = req[r].ok /\ new.answer = req[r].answer
  BY <1>1 DEF Request
<1> HIDE DEF new
<1>3. /\ req' \in [Requests -> Request] /\ req'[r] = new
      /\ \A q \in Requests : q # r => req'[q] = req[q] /\ Name(q)' = Name(q)
  BY <1>1, <1>2 DEF Name
<1>4. TypeOK'
  <2>1. tab' \in [Tabs -> [job: Jobs, waits: Requests \cup {NoRequest}, told: BOOLEAN]]
    BY <1>1 DEF Click
  <2> QED BY <1>1, <1>3, <2>1 DEF Inductive, TypeOK
<1>5. HoldersClaimed'
  <2>1. \A q \in Requests : Holds(q)' => q # r /\ Holds(q)
    BY <1>2, <1>3 DEF Holds
  <2>2. \A q \in Requests : q # r => Status(q)' = Status(q)
    BY <1>1, <1>3 DEF Status
  <2>3. \A q \in Requests : req'[q].pc # "unused" => req'[q].job \in Jobs
    BY <1>1, <1>2, <1>3 DEF Inductive, HoldersClaimed
  <2>4. \A q, x \in Requests :
          Holds(q)' /\ Holds(x)' /\ req'[q].job = req'[x].job /\ Name(q)' = Name(x)' => q = x
    BY <1>3, <2>1 DEF Inductive, HoldersClaimed
  <2>5. \A q \in Requests : Holds(q)' => Status(q)' = "in_progress"
    BY <2>1, <2>2 DEF Inductive, HoldersClaimed
  <2> QED BY <2>3, <2>4, <2>5 DEF HoldersClaimed
<1>6. SentInOrder'
  BY <1>1, <1>2, <1>3 DEF Inductive, SentInOrder
<1>7. Early'
  BY <1>1, <1>2, <1>3 DEF Inductive, Early
<1>8. UnclaimedUnsent' /\ MessageSentOnce'
  BY <1>1 DEF Inductive, UnclaimedUnsent, MessageSentOnce
<1>9. CompletedIsSent'
  BY <1>1, <1>2, <1>3 DEF Inductive, CompletedIsSent, AllTaken
<1>10. AnswersAreTrue'
  <2>1. req[r].answer = "none"
    BY <1>1 DEF Inductive, Early
  <2> QED BY <1>1, <1>2, <1>3, <2>1 DEF Inductive, AnswersAreTrue
<1> QED BY <1>4, <1>5, <1>6, <1>7, <1>8, <1>9, <1>10 DEF Inductive

LEMMA GiveUpKeeps ==
  ASSUME Inductive, NEW t \in Tabs, GiveUp(t)
  PROVE  Inductive'
<1>1. TypeOK'
  BY DEF GiveUp, Inductive, TypeOK
<1> QED BY <1>1 DEF GiveUp, Inductive, HoldersClaimed, Holds, Status, Name, Early, SentInOrder,
           UnclaimedUnsent, CompletedIsSent, AllTaken, MessageSentOnce, AnswersAreTrue

LEMMA PruneKeeps ==
  ASSUME Inductive, NEW j \in Jobs, Prune(j)
  PROVE  Inductive'
<1>1. TypeOK'
  BY DEF Prune, Inductive, TypeOK
<1> QED BY <1>1 DEF Prune, Inductive, HoldersClaimed, Holds, Status, Name, Early, SentInOrder,
           UnclaimedUnsent, CompletedIsSent, AllTaken, MessageSentOnce, AnswersAreTrue

\* A request is refused, or goes on to the claim.
LEMMA LooksKeep ==
  ASSUME ActionConstants, Inductive, NEW r \in Requests, View(r) \/ ReadAction(r)
  PROVE  Inductive'
<1>1. req[r].pc \in {"view", "read"} /\ UNCHANGED <<hidden, action, out>>
  BY DEF View, ReadAction, At
<1>2. CASE Answered(r, "missing")
  BY <1>1, <1>2, AnsweredKeeps DEF Answers
<1>3. CASE Goes(r, "read") \/ Goes(r, "insert")
  BY <1>1, <1>3, GoesKeeps
<1>4. CASE Answered(r, Status(r))
  <2>1. action \in [Jobs -> [Requests \cup {Confirm} -> Statuses]] /\ req[r].job \in Jobs
    BY <1>1 DEF Inductive, TypeOK, HoldersClaimed
  <2>2. Status(r) \in Statuses /\ Name(r) \in Requests \cup {Confirm}
    BY <2>1 DEF Status, Name
  <2>3. Status(r) = "completed" => AllTaken(req[r].job)
    BY <2>1, <2>2 DEF Status, Inductive, CompletedIsSent
  <2> QED BY <1>1, <1>4, <2>2, <2>3, AnsweredKeeps DEF Answers, Statuses
<1> QED BY <1>2, <1>3, <1>4 DEF View, ReadAction

\* A request dies, or finish_job_action raises: the claim stays in progress.
LEMMA LostKeeps ==
  ASSUME ActionConstants, Inductive, NEW r \in Requests, FinishActionRaises(r) \/ Crash(r)
  PROVE  Inductive'
<1>1. req[r].pc # "unused" /\ Answered(r, "lost") /\ UNCHANGED <<hidden, action, out>>
  BY DEF FinishActionRaises, Crash, At
<1> QED BY <1>1, AnsweredKeeps DEF Answers

LEMMA InitInductive ==
  ASSUME ActionConstants, Init
  PROVE  Inductive
<1>1. TypeOK
  <2>1. Unused \in Request
    BY DEF Unused, Request, Answers
  <2>2. \A j \in Jobs : out[j] \in [1..Messages[j] -> Nat]
    BY DEF Init
  <2> QED BY <2>1, <2>2 DEF Init, TypeOK, Statuses
<1>2. \A r \in Requests : req[r] = Unused
  BY DEF Init
<1>3. \A r \in Requests : /\ req[r].pc = "unused" /\ req[r].next = 1 /\ ~req[r].ok
                          /\ req[r].answer = "none"
  BY <1>2 DEF Unused
<1>4. HoldersClaimed /\ Early /\ SentInOrder /\ AnswersAreTrue
  BY <1>3 DEF HoldersClaimed, Holds, Early, SentInOrder, AnswersAreTrue
<1>5. UnclaimedUnsent /\ MessageSentOnce
  BY DEF Init, UnclaimedUnsent, MessageSentOnce, Jobs
<1>6. CompletedIsSent
  BY <1>3 DEF Init, CompletedIsSent
<1> QED BY <1>1, <1>4, <1>5, <1>6 DEF Inductive

LEMMA NextInductive ==
  ASSUME ActionConstants, Inductive, [Next]_vars
  PROVE  Inductive'
<1>1. CASE Next
  <2>1. ASSUME NEW t \in Tabs, GiveUp(t) PROVE Inductive'
    BY <2>1, GiveUpKeeps
  <2>2. ASSUME NEW t \in Tabs, NEW r \in Requests, Click(t, r) PROVE Inductive'
    BY <2>2, ClickKeeps
  <2>3. ASSUME NEW r \in Requests,
               View(r) \/ ReadAction(r) \/ Insert(r) \/ InsertRaises(r) \/ Send(r) \/ SendRaises(r)
                 \/ FinishAction(r) \/ FinishActionRaises(r) \/ Crash(r)
        PROVE  Inductive'
    BY <2>3, LooksKeep, InsertKeeps, InsertRaisesKeeps, SendKeeps, FinishActionKeeps, LostKeeps
  <2>4. ASSUME NEW j \in Jobs, Prune(j) PROVE Inductive'
    BY <2>4, PruneKeeps
  <2> QED BY <1>1, <2>1, <2>2, <2>3, <2>4 DEF Next
<1>2. CASE UNCHANGED vars
  <2>1. TypeOK'
    BY <1>2 DEF vars, Inductive, TypeOK
  <2> QED BY <1>2, <2>1 DEF vars, Inductive, HoldersClaimed, Holds, Status, Name, Early,
         SentInOrder, UnclaimedUnsent, CompletedIsSent, AllTaken, MessageSentOnce, AnswersAreTrue
<1> QED BY <1>1, <1>2

\* The inductive invariant holds in every behaviour: claims, holders, sent
\* messages and answers of claim_job_action's users agree.
THEOREM InvariantHolds == Spec => []Inductive
<1>1. Init => Inductive
  BY InitInductive, ActionConstants
<1>2. Inductive /\ [Next]_vars => Inductive'
  BY NextInductive, ActionConstants
<1> QED BY <1>1, <1>2, PTL DEF Spec

\* A confirmed preview hands each message over at most once, for any number of
\* tabs, requests, crashes and failed statements.
THEOREM ConfirmSendsOnce == Spec => []MessageSentOnce
<1>1. Inductive => MessageSentOnce
  BY DEF Inductive
<1> QED BY <1>1, InvariantHolds, PTL

\* "sent" and "completed" are only answered when every message was taken.
THEOREM SentMeansSent == Spec => []AnswersAreTrue
<1>1. Inductive => AnswersAreTrue
  BY DEF Inductive
<1> QED BY <1>1, InvariantHolds, PTL

\* Nothing leaves under a confirm-send that is recorded as completed or failed,
\* and no later request changes that record.
THEOREM VerdictIsFinal == Spec => NothingAfterVerdict
<1>1. Inductive /\ [Next]_vars =>
        [\A j \in Previews :
           action[j][Confirm] \in {"completed", "failed"} =>
             out'[j] = out[j] /\ action'[j][Confirm] = action[j][Confirm]]_vars
  <2> SUFFICES ASSUME Inductive, Next,
                      NEW j \in Previews, action[j][Confirm] \in {"completed", "failed"}
               PROVE  out'[j] = out[j] /\ action'[j][Confirm] = action[j][Confirm]
    OBVIOUS
  <2>1. ASSUME NEW r \in Requests, Send(r) \/ SendRaises(r) PROVE out'[j] = out[j]
    <3>1. /\ Status(r) = "in_progress" /\ req[r].job \in Jobs
          /\ out = [i \in Jobs |-> out[i]]
      BY <2>1 DEF Send, SendRaises, At, Inductive, TypeOK, HoldersClaimed, Holds
    <3>2. req[r].job # j
      BY <3>1, ActionConstants DEF Status, Name, ActionConstants
    <3> QED BY <2>1, <3>1, <3>2 DEF Send, SendRaises, Taken, Jobs
  <2>2. ASSUME NEW r \in Requests, NEW s \in Statuses, SetStatus(r, s), req[r].pc # "unused",
               Status(r) \in {"absent", "in_progress"}
        PROVE  action'[j][Confirm] = action[j][Confirm]
    <3>1. j # req[r].job \/ Confirm # Name(r)
      BY <2>2 DEF Status
    <3> QED BY <2>2, <3>1, StatusSet, ActionConstants DEF Jobs
  <2>3. ASSUME NEW r \in Requests, Insert(r) \/ InsertRaises(r) \/ FinishAction(r)
        PROVE  out'[j] = out[j] /\ action'[j][Confirm] = action[j][Confirm]
    <3>1. req[r].pc # "unused" /\ UNCHANGED out
      BY <2>3 DEF Insert, InsertRaises, FinishAction, At
    <3>2. CASE UNCHANGED action
      BY <3>1, <3>2
    <3>3. CASE ~UNCHANGED action
      <4>1. PICK s \in Statuses : SetStatus(r, s) /\ Status(r) \in {"absent", "in_progress"}
        BY <2>3, <3>3 DEF Insert, InsertRaises, FinishAction, Statuses
      <4> QED BY <2>2, <3>1, <4>1
    <3> QED BY <3>2, <3>3
  <2>4. CASE UNCHANGED <<out, action>>
    BY <2>4
  <2>5. ASSUME NEW r \in Requests, Send(r) \/ SendRaises(r) PROVE UNCHANGED action
    BY <2>5 DEF Send, SendRaises
  <2> QED BY <2>1, <2>3, <2>4, <2>5 DEF Next, GiveUp, Click, View, ReadAction,
         FinishActionRaises, Crash, Prune
<1> QED BY <1>1, InvariantHolds, PTL DEF Spec, NothingAfterVerdict
=============================================================================
