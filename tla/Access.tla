------------------------------- MODULE Access -------------------------------
(***************************************************************************)
(* Logins, sessions, password resets and the removal of admins:            *)
(* backend/app/auth.py, backend/app/routers/auth_routes.py and the user    *)
(* routes of backend/app/routers/admin_routes.py, on top of RateLimit.     *)
(*                                                                         *)
(* A session is a signed cookie and nothing else: it carries the marker of *)
(* the credential it was opened with and the time of the last activity,    *)
(* and every request compares it with the user's row.  Requests of one     *)
(* browser overlap, and so do the requests that change the row.            *)
(***************************************************************************)
EXTENDS RateLimit

CONSTANTS
  Logins, Activities, Logouts,  \* requests of one browser, for one account
  Resets,                       \* uses of the links that were mailed
  Links,                        \* mailed links
  Removals,                     \* admins' requests to deactivate or archive one of Admins
  Admins,
  ClientKey, AccountKey,        \* login-ip:..., login-account:...
  SessionIdle                   \* SESSION_IDLE_TIMEOUT

\* Each request is of one kind, and there is a first admin.
AccessConstants ==
  /\ Callers = Logins /\ LimitKeys = {ClientKey, AccountKey} /\ ClientKey # AccountKey
  /\ Limit \in Nat /\ {Window, LockWait, MaxTime} \subseteq Nat /\ SessionIdle \in Nat
  /\ NoOne \notin Logins \cup LimitKeys \cup Links \cup Admins
  /\ Logins \cap (Activities \cup Logouts \cup Resets \cup Removals) = {}
  /\ Activities \cap (Logouts \cup Resets \cup Removals) = {}
  /\ Logouts \cap (Resets \cup Removals) = {} /\ Resets \cap Removals = {}
  /\ IsFiniteSet(Resets) /\ IsFiniteSet(Admins) /\ Admins # {}

Requests == Logins \cup Activities \cup Logouts \cup Resets \cup Removals

VARIABLES
  user,      \* the account: the version of its password, is_active
  cookie,    \* the browser's session
  req,       \* the requests
  link,      \* the links: for which password, and how often they have been used
  admins,    \* the admins who are active
  strays,    \* since the last logout: the requests that were in flight then
  rushed     \* have two removals of admins overlapped?

access == <<user, cookie, req, link, admins, strays, rushed>>
serving == <<limiter, access>>

Passwords == 0..Cardinality(Resets)

\* cred is the credential marker.  Not in the cookie: root, the password its
\* login was checked against.
Session == [cred: Passwords, last: Int, root: Passwords]
NoSession == [cred |-> 0, last |-> -1, root |-> 0]

Req == [pc: {"none", "client", "account", "check", "sent", "commit", "answer", "over"},
        got: Session, seen: Passwords, on: Links \cup Admins \cup {NoOne}, after: SUBSET Resets]

NewReq == [pc |-> "none", got |-> NoSession, seen |-> 0, on |-> NoOne, after |-> {}]

AccessInit(team) ==
  /\ RateLimitInit
  /\ user = [pass |-> 0, active |-> TRUE]
  /\ cookie = NoSession
  /\ req = [r \in Requests |-> IF r \in team THEN NewReq ELSE [NewReq EXCEPT !.pc = "over"]]
  /\ link = [l \in Links |-> [cred |-> -1, used |-> {}]]
  /\ admins = Admins
  /\ strays = {}
  /\ rushed = FALSE

At(r, pc) == req[r].pc = pc
InFlight(r) == req[r].pc \notin {"none", "over"}
Ends(r) == req' = [req EXCEPT ![r].pc = "over"]

-----------------------------------------------------------------------------
(* login *)

Attempt(r) ==
  /\ At(r, "none")
  /\ Enter(r, ClientKey)
  /\ req' = [req EXCEPT ![r].pc = "client"]
  /\ UNCHANGED <<user, cookie, link, admins, strays, rushed>>

Limited(r) ==
  /\ req[r].pc \in {"client", "account"}
  /\ Enforce(r)
  /\ UNCHANGED access

\* The attempt counts for the client, and then for the account.
NextKey(r) ==
  /\ At(r, "client") /\ call[r].pc = "allowed"
  /\ Enter(r, AccountKey)
  /\ req' = [req EXCEPT ![r].pc = "account"]
  /\ UNCHANGED <<user, cookie, link, admins, strays, rushed>>

\* 429, 503 or 500.
TurnedAway(r) ==
  /\ req[r].pc \in {"client", "account"} /\ call[r].pc \in {"blocked", "busy", "failed"}
  /\ Ends(r)
  /\ UNCHANGED <<limiter, user, cookie, link, admins, strays, rushed>>

\* The row is read once: the password is checked against it, for some tenths of
\* a second, and the session is opened for it.  Or the password is wrong.
ReadUser(r) ==
  /\ At(r, "account") /\ call[r].pc = "allowed"
  /\ \/ user.active /\ req' = [req EXCEPT ![r].pc = "check", ![r].seen = user.pass]
     \/ Ends(r)
  /\ UNCHANGED <<limiter, user, cookie, link, admins, strays, rushed>>

\* create_session
Opened(cred, root) == [cred |-> cred, last |-> clock, root |-> root]

\* Mutant of Verified: the row is read again for the cookie.
Verified_ReadsAgain(r) ==
  /\ At(r, "check")
  /\ req' = [req EXCEPT ![r].pc = "answer", ![r].got = Opened(user.pass, req[r].seen)]
  /\ UNCHANGED <<limiter, user, cookie, link, admins, strays, rushed>>

Verified(r) ==
  /\ At(r, "check")
  /\ req' = [req EXCEPT ![r].pc = "answer", ![r].got = Opened(req[r].seen, req[r].seen)]
  /\ UNCHANGED <<limiter, user, cookie, link, admins, strays, rushed>>

-----------------------------------------------------------------------------
(* Requests with the cookie. *)

\* The browser sends what it has at that moment.
Send(r) ==
  /\ r \in Activities \cup Logouts /\ At(r, "none") /\ cookie # NoSession
  /\ req' = [req EXCEPT ![r].pc = "sent", ![r].got = cookie]
  /\ UNCHANGED <<limiter, user, cookie, link, admins, strays, rushed>>

\* get_current_user
Welcome(s) == clock - s.last < SessionIdle /\ user.active /\ s.cred = user.pass

\* activity: a new cookie, for the row that was read.
Activity(r) ==
  /\ r \in Activities /\ At(r, "sent")
  /\ IF Welcome(req[r].got)
     THEN req' = [req EXCEPT ![r].pc = "answer", ![r].got = Opened(user.pass, @.root)]
     ELSE Ends(r)
  /\ UNCHANGED <<limiter, user, cookie, link, admins, strays, rushed>>

\* Answers come in any order, and the last one wins.
Receive(r) ==
  /\ At(r, "answer")
  /\ cookie' = req[r].got
  /\ strays' = IF r \in Logins /\ r \notin strays THEN Logins ELSE strays
  /\ Ends(r)
  /\ UNCHANGED <<limiter, user, link, admins, rushed>>

\* clear_session; the server keeps nothing, and asks nothing.
LoggedOut(r) ==
  /\ r \in Logouts /\ At(r, "sent")
  /\ cookie' = NoSession
  /\ strays' = {x \in Logins \cup Activities : InFlight(x)}
  /\ Ends(r)
  /\ UNCHANGED <<limiter, user, link, admins, rushed>>

-----------------------------------------------------------------------------
(* forgot_password and reset_password *)

\* create_reset_token
Mail(l) ==
  /\ link[l].cred = -1 /\ user.active
  /\ \E r \in Resets : At(r, "none")
  /\ link' = [link EXCEPT ![l].cred = user.pass]
  /\ UNCHANGED <<limiter, user, cookie, req, admins, strays, rushed>>

\* Mutant of Matches: the link is good for the user, whatever the password.
Matches_UserOnly(l) == link[l].cred # -1 /\ user.active

\* verify_reset_token and reset_token_matches_user, of the row that was read.
Matches(l) == link[l].cred = user.pass /\ user.active

UseLink(r, l) ==
  /\ r \in Resets /\ At(r, "none") /\ link[l].cred # -1
  /\ IF Matches(l)
     THEN req' = [req EXCEPT ![r].pc = "commit", ![r].on = l, ![r].after = link[l].used]
     ELSE Ends(r)
  /\ UNCHANGED <<limiter, user, cookie, link, admins, strays, rushed>>

\* The row is written after the new password was hashed, whatever it has become.
ChangePassword(r) ==
  /\ r \in Resets /\ At(r, "commit")
  /\ user' = [user EXCEPT !.pass = Cardinality({x \in Resets : At(x, "over") /\ req[x].on # NoOne}) + 1]
  /\ link' = [link EXCEPT ![req[r].on].used = @ \cup {r}]
  /\ Ends(r)
  /\ UNCHANGED <<limiter, cookie, admins, strays, rushed>>

-----------------------------------------------------------------------------
(* set_user_active and delete_user, for an admin. *)

\* The count is taken from the request's snapshot.
StartRemoval(r, x) ==
  /\ r \in Removals /\ At(r, "none") /\ x \in admins
  /\ Cardinality(admins) > 1
  /\ req' = [req EXCEPT ![r].pc = "commit", ![r].on = x]
  /\ rushed' = (rushed \/ \E q \in Removals : At(q, "commit"))
  /\ UNCHANGED <<limiter, user, cookie, link, admins, strays>>

Remove(r) ==
  /\ r \in Removals /\ At(r, "commit")
  /\ admins' = admins \ {req[r].on}
  /\ Ends(r)
  /\ UNCHANGED <<limiter, user, cookie, link, strays, rushed>>

\* An admin deactivates or reactivates the account itself.
SetActive ==
  /\ \E r \in Resets \cup Activities : At(r, "none")
  /\ user' = [user EXCEPT !.active = ~@]
  /\ UNCHANGED <<limiter, cookie, req, link, admins, strays, rushed>>

SecondPasses == Second /\ UNCHANGED access

AccessNext ==
  \/ SecondPasses
  \/ SetActive
  \/ \E r \in Logins :
       Attempt(r) \/ Limited(r) \/ NextKey(r) \/ TurnedAway(r) \/ ReadUser(r) \/ Verified(r)
  \/ \E r \in Requests : Send(r) \/ Activity(r) \/ Receive(r) \/ LoggedOut(r) \/ ChangePassword(r) \/ Remove(r)
  \/ \E l \in Links : Mail(l)
  \/ \E r \in Resets, l \in Links : UseLink(r, l)
  \/ \E r \in Removals, x \in Admins : StartRemoval(r, x)

-----------------------------------------------------------------------------
(* Properties. *)

AccessTypeOK ==
  /\ RateLimitTypeOK
  /\ user \in [pass: Passwords, active: BOOLEAN]
  /\ cookie \in Session
  /\ req \in [Requests -> Req]
  /\ link \in [Links -> [cred: Passwords \cup {-1}, used: SUBSET Resets]]
  /\ admins \subseteq Admins
  /\ strays \subseteq Logins \cup Activities
  /\ rushed \in BOOLEAN

Sessions == {cookie} \cup {req[r].got : r \in Requests}

\* A password change ends every session that is older, and every login that
\* was under way: a session with the credential of now goes back to a login
\* that gave the password of now.
SessionsAreOfTheirPassword == \A s \in Sessions : s.cred = s.root

\* After a logout the browser has a session again only by a new login, or by
\* the answer of a request that was in flight when it logged out.
LogoutStays ==
  \A r \in Logouts :
    At(r, "over") /\ req[r].got # NoSession /\ cookie # NoSession
    => \E x \in strays : At(x, "over")

\* A link that has changed the password is refused: two uses go through only
\* when each was read before the other was written.
LinkOnce == \A r \in Resets : req[r].after = {}

\* The last active admin is not removed, but by two removals at once.
AdminRemains == admins = {} => rushed

\* No lock outlives its request, and there is an admin.
AccessIsConsistent == AccessTypeOK /\ LocksAreLetGo /\ AdminRemains

\* Whoever logs in is within the limits; the cookie of the browser is of its
\* password, and gone after a logout; a link changes the password once.
AccessRight == WindowBounded /\ SessionsAreOfTheirPassword /\ LogoutStays /\ LinkOnce

\* What holds in between: the attempts of a login are made one after the other;
\* who has logged out stays so but for a stray; links are used for the password
\* they were mailed for; an admin stays whom no removal under way is about.
LoginsGoOn ==
  \A r \in Logins :
    /\ At(r, "none") => call[r].pc = "idle"
    /\ At(r, "client") => call[r].key \in {ClientKey, NoOne}
    /\ req[r].pc \in {"none", "client"} => \A e \in let[AccountKey] : e.by # r
    /\ At(r, "none") => \A e \in let[ClientKey] : e.by # r
HasLoggedOut == \E r \in Logouts : At(r, "over") /\ req[r].got # NoSession
StrayOver == \E x \in strays : At(x, "over")
OnlyStraysAnswer ==
  HasLoggedOut /\ ~StrayOver =>
    cookie = NoSession /\ \A r \in Activities : req[r].pc \in {"sent", "answer"} => r \in strays
Changed == {r \in Resets : At(r, "over") /\ req[r].on # NoOne}
LinksAreDated ==
  /\ user.pass = Cardinality(Changed)
  /\ \A l \in Links : link[l].cred <= user.pass /\ (link[l].used # {} => link[l].cred < user.pass)
  /\ \A l \in Links : link[l].cred = -1 => link[l].used = {} /\ \A r \in Resets : At(r, "commit") => req[r].on # l
Targets ==
  /\ \A r \in Resets :
       req[r].on \in Links \cup {NoOne} /\ (At(r, "commit") => req[r].on # NoOne) /\ (At(r, "none") => req[r].on = NoOne)
  /\ \A r \in Requests : At(r, "answer") => r \in Logins \cup Activities
OneIsSpared == ~rushed => \E x \in admins : \A r \in Removals : At(r, "commit") => req[r].on # x

AccessInductive ==
  /\ AccessTypeOK /\ (\A k \in LimitKeys : IsFiniteSet(events[k]))
  /\ LocksAreLetGo /\ CallsAreTimed /\ LetAreTimed /\ StillCounted /\ LetOnce /\ CountsOnce /\ WindowBounded
  /\ LoginsGoOn /\ SessionsAreOfTheirPassword /\ OnlyStraysAnswer
  /\ LinksAreDated /\ Targets /\ LinkOnce /\ OneIsSpared
=============================================================================
