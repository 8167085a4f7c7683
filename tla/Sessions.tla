------------------------------- MODULE Sessions -------------------------------
(***************************************************************************)
(* Signing up, in and out: the requests of                                 *)
(* backend/src/modules/auth/auth.service.ts and session.service.ts, the    *)
(* middleware that lets the other requests in, and what the tabs of a      *)
(* browser make of the answers (frontend/src/app/core/services/            *)
(* auth.service.ts, its guards and the interceptor of expired sessions).   *)
(*                                                                         *)
(* Each database or SMTP round trip is a step.  A registration, the user   *)
(* and the workspace it creates share a number.  An answer may arrive at   *)
(* any time or be lost, which the tab sees as a failed request; its cookie *)
(* comes with the headers and is the browser's before the tab has read the *)
(* body, if it ever does.  The connection of the sender's Gmail account is *)
(* one step here (see EmailAccounts).  Hashing, names and dates are left   *)
(* out, and so are disabled users: nothing in the program disables one.    *)
(***************************************************************************)
EXTENDS Naturals, FiniteSets

CONSTANTS Identity,   \* the (e-mail, username) pairs people register with
          Tab,        \* tabs of one browser, which share its cookie
          Handler,    \* requests that may be under way at once
          MaxUsers,   \* bound: workspaces ever created
          MaxTokens,  \* bound: sessions ever issued
          MaxFaults,  \* bound: failing database calls and restarts
          Faults,     \* "reject": a database call may fail; "crash": the
                      \* server may be restarted; "network": answers get lost
          None

VARIABLES
  created,     \* how many workspaces have been created
  identity,    \* who registered as user n; None before that
  workspaces,  \* the workspaces there are
  users,       \* the users there are
  owned,       \* workspaces whose owner is set
  mailboxes,   \* workspaces with the e-mail account of their registration
  issued,      \* how many sessions have been issued
  session,     \* the user of each session
  ended,       \* sessions that are revoked or expired
  handler,     \* where each request stands
  cookie,      \* the session cookie of the browser; 0 if there is none
  status,      \* what each tab takes the session for
  shown,       \* the user each tab shows
  outdated,    \* history: tabs for which another's sign-in set the cookie
  crossed,     \* history: tabs that signed in twice at once
  signedOut,   \* history: sessions whose sign-out was answered
  met,         \* how many failing database calls and restarts there were
  spoilt,      \* history: registrations that met one
  disowned     \* history: those for which setting the owner failed

accounts == <<created, identity, workspaces, users, owned, mailboxes>>
sessions == <<issued, session, ended>>
browser == <<cookie, status, shown, outdated, crossed, signedOut>>
faults == <<met, spoilt, disowned>>
vars == <<accounts, sessions, handler, browser, faults>>

User == 1 .. MaxUsers
Token == 1 .. MaxTokens

ASSUME SessionAssumption ==
  /\ MaxUsers \in Nat /\ MaxTokens \in Nat /\ MaxFaults \in Nat
  /\ Faults \subseteq {"reject", "crash", "network"}
  /\ None \notin Identity \cup Tab

\* What a request handler is to do next is its pc; "answer" when its result is
\* ready, "body" when the browser has the headers of it.
Idle == [pc |-> "idle", kind |-> "none", tab |-> None, who |-> None, user |-> 0,
         token |-> 0, result |-> "none"]

Init ==
  /\ created = 0 /\ identity = [n \in User |-> None]
  /\ workspaces = {} /\ users = {} /\ owned = {} /\ mailboxes = {}
  /\ issued = 0 /\ session = [k \in Token |-> 0] /\ ended = {}
  /\ handler = [h \in Handler |-> Idle]
  /\ cookie = 0 /\ status = [t \in Tab |-> "unknown"] /\ shown = [t \in Tab |-> 0]
  /\ outdated = {} /\ crossed = {} /\ signedOut = {} /\ met = 0 /\ spoilt = {} /\ disowned = {}

-----------------------------------------------------------------------------
At(h, pc) == handler[h].pc = pc

\* Handler h is to go on at pc, or to answer with a result.
GoOn(h, pc) == handler' = [handler EXCEPT ![h].pc = pc]

Answer(h, result) ==
  handler' = [handler EXCEPT ![h].pc = "answer", ![h].result = result]

\* Mutant of Outside: a session that is still being loaded counts as none.
OutsideUnresolved(t) == status[t] # "authenticated"

\* Where the guards of the routes let a tab go, once its session is resolved.
Inside(t) == status[t] = "authenticated"
Outside(t) == status[t] = "anonymous"

\* A form waits for its answer only as long as it is shown: one opened again can
\* be sent while the first request is still under way.
SigningIn(t) ==
  \E h \in Handler : handler[h].tab = t /\ handler[h].kind \in {"register", "login"}

Crosses(t) == crossed' = IF SigningIn(t) THEN crossed \cup {t} ELSE crossed

\* Users with the e-mail address, or the username, of an identity.
Addressed(i) == {n \in users : identity[n][1] = i[1]}
Named(i) == {n \in users : identity[n][2] = i[2]}

\* findActiveByTokenHash()
Live(k) == k # 0 /\ k \notin ended

-----------------------------------------------------------------------------
(***************************************************************************)
(* register()                                                              *)
(***************************************************************************)

\* The address is looked up ...
Register(h, t, i) ==
  /\ At(h, "idle") /\ Outside(t)
  /\ handler' = [handler EXCEPT ![h] =
       [Idle EXCEPT !.kind = "register", !.tab = t, !.who = i,
                    !.pc = IF Addressed(i) = {} THEN "username" ELSE "answer",
                    !.result = IF Addressed(i) = {} THEN "none" ELSE "failed"]]
  /\ Crosses(t)
  /\ UNCHANGED <<accounts, sessions, cookie, status, shown, outdated, signedOut, faults>>

\* ... and the username, ...
FindUsername(h) ==
  /\ At(h, "username")
  /\ IF Named(handler[h].who) = {} THEN GoOn(h, "workspace") ELSE Answer(h, "failed")
  /\ UNCHANGED <<accounts, sessions, browser, faults>>

\* ... the workspace is created with a placeholder for its owner, ...
CreateWorkspace(h) ==
  /\ At(h, "workspace") /\ created < MaxUsers
  /\ created' = created + 1
  /\ identity' = [identity EXCEPT ![created + 1] = handler[h].who]
  /\ workspaces' = workspaces \cup {created + 1}
  /\ handler' = [handler EXCEPT ![h].pc = "user", ![h].user = created + 1]
  /\ UNCHANGED <<users, owned, mailboxes, sessions, browser, faults>>

\* ... then the user, unless an index refuses it: then the workspace goes.
CreateUser(h) ==
  LET n == handler[h].user IN
  /\ At(h, "user")
  /\ IF Addressed(identity[n]) \cup Named(identity[n]) = {}
     THEN users' = users \cup {n} /\ GoOn(h, "owner")
     ELSE GoOn(h, "drop") /\ UNCHANGED users
  /\ UNCHANGED <<created, identity, workspaces, owned, mailboxes, sessions, browser, faults>>

SetOwner(h) ==
  /\ At(h, "owner")
  /\ owned' = owned \cup ({handler[h].user} \cap workspaces)
  /\ GoOn(h, "connect")
  /\ UNCHANGED <<created, identity, workspaces, users, mailboxes, sessions, browser, faults>>

\* Mutant of Drop: the workspace is left behind.
DropNothing(h) ==
  /\ At(h, "drop")
  /\ Answer(h, "failed")
  /\ UNCHANGED <<accounts, sessions, browser, faults>>

Drop(h) ==
  /\ At(h, "drop")
  /\ workspaces' = workspaces \ {handler[h].user}
  /\ Answer(h, "failed")
  /\ UNCHANGED <<created, identity, users, owned, mailboxes, sessions, browser, faults>>

\* connectDefaultEmailAccount(): Gmail takes the password or refuses it.
Connect(h) ==
  /\ At(h, "connect")
  /\ \/ mailboxes' = mailboxes \cup {handler[h].user} /\ GoOn(h, "issue")
     \/ GoOn(h, "unuser") /\ UNCHANGED mailboxes
  /\ UNCHANGED <<created, identity, workspaces, users, owned, sessions, browser, faults>>

\* Mutant of DeleteUser: the workspace goes first.
DeleteUserLast(h) ==
  /\ At(h, "unuser")
  /\ workspaces' = workspaces \ {handler[h].user}
  /\ GoOn(h, "unspace")
  /\ UNCHANGED <<created, identity, users, owned, mailboxes, sessions, browser, faults>>

\* A refused password undoes the registration: the user, then the workspace.
DeleteUser(h) ==
  /\ At(h, "unuser")
  /\ users' = users \ {handler[h].user}
  /\ GoOn(h, "unspace")
  /\ UNCHANGED <<created, identity, workspaces, owned, mailboxes, sessions, browser, faults>>

DeleteWorkspace(h) ==
  /\ At(h, "unspace")
  /\ workspaces' = workspaces \ {handler[h].user}
  /\ Answer(h, "failed")
  /\ UNCHANGED <<created, identity, users, owned, mailboxes, sessions, browser, faults>>

-----------------------------------------------------------------------------
(***************************************************************************)
(* login(), the other requests, and logout().                              *)
(***************************************************************************)

\* The user of the address is looked up and the password compared.
Login(h, t, i, right) ==
  /\ At(h, "idle") /\ Outside(t)
  /\ \E n \in IF right /\ Addressed(i) # {} THEN Addressed(i) ELSE {0} :
       handler' = [handler EXCEPT ![h] =
         [Idle EXCEPT !.kind = "login", !.tab = t, !.user = n,
                      !.pc = IF n # 0 THEN "issue" ELSE "answer",
                      !.result = IF n # 0 THEN "none" ELSE "unauthorized"]]
  /\ Crosses(t)
  /\ UNCHANGED <<accounts, sessions, cookie, status, shown, outdated, signedOut, faults>>

\* A session is issued; a registration ends this way too.
Issue(h) ==
  /\ At(h, "issue") /\ issued < MaxTokens
  /\ issued' = issued + 1
  /\ session' = [session EXCEPT ![issued + 1] = handler[h].user]
  /\ handler' = [handler EXCEPT ![h].pc = "answer", ![h].result = "signed in",
                                ![h].token = issued + 1]
  /\ UNCHANGED <<accounts, ended, browser, faults>>

\* The middleware resolves the cookie a request was sent with ...
Resolve(h, t, kind) ==
  /\ At(h, "idle")
  /\ handler' = [handler EXCEPT ![h] =
       [Idle EXCEPT !.kind = kind, !.tab = t, !.token = cookie,
                    !.user = IF Live(cookie) THEN session[cookie] ELSE 0,
                    !.pc = IF Live(cookie) THEN "lookup" ELSE "answer",
                    !.result = IF Live(cookie) THEN "none" ELSE "unauthorized"]]
  /\ UNCHANGED <<accounts, sessions, cookie, status, shown, crossed, signedOut, faults>>

\* loadSession(), once when the tab is opened, before anything else
LoadSession(h, t) ==
  /\ status[t] = "unknown" /\ \A g \in Handler : handler[g].tab # t
  /\ Resolve(h, t, "me")
  /\ outdated' = outdated \ {t}

LoadPage(h, t) == Inside(t) /\ Resolve(h, t, "page") /\ UNCHANGED outdated

SignOut(h, t) == Inside(t) /\ Resolve(h, t, "logout") /\ UNCHANGED outdated

\* ... and looks up its user.
LookUp(h) ==
  /\ At(h, "lookup")
  /\ IF handler[h].user \notin users THEN Answer(h, "unauthorized")
     ELSE IF handler[h].kind = "logout" THEN GoOn(h, "revoke") ELSE Answer(h, "served")
  /\ UNCHANGED <<accounts, sessions, browser, faults>>

\* Mutant of Revoke: the session lives on.
RevokeNothing(h) ==
  /\ At(h, "revoke")
  /\ Answer(h, "signed out")
  /\ UNCHANGED <<accounts, sessions, browser, faults>>

Revoke(h) ==
  /\ At(h, "revoke")
  /\ ended' = ended \cup {handler[h].token}
  /\ Answer(h, "signed out")
  /\ UNCHANGED <<accounts, issued, session, browser, faults>>

-----------------------------------------------------------------------------
(***************************************************************************)
(* Tabs.                                                                   *)
(***************************************************************************)

SetAuthenticated(t, n) ==
  /\ status' = [status EXCEPT ![t] = "authenticated"]
  /\ shown' = [shown EXCEPT ![t] = n]

ClearSession(t) ==
  /\ status' = [status EXCEPT ![t] = "anonymous"]
  /\ shown' = [shown EXCEPT ![t] = 0]

\* The browser stores the cookie of an answer, or forgets its cookie.
TakesCookie(r) ==
  CASE r.result = "signed in"  -> cookie' = r.token /\ outdated' = Tab \ {r.tab}
    [] r.result = "signed out" -> cookie' = 0 /\ UNCHANGED outdated

Cookies == {"signed in", "signed out"}

\* The headers of an answer arrive ...
TakeCookie(h) ==
  /\ At(h, "answer") /\ handler[h].tab # None /\ handler[h].result \in Cookies
  /\ TakesCookie(handler[h])
  /\ GoOn(h, "body")
  /\ UNCHANGED <<accounts, sessions, status, shown, crossed, signedOut, faults>>

\* A request fails: one refused with 401 clears the session, and so does every
\* failure of a load or a sign-out.
Fails(t, kind, result) ==
  IF result = "unauthorized" \/ kind \in {"me", "logout"}
  THEN ClearSession(t) ELSE UNCHANGED <<status, shown>>

\* ... and then its body, or all of an answer without a cookie: the tab takes it in.
Arrive(h) ==
  LET r == handler[h] IN
  /\ r.tab # None
  /\ At(h, "body") \/ (At(h, "answer") /\ r.result \notin Cookies)
  /\ CASE r.result = "signed in" -> SetAuthenticated(r.tab, r.user)
       [] r.result = "signed out" -> ClearSession(r.tab)
       [] r.result = "served" -> IF r.kind = "me" THEN SetAuthenticated(r.tab, r.user)
                                                  ELSE UNCHANGED <<status, shown>>
       [] OTHER -> Fails(r.tab, r.kind, r.result)
  /\ signedOut' = IF r.result = "signed out" THEN signedOut \cup {r.token} ELSE signedOut
  /\ handler' = [handler EXCEPT ![h] = Idle]
  /\ UNCHANGED <<accounts, sessions, cookie, outdated, crossed, faults>>

\* Nobody waits for the answer of a request any more; the server goes on.
Unheard(r) == IF r.pc = "body" THEN Idle ELSE [r EXCEPT !.tab = None]

\* An answer nobody waits for: the browser may still store its cookie.
Drain(h) ==
  /\ At(h, "answer") /\ handler[h].tab = None
  /\ \/ handler[h].result \in Cookies /\ TakesCookie(handler[h])
     \/ UNCHANGED <<cookie, outdated>>
  /\ handler' = [handler EXCEPT ![h] = Idle]
  /\ UNCHANGED <<accounts, sessions, status, shown, crossed, signedOut, faults>>

\* An answer is lost, or all but its headers; the tab sees a failed request.
Lose(h) ==
  /\ "network" \in Faults
  /\ handler[h].pc \in {"answer", "body"} /\ handler[h].tab # None
  /\ Fails(handler[h].tab, handler[h].kind, "failed")
  /\ handler' = [handler EXCEPT ![h] = Idle]
  /\ UNCHANGED <<accounts, sessions, cookie, outdated, crossed, signedOut, faults>>

\* The tab is reloaded and drops the requests it had made.
Reload(t) ==
  /\ status[t] # "unknown"
  /\ status' = [status EXCEPT ![t] = "unknown"]
  /\ shown' = [shown EXCEPT ![t] = 0]
  /\ crossed' = crossed \ {t}
  /\ handler' = [h \in Handler |-> IF handler[h].tab = t THEN Unheard(handler[h])
                                                        ELSE handler[h]]
  /\ UNCHANGED <<accounts, sessions, cookie, outdated, signedOut, faults>>

-----------------------------------------------------------------------------
\* A session reaches its expiry, and with it the cookie.
Expire(k) ==
  /\ session[k] # 0 /\ k \notin ended
  /\ ended' = ended \cup {k}
  /\ cookie' = IF cookie = k THEN 0 ELSE cookie
  /\ UNCHANGED <<accounts, issued, session, handler, status, shown, outdated, crossed, signedOut,
                 faults>>

\* A database call of a handler fails.
Reject(h) ==
  LET n == handler[h].user IN
  /\ "reject" \in Faults /\ met < MaxFaults /\ met' = met + 1
  /\ handler[h].pc \notin {"idle", "answer", "body"}
  /\ spoilt' = spoilt \cup ({n} \cap User)
  /\ disowned' = IF At(h, "owner") THEN disowned \cup {n} ELSE disowned
  /\ CASE handler[h].pc \in {"user", "owner"} -> GoOn(h, "drop") /\ UNCHANGED mailboxes
       [] handler[h].pc = "connect" ->
            /\ GoOn(h, "unuser")
            /\ mailboxes' \in {mailboxes, mailboxes \cup {n}}
       [] OTHER -> Answer(h, "failed") /\ UNCHANGED mailboxes
  /\ UNCHANGED <<created, identity, workspaces, users, owned, sessions, browser>>

\* The server is restarted; its requests fail.
Crash ==
  /\ "crash" \in Faults /\ met < MaxFaults /\ met' = met + 1
  /\ handler' = [h \in Handler |->
       IF At(h, "idle") \/ handler[h].tab = None THEN Idle
       ELSE [handler[h] EXCEPT !.pc = "answer", !.result = "failed"]]
  /\ spoilt' = spoilt \cup
       (User \cap {handler[h].user : h \in {g \in Handler : handler[g].kind = "register"}})
  /\ UNCHANGED <<accounts, sessions, browser, disowned>>

Proceed(h) ==
  \/ FindUsername(h) \/ CreateWorkspace(h) \/ CreateUser(h) \/ SetOwner(h) \/ Drop(h)
  \/ Connect(h) \/ DeleteUser(h) \/ DeleteWorkspace(h)
  \/ Issue(h) \/ LookUp(h) \/ Revoke(h)

Next ==
  \/ \E h \in Handler, t \in Tab, i \in Identity :
       Register(h, t, i) \/ \E right \in BOOLEAN : Login(h, t, i, right)
  \/ \E h \in Handler, t \in Tab : LoadSession(h, t) \/ LoadPage(h, t) \/ SignOut(h, t)
  \/ \E h \in Handler : Proceed(h) \/ TakeCookie(h) \/ Arrive(h) \/ Drain(h)
  \/ \E h \in Handler : Lose(h) \/ Reject(h)
  \/ \E t \in Tab : Reload(t)
  \/ \E k \in Token : Expire(k)
  \/ Crash

Spec == Init /\ [][Next]_vars

-----------------------------------------------------------------------------
(***************************************************************************)
(* Properties.                                                             *)
(***************************************************************************)

(***************************************************************************)
(* Once a tab has been told that it is signed out the session is over, and *)
(* nothing under way brings its cookie back (session.service.ts:17).  That *)
(* a sign-out whose answer is lost is shown the same way is the price of   *)
(* the tab's catchError, and not said here.                                *)
(***************************************************************************)
SignedOutIsOver ==
  signedOut \subseteq ended /\ cookie \notin signedOut

(***************************************************************************)
(* A tab shows the user whose session its requests are served for, though  *)
(* the browser takes the cookie before the tab takes the user              *)
(* (auth.service.ts:54-64 of the frontend), and one of them may be lost.   *)
(* Three races the code does lose are excepted: since its answer the       *)
(* cookie came from a sign-in of another tab, or from one that a reload    *)
(* had given up; or the tab had two sign-ins under way at once, the        *)
(* cookies and the users of which may arrive in different orders.          *)
(***************************************************************************)
ShownIsServed ==
  \A t \in Tab \ (outdated \cup crossed) :
    status[t] = "authenticated" /\ cookie # 0 => shown[t] = session[cookie]

(***************************************************************************)
(* What a session answers for, to its user, on both sides.                 *)
(***************************************************************************)
SessionIsTrue == SignedOutIsOver /\ ShownIsServed

(***************************************************************************)
(* Whoever can sign in has their workspace (workspace.model.ts:14), at     *)
(* every moment of a registration and of its undoing, through restarts and *)
(* failing database calls, but for the one that sets the owner.            *)
(***************************************************************************)
UsersHaveWorkspaces == users \ disowned \subseteq workspaces

(***************************************************************************)
(* A registration that met no fault leaves everything, once answered, or   *)
(* nothing: also when another takes the address or the name meanwhile, or  *)
(* Gmail refuses the password.                                             *)
(***************************************************************************)
RegistrationIsAllOrNothing ==
  \A n \in User \ spoilt :
    \/ \E h \in Handler : handler[h].user = n /\ handler[h].kind = "register"
    \/ n \in users \cap workspaces \cap owned \cap mailboxes
    \/ n \notin users \cup workspaces \cup mailboxes

(***************************************************************************)
(* What the registration answers for, of users and of their workspaces.    *)
(***************************************************************************)
RegistrationIsWhole == UsersHaveWorkspaces /\ RegistrationIsAllOrNothing

=============================================================================
