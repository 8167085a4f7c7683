---------------------------- MODULE SessionProofs ----------------------------
(***************************************************************************)
(* Theorems about Sessions, for any number of people, tabs and requests    *)
(* and any faults.                                                         *)
(***************************************************************************)
EXTENDS Sessions, TLAPS

-----------------------------------------------------------------------------
(***************************************************************************)
(* Type correctness: users and workspaces are numbered in the order they   *)
(* are created, sessions in the order they are issued, and no request has  *)
(* a number in hand that was not given out.                                *)
(***************************************************************************)
Registering == {"username", "workspace", "user", "owner", "drop", "connect", "unuser", "unspace"}

Pcs == {"idle", "answer", "body", "issue", "lookup", "revoke"} \cup Registering

Results == {"none", "failed", "unauthorized", "signed in", "signed out", "served"}

Hand == [pc : Pcs,
         kind : {"none", "register", "login", "me", "page", "logout"},
         tab : Tab \cup {None}, who : Identity \cup {None}, user : Nat, token : Nat,
         result : Results]

AccountsOK ==
  /\ created \in Nat /\ created <= MaxUsers /\ identity \in [User -> Identity \cup {None}]
  /\ workspaces \subseteq 1 .. created /\ users \subseteq 1 .. created
  /\ owned \subseteq Nat /\ mailboxes \subseteq 1 .. created

SessionsOK ==
  /\ issued \in Nat /\ issued <= MaxTokens /\ session \in [Token -> Nat] /\ ended \subseteq Token
  /\ \A k \in Token : session[k] \in 0 .. created /\ (k > issued => session[k] = 0)

BrowserOK ==
  /\ cookie \in 0 .. issued /\ outdated \subseteq Tab /\ crossed \subseteq Tab
  /\ signedOut \subseteq 1 .. issued
  /\ status \in [Tab -> {"unknown", "authenticated", "anonymous"}] /\ shown \in [Tab -> Nat]

FaultsOK == met \in Nat /\ spoilt \subseteq User /\ disowned \subseteq Nat

\* A step that needs a user, or a session, has one.
HandOK(h) ==
  /\ handler[h].pc \in Registering \ {"username", "workspace"} => handler[h].user > 0
  /\ handler[h].pc \in {"lookup", "revoke"} => handler[h].token > 0
  /\ handler[h].pc \in {"answer", "body"} /\ handler[h].result = "signed out" =>
       handler[h].token > 0

HandsOK ==
  /\ handler \in [Handler -> Hand]
  /\ \A h \in Handler : HandOK(h)
  /\ \A h \in Handler : handler[h].user \in 0 .. created /\ handler[h].token \in 0 .. issued

TypeOK == AccountsOK /\ SessionsOK /\ BrowserOK /\ FaultsOK /\ HandsOK

-----------------------------------------------------------------------------
(***************************************************************************)
(* What the answers under way may still do to the session of the browser.  *)
(* The cookie of a sign-in whose headers are yet to arrive is nobody       *)
(* else's; once they have, it is the browser's unless another sign-in took *)
(* its place; a sign-out has ended its session, and with its headers the   *)
(* cookie is gone.                                                         *)
(***************************************************************************)
SignsIn(h) == At(h, "answer") /\ handler[h].result = "signed in"

SignInInv(h) ==
  SignsIn(h) =>
    /\ handler[h].token > 0 /\ handler[h].token # cookie /\ handler[h].token \notin signedOut
    /\ session[handler[h].token] = handler[h].user
    /\ \A g \in Handler \ {h} : handler[g].token # handler[h].token

SignedIn(h) == At(h, "body") /\ handler[h].result = "signed in"

BodyInv(h) ==
  SignedIn(h) =>
    /\ handler[h].tab # None /\ session[handler[h].token] = handler[h].user
    /\ cookie # 0 /\ handler[h].tab \notin outdated \cup crossed => handler[h].token = cookie

SignsOut(h) == handler[h].pc \in {"answer", "body"} /\ handler[h].result = "signed out"
SignedOff(h) == At(h, "body") /\ handler[h].result = "signed out"

SignOutInv(h) ==
  /\ SignsOut(h) => handler[h].token \in ended
  /\ SignedOff(h) => handler[h].token # cookie

\* Requests that end by issuing a session.
Forms(h) == handler[h].pc \in Registering \cup {"issue"}

Form(h) == handler[h].kind \in {"register", "login"}

\* A tab that has a form under way is not signed in, and has no other under way.
FormInv(h) ==
  /\ Forms(h) \/ SignsIn(h) \/ SignedIn(h) => Form(h)
  /\ Form(h) /\ handler[h].tab # None /\ handler[h].tab \notin crossed =>
       /\ status[handler[h].tab] # "authenticated"
       /\ \A g \in Handler \ {h} : ~(Form(g) /\ handler[g].tab = handler[h].tab)

\* While a tab loads its session it does nothing else, so that its cookie can only
\* be taken over by another tab's sign-in, or by one that nobody waits for.
Loading(h) ==
  /\ handler[h].kind = "me"
  /\ At(h, "lookup") \/ (handler[h].pc \in {"answer", "body"} /\ handler[h].result = "served")

LoadInv(h) ==
  /\ Loading(h) => handler[h].token > 0 /\ session[handler[h].token] = handler[h].user
  /\ handler[h].kind = "me" /\ handler[h].tab # None =>
       /\ status[handler[h].tab] = "unknown"
       /\ \A g \in Handler \ {h} : handler[g].tab # handler[h].tab
       /\ cookie # 0 /\ handler[h].tab \notin outdated => handler[h].token = cookie

HandInv(h) == SignInInv(h) /\ BodyInv(h) /\ SignOutInv(h) /\ FormInv(h) /\ LoadInv(h)

SessionInv ==
  /\ \A h \in Handler : HandInv(h)
  /\ SignedOutIsOver
  /\ ShownIsServed

-----------------------------------------------------------------------------
(***************************************************************************)
(* How far a registration has come, of the user and the workspace of a     *)
(* number: no other request has that number in hand, and a registration    *)
(* that met no fault has left what its next step expects.                  *)
(***************************************************************************)
Registers(h) == handler[h].kind = "register"

AloneInv(h) ==
  /\ handler[h].pc \in Registering => Registers(h)
  /\ Registers(h) => handler[h].pc \in Registering \cup {"issue", "answer", "body"}
  /\ handler[h].pc \in {"username", "workspace"} => handler[h].user = 0
  /\ Registers(h) /\ At(h, "issue") => handler[h].user > 0
  /\ Registers(h) => \A g \in Handler \ {h} :
       Registers(g) /\ handler[g].user = handler[h].user => handler[h].user = 0

\* Whatever faults there were, a workspace goes only without its user.
SpaceInv(h) ==
  LET n == handler[h].user IN
  /\ At(h, "user") => n \in workspaces \ users
  /\ At(h, "drop") => n \notin users \ disowned
  /\ At(h, "unspace") => n \notin users

Whole(n) == n \in users \cap workspaces \cap owned \cap mailboxes
Gone(n) == n \notin users \cup workspaces \cup mailboxes

\* What a registration without a fault has done by now.
ProgressInv(h) ==
  LET n == handler[h].user IN
  Registers(h) /\ n \in User \ spoilt =>
    /\ At(h, "user") => n \notin mailboxes
    /\ At(h, "owner") => n \in (users \cap workspaces) \ mailboxes
    /\ At(h, "connect") => n \in (users \cap workspaces \cap owned) \ mailboxes
    /\ At(h, "issue") => Whole(n)
    /\ handler[h].pc \in {"answer", "body"} => Whole(n) \/ Gone(n)
    /\ handler[h].pc \in {"drop", "unspace"} => n \notin users \cup mailboxes
    /\ At(h, "unuser") => n \notin mailboxes

RegistrationInv ==
  /\ \A h \in Handler : AloneInv(h) /\ SpaceInv(h) /\ ProgressInv(h)
  /\ UsersHaveWorkspaces
  /\ RegistrationIsAllOrNothing

-----------------------------------------------------------------------------
(***************************************************************************)
(* One request moves: what is in its hand after that, and that the others  *)
(* keep theirs.                                                            *)
(***************************************************************************)
LEMMA NoBounds == MaxUsers \in Nat /\ MaxTokens \in Nat /\ MaxFaults \in Nat
BY SessionAssumption

LEMMA Positive == \A m \in Nat : \A k \in 0 .. m : k > 0 => k \in 1 .. m
OBVIOUS

LEMMA IdleHand == Idle \in Hand
BY DEF Idle, Hand, Pcs, Results

LEMMA Replaced ==
  ASSUME handler \in [Handler -> Hand], NEW h \in Handler, NEW r \in Hand,
         handler' = [handler EXCEPT ![h] = r]
  PROVE  /\ handler' \in [Handler -> Hand] /\ handler'[h] = r
         /\ \A g \in Handler \ {h} : handler'[g] = handler[g]
OBVIOUS

LEMMA WentOn ==
  ASSUME handler \in [Handler -> Hand], NEW h \in Handler,
         NEW pc \in Pcs, GoOn(h, pc)
  PROVE  /\ handler' \in [Handler -> Hand]
         /\ handler'[h].pc = pc /\ handler'[h].kind = handler[h].kind
         /\ handler'[h].tab = handler[h].tab /\ handler'[h].user = handler[h].user
         /\ handler'[h].token = handler[h].token /\ handler'[h].result = handler[h].result
         /\ \A g \in Handler \ {h} : handler'[g] = handler[g]
<1>1. [handler[h] EXCEPT !.pc = pc] \in Hand
  BY DEF Hand, Pcs, Results
<1>2. handler' = [handler EXCEPT ![h] = [handler[h] EXCEPT !.pc = pc]]
  BY DEF GoOn
<1> QED
  BY <1>1, <1>2, Replaced DEF Hand, Pcs, Results

LEMMA Answered ==
  ASSUME handler \in [Handler -> Hand], NEW h \in Handler,
         NEW result \in Results,
         Answer(h, result)
  PROVE  /\ handler' \in [Handler -> Hand]
         /\ handler'[h].pc = "answer" /\ handler'[h].kind = handler[h].kind
         /\ handler'[h].tab = handler[h].tab /\ handler'[h].user = handler[h].user
         /\ handler'[h].token = handler[h].token /\ handler'[h].result = result
         /\ \A g \in Handler \ {h} : handler'[g] = handler[g]
<1>1. [handler[h] EXCEPT !.pc = "answer", !.result = result] \in Hand
  BY DEF Hand, Pcs, Results
<1>2. handler' = [handler EXCEPT ![h] = [handler[h] EXCEPT !.pc = "answer", !.result = result]]
  BY DEF Answer
<1> QED
  BY <1>1, <1>2, Replaced DEF Hand, Pcs, Results

\* A new session is in the hand of the request it was issued to.
LEMMA IssuedTo ==
  ASSUME TypeOK, NEW h \in Handler, Issue(h)
  PROVE  /\ handler' \in [Handler -> Hand]
         /\ handler'[h].pc = "answer" /\ handler'[h].kind = handler[h].kind
         /\ handler'[h].tab = handler[h].tab /\ handler'[h].user = handler[h].user
         /\ handler'[h].token = issued + 1 /\ handler'[h].result = "signed in"
         /\ \A g \in Handler \ {h} : handler'[g] = handler[g]
<1>1. /\ handler \in [Handler -> Hand] /\ issued + 1 \in Nat
  BY DEF TypeOK, HandsOK, SessionsOK
<1>2. [handler[h] EXCEPT !.pc = "answer", !.result = "signed in", !.token = issued + 1] \in Hand
  BY <1>1 DEF Hand, Pcs, Results
<1>3. handler' = [handler EXCEPT ![h] =
                    [handler[h] EXCEPT !.pc = "answer", !.result = "signed in", !.token = issued + 1]]
  BY DEF Issue
<1> QED
  BY <1>1, <1>2, <1>3, Replaced DEF Hand, Pcs, Results

\* The workspace that was created is in the hand of its registration.
LEMMA CreatedFor ==
  ASSUME TypeOK, NEW h \in Handler, CreateWorkspace(h)
  PROVE  /\ handler' \in [Handler -> Hand]
         /\ handler'[h].pc = "user" /\ handler'[h].kind = handler[h].kind
         /\ handler'[h].tab = handler[h].tab /\ handler'[h].user = created + 1
         /\ handler'[h].token = handler[h].token /\ handler'[h].result = handler[h].result
         /\ \A g \in Handler \ {h} : handler'[g] = handler[g]
<1>1. handler \in [Handler -> Hand] /\ created + 1 \in Nat
  BY DEF TypeOK, HandsOK, AccountsOK
<1>2. [handler[h] EXCEPT !.pc = "user", !.user = created + 1] \in Hand
  BY <1>1 DEF Hand, Pcs, Results, Registering
<1>3. handler' = [handler EXCEPT ![h] = [handler[h] EXCEPT !.pc = "user", !.user = created + 1]]
  BY DEF CreateWorkspace
<1> QED
  BY <1>1, <1>2, <1>3, Replaced DEF Hand, Pcs, Results

\* A request begins, with nothing of an earlier one.
LEMMA BegunRegister ==
  ASSUME handler \in [Handler -> Hand], NEW h \in Handler, NEW t \in Tab, NEW i \in Identity,
         Register(h, t, i)
  PROVE  /\ handler' \in [Handler -> Hand]
         /\ handler'[h].pc = IF Addressed(i) = {} THEN "username" ELSE "answer"
         /\ handler'[h].kind = "register" /\ handler'[h].tab = t
         /\ handler'[h].user = 0 /\ handler'[h].token = 0
         /\ handler'[h].result = IF Addressed(i) = {} THEN "none" ELSE "failed"
         /\ \A g \in Handler \ {h} : handler'[g] = handler[g]
<1> DEFINE r == [Idle EXCEPT !.kind = "register", !.tab = t, !.who = i,
                    !.pc = IF Addressed(i) = {} THEN "username" ELSE "answer",
                    !.result = IF Addressed(i) = {} THEN "none" ELSE "failed"]
<1>1. r \in Hand
  BY DEF Hand, Pcs, Results, Idle, Registering
<1>2. handler' = [handler EXCEPT ![h] = r]
  BY DEF Register
<1> QED
  BY <1>1, <1>2, Replaced DEF Idle

LEMMA BegunLogin ==
  ASSUME TypeOK, NEW h \in Handler, NEW t \in Tab, NEW i \in Identity, NEW right \in BOOLEAN,
         Login(h, t, i, right)
  PROVE  /\ handler' \in [Handler -> Hand]
         /\ handler'[h].user \in users \cup {0} /\ handler'[h].token = 0
         /\ handler'[h].pc \in {"issue", "answer"}
         /\ handler'[h].kind = "login" /\ handler'[h].tab = t
         /\ handler'[h].result \in {"none", "unauthorized"}
         /\ \A g \in Handler \ {h} : handler'[g] = handler[g]
<1> DEFINE r(n) == [Idle EXCEPT !.kind = "login", !.tab = t, !.user = n,
                         !.pc = IF n # 0 THEN "issue" ELSE "answer",
                         !.result = IF n # 0 THEN "none" ELSE "unauthorized"]
<1>1. PICK n \in IF right /\ Addressed(i) # {} THEN Addressed(i) ELSE {0} :
        handler' = [handler EXCEPT ![h] = r(n)]
  BY DEF Login
<1>2. n \in Nat /\ n \in users \cup {0}
  BY DEF Addressed, TypeOK, AccountsOK
<1>3. r(n) \in Hand
  BY <1>2 DEF Hand, Pcs, Results, Idle
<1>4. /\ r(n).user = n /\ r(n).token = 0 /\ r(n).pc \in {"issue", "answer"}
      /\ r(n).kind = "login" /\ r(n).tab = t /\ r(n).result \in {"none", "unauthorized"}
  BY DEF Idle
<1>5. handler \in [Handler -> Hand]
  BY DEF TypeOK, HandsOK
<1> HIDE DEF r
<1> QED
  BY <1>1, <1>2, <1>3, <1>4, <1>5, Replaced

LEMMA Resolved ==
  ASSUME TypeOK, NEW h \in Handler, NEW t \in Tab, NEW kind \in {"me", "page", "logout"},
         Resolve(h, t, kind)
  PROVE  /\ handler' \in [Handler -> Hand]
         /\ handler'[h].pc = IF Live(cookie) THEN "lookup" ELSE "answer"
         /\ handler'[h].kind = kind /\ handler'[h].tab = t
         /\ handler'[h].token = cookie
         /\ Live(cookie) => handler'[h].user = session[cookie]
         /\ ~Live(cookie) => handler'[h].user = 0
         /\ handler'[h].result = IF Live(cookie) THEN "none" ELSE "unauthorized"
         /\ \A g \in Handler \ {h} : handler'[g] = handler[g]
         /\ UNCHANGED <<accounts, sessions, cookie, status, shown, crossed, signedOut, faults>>
<1> DEFINE r == [Idle EXCEPT !.kind = kind, !.tab = t, !.token = cookie,
                    !.user = IF Live(cookie) THEN session[cookie] ELSE 0,
                    !.pc = IF Live(cookie) THEN "lookup" ELSE "answer",
                    !.result = IF Live(cookie) THEN "none" ELSE "unauthorized"]
<1>1. cookie \in Nat /\ (Live(cookie) => session[cookie] \in Nat)
  BY NoBounds DEF TypeOK, SessionsOK, BrowserOK, Live, Token
<1>2. r \in Hand
  BY <1>1 DEF Hand, Pcs, Results, Idle
<1>3. handler \in [Handler -> Hand] /\ handler' = [handler EXCEPT ![h] = r]
  BY DEF Resolve, TypeOK, HandsOK
<1> QED
  BY <1>2, <1>3, Replaced DEF Idle, Resolve

LEMMA Dropped ==
  ASSUME handler \in [Handler -> Hand], NEW h \in Handler, handler' = [handler EXCEPT ![h] = Idle]
  PROVE  /\ handler' \in [Handler -> Hand]
         /\ handler'[h].pc = "idle" /\ handler'[h].kind = "none" /\ handler'[h].tab = None
         /\ handler'[h].user = 0 /\ handler'[h].token = 0 /\ handler'[h].result = "none"
         /\ \A g \in Handler \ {h} : handler'[g] = handler[g]
BY IdleHand, Replaced DEF Idle

\* The tab is gone from a request, and so is the rest of an answer that was arriving.
LEMMA NotHeard ==
  ASSUME NEW r \in Hand
  PROVE  /\ Unheard(r) \in Hand
         /\ r.pc = "body" => Unheard(r) = Idle
         /\ r.pc # "body" =>
              /\ Unheard(r).tab = None /\ Unheard(r).pc = r.pc /\ Unheard(r).kind = r.kind
              /\ Unheard(r).user = r.user /\ Unheard(r).token = r.token
              /\ Unheard(r).result = r.result
BY IdleHand DEF Unheard, Hand, Pcs, Results

LEMMA Reloaded ==
  ASSUME handler \in [Handler -> Hand], NEW t \in Tab, Reload(t)
  PROVE  /\ handler' \in [Handler -> Hand]
         /\ \A h \in Handler :
              \/ handler[h].tab # t /\ handler'[h] = handler[h]
              \/ handler[h].tab = t /\ At(h, "body") /\ handler'[h] = Idle
              \/ /\ handler[h].tab = t /\ ~At(h, "body")
                 /\ handler'[h].tab = None /\ handler'[h].pc = handler[h].pc
                 /\ handler'[h].kind = handler[h].kind /\ handler'[h].user = handler[h].user
                 /\ handler'[h].token = handler[h].token /\ handler'[h].result = handler[h].result
<1>1. \A h \in Handler : handler[h] \in Hand
  OBVIOUS
<1>2. \A h \in Handler : handler'[h] = IF handler[h].tab = t THEN Unheard(handler[h]) ELSE handler[h]
  BY DEF Reload
<1>3. \A h \in Handler : handler'[h] \in Hand
  BY <1>1, <1>2, NotHeard
<1>4. handler' \in [Handler -> Hand]
  BY <1>3 DEF Reload
<1> QED
  BY <1>1, <1>2, <1>4, NotHeard DEF At

LEMMA Restarted ==
  ASSUME handler \in [Handler -> Hand], Crash
  PROVE  /\ handler' \in [Handler -> Hand]
         /\ \A h \in Handler :
              \/ handler'[h] = Idle /\ (At(h, "idle") \/ handler[h].tab = None)
              \/ /\ handler'[h].pc = "answer" /\ handler'[h].result = "failed"
                 /\ handler'[h].tab = handler[h].tab /\ handler'[h].kind = handler[h].kind
                 /\ handler'[h].user = handler[h].user /\ handler'[h].token = handler[h].token
                 /\ ~At(h, "idle")
<1> DEFINE failed(h) == [handler[h] EXCEPT !.pc = "answer", !.result = "failed"]
<1>1. ASSUME NEW h \in Handler
      PROVE  /\ failed(h) \in Hand
             /\ failed(h).pc = "answer" /\ failed(h).result = "failed"
             /\ failed(h).tab = handler[h].tab /\ failed(h).kind = handler[h].kind
             /\ failed(h).user = handler[h].user /\ failed(h).token = handler[h].token
  <2>1. handler[h] \in Hand
    OBVIOUS
  <2> QED
    BY <2>1 DEF Hand, Pcs, Results
<1>2. \A h \in Handler : handler'[h] =
        IF At(h, "idle") \/ handler[h].tab = None THEN Idle ELSE failed(h)
  BY DEF Crash
<1> HIDE DEF failed
<1>3. \A h \in Handler : handler'[h] \in Hand
  BY <1>1, <1>2, IdleHand
<1>4. handler' \in [Handler -> Hand]
  BY <1>3 DEF Crash
<1> QED
  BY <1>1, <1>2, <1>4

-----------------------------------------------------------------------------
LEMMA InitTypeOK == Init => TypeOK
<1> SUFFICES ASSUME Init PROVE TypeOK
  OBVIOUS
<1>1. AccountsOK
  BY NoBounds DEF Init, AccountsOK, User
<1>2. SessionsOK
  BY NoBounds DEF Init, SessionsOK, Token
<1>3. BrowserOK /\ FaultsOK
  BY DEF Init, BrowserOK, FaultsOK
<1>4. HandsOK
  <2>1. handler \in [Handler -> Hand] /\ \A h \in Handler : handler[h] = Idle
    BY IdleHand DEF Init
  <2>2. Idle.pc = "idle"
    BY DEF Idle
  <2>3. \A h \in Handler : HandOK(h)
    BY <2>1, <2>2 DEF HandOK, Registering, Pcs, Results
  <2> QED
    BY <2>1, <2>3 DEF Init, HandsOK, Idle
<1> QED
  BY <1>1, <1>2, <1>3, <1>4 DEF TypeOK

LEMMA HandsKept ==
  ASSUME TypeOK, NEW h \in Handler,
         handler' \in [Handler -> Hand], \A g \in Handler \ {h} : handler'[g] = handler[g],
         0 .. created \subseteq 0 .. created', 0 .. issued \subseteq 0 .. issued',
         handler'[h].user \in 0 .. created', handler'[h].token \in 0 .. issued', HandOK(h)'
  PROVE  HandsOK'
<1>1. \A g \in Handler :
        handler[g].user \in 0 .. created /\ handler[g].token \in 0 .. issued /\ HandOK(g)
  BY DEF TypeOK, HandsOK
<1>2. created \in Nat /\ issued \in Nat
  BY DEF TypeOK, AccountsOK, SessionsOK
<1>3. \A g \in Handler : HandOK(g)'
  BY <1>1 DEF HandOK
<1> QED
  BY <1>1, <1>2, <1>3 DEF HandsOK

\* A request goes on, and no number was given out.
LEMMA HandsWentOn ==
  ASSUME TypeOK, NEW h \in Handler, created' = created, issued' = issued,
         NEW pc \in Pcs \ {"answer"}, GoOn(h, pc),
         pc \in Registering \ {"username", "workspace"} => handler[h].user > 0,
         pc \in {"lookup", "revoke"} => handler[h].token > 0,
         pc = "body" => HandOK(h) /\ At(h, "answer")
  PROVE  HandsOK'
<1>1. /\ handler \in [Handler -> Hand]
      /\ handler[h].user \in 0 .. created /\ handler[h].token \in 0 .. issued
      /\ created \in Nat /\ issued \in Nat
  BY DEF TypeOK, HandsOK, AccountsOK, SessionsOK
<1>3. /\ handler' \in [Handler -> Hand]
      /\ \A g \in Handler \ {h} : handler'[g] = handler[g]
      /\ handler'[h].user = handler[h].user /\ handler'[h].token = handler[h].token
      /\ handler'[h].pc = pc /\ handler'[h].result = handler[h].result
  BY <1>1, WentOn
<1>4. HandOK(h)'
  BY <1>1, <1>3 DEF HandOK, At, Registering
<1> QED
  BY <1>1, <1>3, <1>4, HandsKept

LEMMA HandsAnswered ==
  ASSUME TypeOK, NEW h \in Handler, created' = created, issued' = issued,
         NEW result \in Results,
         Answer(h, result), result = "signed out" => handler[h].token > 0
  PROVE  HandsOK'
<1>1. /\ handler \in [Handler -> Hand]
      /\ handler[h].user \in 0 .. created /\ handler[h].token \in 0 .. issued
      /\ created \in Nat /\ issued \in Nat
  BY DEF TypeOK, HandsOK, AccountsOK, SessionsOK
<1>2. /\ handler' \in [Handler -> Hand]
      /\ \A g \in Handler \ {h} : handler'[g] = handler[g]
      /\ handler'[h].user = handler[h].user /\ handler'[h].token = handler[h].token
      /\ handler'[h].pc = "answer" /\ handler'[h].result = result
  BY <1>1, Answered
<1>3. HandOK(h)'
  BY <1>2 DEF HandOK, Registering, Pcs, Results
<1>4. handler'[h].user = handler[h].user /\ handler'[h].token = handler[h].token
  BY <1>2
<1>5. handler'[h].user \in 0 .. created' /\ handler'[h].token \in 0 .. issued'
  BY <1>1, <1>4
<1>6. 0 .. created \subseteq 0 .. created' /\ 0 .. issued \subseteq 0 .. issued'
  OBVIOUS
<1>7. handler' \in [Handler -> Hand] /\ \A g \in Handler \ {h} : handler'[g] = handler[g]
  BY <1>2
<1> QED
  BY <1>3, <1>5, <1>6, <1>7, HandsKept

LEMMA HandsDropped ==
  ASSUME TypeOK, NEW h \in Handler, created' = created, issued' = issued,
         handler' = [handler EXCEPT ![h] = Idle]
  PROVE  HandsOK'
<1>1. handler \in [Handler -> Hand] /\ created \in Nat /\ issued \in Nat
  BY DEF TypeOK, HandsOK, AccountsOK, SessionsOK
<1>2. HandOK(h)'
  BY <1>1, Dropped DEF HandOK, Registering, Pcs, Results
<1>3. /\ handler' \in [Handler -> Hand] /\ \A g \in Handler \ {h} : handler'[g] = handler[g]
      /\ handler'[h].user = 0 /\ handler'[h].token = 0
  BY <1>1, Dropped
<1>4. /\ 0 .. created \subseteq 0 .. created' /\ 0 .. issued \subseteq 0 .. issued'
      /\ handler'[h].user \in 0 .. created' /\ handler'[h].token \in 0 .. issued'
  BY <1>1, <1>3
<1> QED
  BY <1>2, <1>3, <1>4, HandsKept

LEMMA ProceedTypeOK ==
  ASSUME TypeOK, NEW h \in Handler, Proceed(h)
  PROVE  TypeOK'
<1> USE DEF accounts, sessions, browser, faults
<1>0. created \in Nat /\ issued \in Nat /\ handler \in [Handler -> Hand]
  BY DEF TypeOK, HandsOK, AccountsOK, SessionsOK
<1>h. handler[h].user \in 0 .. created /\ handler[h].token \in 0 .. issued
  BY DEF TypeOK, HandsOK
<1>k. HandOK(h)
  BY DEF TypeOK, HandsOK
<1>a. handler[h].pc \in {"user", "owner", "drop", "connect", "unuser", "unspace"} => handler[h].user > 0
  BY <1>k DEF HandOK, Registering, Pcs, Results
<1>b. handler[h].pc \in {"user", "owner", "drop", "connect", "unuser", "unspace"} =>
        handler[h].user \in 1 .. created
  BY <1>0, <1>a, <1>h
<1>1. CASE FindUsername(h)
  <2>1. HandsOK'
    BY <1>1, HandsWentOn, HandsAnswered DEF FindUsername, Registering, Pcs, Results
  <2> QED
    BY <1>1, <2>1 DEF FindUsername, TypeOK, AccountsOK, SessionsOK, BrowserOK, FaultsOK
<1>2. CASE CreateWorkspace(h)
  <2>1. created' = created + 1 /\ issued' = issued /\ created < MaxUsers
    BY <1>2 DEF CreateWorkspace
  <2>a. handler'[h].pc = "user" /\ handler'[h].user = created + 1 /\ handler'[h].token = handler[h].token
    BY <1>2, CreatedFor
  <2>2. HandOK(h)'
    BY <1>0, <2>a DEF HandOK
  <2>b. /\ 0 .. created \subseteq 0 .. created' /\ 0 .. issued \subseteq 0 .. issued'
        /\ handler'[h].user \in 0 .. created' /\ handler'[h].token \in 0 .. issued'
    BY <1>0, <1>h, <2>1, <2>a
  <2>c. handler' \in [Handler -> Hand] /\ \A g \in Handler \ {h} : handler'[g] = handler[g]
    BY <1>2, CreatedFor
  <2>3. HandsOK'
    BY <2>2, <2>b, <2>c, HandsKept
  <2>4. handler[h].who \in Identity \cup {None}
    BY <1>0 DEF Hand, Pcs, Results
  <2>5. AccountsOK'
    BY <1>0, <1>2, <2>1, <2>4, NoBounds DEF CreateWorkspace, TypeOK, AccountsOK, User
  <2> QED
    BY <1>0, <1>2, <2>1, <2>3, <2>5 DEF CreateWorkspace, TypeOK, SessionsOK, BrowserOK, FaultsOK
<1>3. CASE CreateUser(h)
  <2>1. HandsOK'
    BY <1>3, <1>a, HandsWentOn DEF CreateUser, Registering, Pcs, Results, At
  <2>2. AccountsOK'
    BY <1>3, <1>b DEF CreateUser, At, TypeOK, AccountsOK
  <2> QED
    BY <1>3, <2>1, <2>2 DEF CreateUser, TypeOK, SessionsOK, BrowserOK, FaultsOK
<1>4. CASE SetOwner(h)
  <2>1. HandsOK'
    BY <1>4, <1>a, HandsWentOn DEF SetOwner, Registering, Pcs, Results, At
  <2>2. AccountsOK'
    <3>1. handler[h].user \in Nat
      BY <1>0, <1>h
    <3> QED
      BY <1>4, <3>1 DEF SetOwner, TypeOK, AccountsOK
  <2> QED
    BY <1>4, <2>1, <2>2 DEF SetOwner, TypeOK, SessionsOK, BrowserOK, FaultsOK
<1>5. CASE Drop(h) \/ DeleteWorkspace(h)
  <2>1. HandsOK'
    BY <1>5, HandsAnswered DEF Results, Drop, DeleteWorkspace
  <2> QED
    BY <1>5, <2>1 DEF Drop, DeleteWorkspace, TypeOK, AccountsOK, SessionsOK, BrowserOK, FaultsOK
<1>6. CASE Connect(h)
  <2>1. HandsOK'
    BY <1>6, <1>a, HandsWentOn DEF Connect, Registering, Pcs, Results, At
  <2>2. AccountsOK'
    BY <1>6, <1>b DEF Connect, At, TypeOK, AccountsOK
  <2> QED
    BY <1>6, <2>1, <2>2 DEF Connect, TypeOK, SessionsOK, BrowserOK, FaultsOK
<1>7. CASE DeleteUser(h)
  <2>1. HandsOK'
    BY <1>7, <1>a, HandsWentOn DEF DeleteUser, Registering, Pcs, Results, At
  <2> QED
    BY <1>7, <2>1 DEF DeleteUser, TypeOK, AccountsOK, SessionsOK, BrowserOK, FaultsOK
<1>8. CASE Issue(h)
  <2>1. issued' = issued + 1 /\ created' = created /\ issued < MaxTokens
    BY <1>8 DEF Issue
  <2>a. handler'[h].pc = "answer" /\ handler'[h].user = handler[h].user /\ handler'[h].token = issued + 1
    BY <1>8, IssuedTo
  <2>2. HandOK(h)'
    <3>1. issued + 1 > 0
      BY <1>0
    <3> QED
      BY <2>a, <3>1 DEF HandOK, Registering, Pcs, Results
  <2>b. /\ 0 .. created \subseteq 0 .. created' /\ 0 .. issued \subseteq 0 .. issued'
        /\ handler'[h].user \in 0 .. created' /\ handler'[h].token \in 0 .. issued'
    BY <1>0, <1>h, <2>1, <2>a
  <2>c. handler' \in [Handler -> Hand] /\ \A g \in Handler \ {h} : handler'[g] = handler[g]
    BY <1>8, IssuedTo
  <2>3. HandsOK'
    BY <2>2, <2>b, <2>c, HandsKept
  <2>4. SessionsOK'
    <3>0. handler[h].user \in Nat
      BY <1>0, <1>h
    <3>1. /\ session' = [session EXCEPT ![issued + 1] = handler[h].user]
          /\ handler[h].user \in Nat /\ ended' = ended
      BY <1>8, <3>0 DEF Issue
    <3>2. session' \in [Token -> Nat]
      BY <3>1 DEF TypeOK, SessionsOK
    <3>3. \A k \in Token : session'[k] \in 0 .. created /\ (k > issued + 1 => session'[k] = 0)
      BY <1>0, <1>h, <3>1, NoBounds DEF TypeOK, SessionsOK, Token
    <3>4. issued' \in Nat /\ issued' <= MaxTokens
      BY <1>0, <2>1, NoBounds
    <3> QED
      BY <2>1, <3>1, <3>2, <3>3, <3>4 DEF TypeOK, SessionsOK
  <2>5. BrowserOK'
    <3>1. UNCHANGED browser
      BY <1>8 DEF Issue
    <3>2. cookie \in 0 .. issued + 1 /\ signedOut \subseteq 1 .. issued + 1
      BY <1>0 DEF TypeOK, BrowserOK
    <3> QED
      BY <2>1, <3>1, <3>2 DEF TypeOK, BrowserOK
  <2> QED
    BY <1>8, <2>3, <2>4, <2>5 DEF Issue, TypeOK, AccountsOK, FaultsOK
<1>9. CASE LookUp(h)
  <2>1. At(h, "lookup") => handler[h].token > 0
    BY <1>k DEF HandOK, At
  <2>2. HandsOK'
    BY <1>9, <2>1, HandsWentOn, HandsAnswered DEF LookUp, Registering, Pcs, Results
  <2> QED
    BY <1>9, <2>2 DEF LookUp, TypeOK, AccountsOK, SessionsOK, BrowserOK, FaultsOK
<1>10. CASE Revoke(h)
  <2>a. handler[h].token > 0
    BY <1>k, <1>10 DEF Revoke, HandOK, At
  <2>1. handler[h].token > 0 /\ handler[h].token \in Token
    BY <1>0, <1>h, <2>a, NoBounds DEF TypeOK, SessionsOK, Token
  <2>2. HandsOK'
    BY <1>10, <2>1, HandsAnswered DEF Results, Revoke
  <2> QED
    BY <1>10, <2>1, <2>2 DEF Revoke, TypeOK, AccountsOK, SessionsOK, BrowserOK, FaultsOK
<1> QED
  BY <1>1, <1>2, <1>3, <1>4, <1>5, <1>6, <1>7, <1>8, <1>9, <1>10 DEF Proceed

LEMMA BeginTypeOK ==
  ASSUME TypeOK, NEW h \in Handler, NEW t \in Tab,
         \/ \E i \in Identity : Register(h, t, i)
         \/ \E i \in Identity, right \in BOOLEAN : Login(h, t, i, right)
         \/ LoadSession(h, t) \/ LoadPage(h, t) \/ SignOut(h, t)
  PROVE  TypeOK'
<1> DEFINE OthersKept == handler' \in [Handler -> Hand] /\ \A g \in Handler \ {h} : handler'[g] = handler[g]
           InReach == handler'[h].user \in 0 .. created /\ handler'[h].token \in 0 .. issued
<1>0. /\ handler \in [Handler -> Hand] /\ created \in Nat /\ issued \in Nat
  BY DEF TypeOK, HandsOK, AccountsOK, SessionsOK
<1>h. handler \in [Handler -> Hand]
  BY <1>0
<1>1. /\ UNCHANGED <<accounts, sessions, cookie, status, shown, signedOut, faults>>
      /\ outdated' \subseteq Tab /\ crossed' \subseteq Tab
  BY DEF Register, Login, LoadSession, LoadPage, SignOut, Resolve, Crosses, TypeOK, BrowserOK
<1>2. ASSUME NEW i \in Identity, Register(h, t, i) PROVE OthersKept /\ InReach /\ HandOK(h)'
  <2>1. OthersKept /\ handler'[h].user = 0 /\ handler'[h].token = 0
    BY <1>0, <1>2, BegunRegister
  <2>2. handler'[h].pc \in {"username", "answer"} /\ handler'[h].result \in {"none", "failed"}
    BY <1>0, <1>2, BegunRegister
  <2>3. HandOK(h)'
    BY <2>2 DEF HandOK, Registering
  <2> QED
    BY <1>0, <2>1, <2>3
<1>3. ASSUME NEW i \in Identity, NEW right \in BOOLEAN, Login(h, t, i, right)
      PROVE  OthersKept /\ InReach /\ HandOK(h)'
  <2>1. OthersKept /\ handler'[h].token = 0 /\ handler'[h].user \in users \cup {0}
    BY <1>3, BegunLogin
  <2>2. handler'[h].pc \in {"issue", "answer"} /\ handler'[h].result \in {"none", "unauthorized"}
    BY <1>3, BegunLogin
  <2>3. HandOK(h)'
    BY <2>2 DEF HandOK, Registering
  <2>4. users \cup {0} \subseteq 0 .. created /\ 0 \in 0 .. issued
    BY <1>0 DEF TypeOK, AccountsOK
  <2> QED
    BY <2>1, <2>3, <2>4
<1>4. ASSUME NEW kind \in {"me", "page", "logout"}, Resolve(h, t, kind)
      PROVE  OthersKept /\ InReach /\ HandOK(h)'
  <2>1. OthersKept /\ handler'[h].token = cookie
    BY <1>4, Resolved
  <2>2. handler'[h].user = (IF Live(cookie) THEN session[cookie] ELSE 0)
    BY <1>4, Resolved
  <2>3. cookie \in 0 .. issued /\ (Live(cookie) => session[cookie] \in 0 .. created /\ cookie > 0)
    BY <1>0, NoBounds DEF TypeOK, BrowserOK, SessionsOK, Token, Live
  <2>4. InReach
    BY <1>0, <2>1, <2>2, <2>3
  <2>5. /\ handler'[h].pc = IF Live(cookie) THEN "lookup" ELSE "answer"
        /\ handler'[h].result \in {"none", "unauthorized"}
    BY <1>4, Resolved
  <2>6. handler'[h].pc = "lookup" => handler'[h].token > 0
    BY <2>1, <2>3, <2>5
  <2>7. HandOK(h)'
    BY <2>5, <2>6 DEF HandOK, Registering
  <2> QED
    BY <2>1, <2>4, <2>7
<1>5. OthersKept /\ InReach /\ HandOK(h)'
  BY <1>2, <1>3, <1>4 DEF LoadSession, LoadPage, SignOut
<1>6. created' = created /\ issued' = issued
  BY <1>1 DEF accounts, sessions
<1>7. HandsOK'
  BY <1>5, <1>6, HandsKept
<1> QED
  BY <1>1, <1>7 DEF TypeOK, AccountsOK, SessionsOK, BrowserOK, FaultsOK, accounts, sessions, faults

\* The browser takes a cookie, or forgets it.
LEMMA TookCookie ==
  ASSUME TypeOK, NEW h \in Handler, handler[h].result \in Cookies, TakesCookie(handler[h])
  PROVE  cookie' \in 0 .. issued /\ outdated' \subseteq Tab
<1>1. handler[h].token \in 0 .. issued /\ 0 \in 0 .. issued
  BY DEF TypeOK, HandsOK, SessionsOK
<1>2. CASE handler[h].result = "signed in"
  BY <1>1, <1>2, Zenon DEF TakesCookie
<1>3. CASE handler[h].result = "signed out"
  BY <1>1, <1>3 DEF TakesCookie, TypeOK, BrowserOK
<1> QED
  BY <1>2, <1>3 DEF Cookies

LEMMA TakeTypeOK ==
  ASSUME TypeOK, NEW h \in Handler, TakeCookie(h)
  PROVE  TypeOK'
<1>1. /\ UNCHANGED <<accounts, sessions, status, shown, crossed, signedOut, faults>>
      /\ At(h, "answer") /\ GoOn(h, "body") /\ handler[h].result \in Cookies
      /\ TakesCookie(handler[h])
  BY DEF TakeCookie
<1>2. created' = created /\ issued' = issued
  BY <1>1 DEF accounts, sessions
<1>3. HandOK(h)
  BY DEF TypeOK, HandsOK
<1>4. HandsOK'
  BY <1>1, <1>2, <1>3, HandsWentOn DEF Pcs, Registering
<1>5. cookie' \in 0 .. issued /\ outdated' \subseteq Tab
  BY <1>1, TookCookie
<1>6. BrowserOK'
  BY <1>1, <1>2, <1>5 DEF TypeOK, BrowserOK
<1> QED
  BY <1>1, <1>4, <1>6 DEF TypeOK, AccountsOK, SessionsOK, FaultsOK, accounts, sessions, faults

\* An answer arrives or is lost.
LEMMA AnswerTypeOK ==
  ASSUME TypeOK, NEW h \in Handler, Arrive(h) \/ Drain(h) \/ Lose(h)
  PROVE  TypeOK'
<1>1. UNCHANGED <<accounts, sessions, crossed, faults>> /\ handler' = [handler EXCEPT ![h] = Idle]
  BY DEF Arrive, Drain, Lose
<1>2. created' = created /\ issued' = issued
  BY <1>1 DEF accounts, sessions
<1>3. HandsOK'
  BY <1>1, <1>2, HandsDropped
<1>4. /\ handler[h].user \in Nat /\ handler[h].token \in 0 .. issued
      /\ handler[h].tab \in Tab \cup {None}
  BY DEF TypeOK, HandsOK, Hand
<1>a. handler[h].pc \in {"answer", "body"} /\ handler[h].result = "signed out" => handler[h].token > 0
  BY DEF TypeOK, HandsOK, HandOK
<1>b. issued \in Nat
  BY DEF TypeOK, SessionsOK
<1>c. handler[h].token \in 0 .. issued
  BY <1>4
<1>5. handler[h].pc \in {"answer", "body"} /\ handler[h].result = "signed out" =>
        handler[h].token \in 1 .. issued
  BY <1>a, <1>b, <1>c, Positive, Zenon
<1>6. ASSUME NEW t \in Tab, NEW kind, NEW result, Fails(t, kind, result)
      PROVE  /\ status' \in [Tab -> {"unknown", "authenticated", "anonymous"}]
             /\ shown' \in [Tab -> Nat]
  BY <1>6 DEF Fails, ClearSession, TypeOK, BrowserOK
<1>7. ASSUME Arrive(h) PROVE BrowserOK'
  <2>0. /\ handler[h].tab \in Tab /\ handler[h].pc \in {"answer", "body"}
        /\ UNCHANGED <<cookie, outdated>>
    BY <1>4, <1>7 DEF Arrive, At
  <2>1. signedOut' \subseteq 1 .. issued
    BY <1>5, <1>7, <2>0 DEF Arrive, TypeOK, BrowserOK
  <2>2. CASE \E n \in Nat : SetAuthenticated(handler[h].tab, n)
    BY <1>1, <1>2, <2>0, <2>1, <2>2 DEF SetAuthenticated, TypeOK, BrowserOK
  <2>3. CASE ClearSession(handler[h].tab)
    BY <1>1, <1>2, <2>0, <2>1, <2>3 DEF ClearSession, TypeOK, BrowserOK
  <2>4. CASE UNCHANGED <<status, shown>>
    BY <1>1, <1>2, <2>0, <2>1, <2>4 DEF TypeOK, BrowserOK
  <2>5. \/ \E n \in Nat : SetAuthenticated(handler[h].tab, n)
        \/ ClearSession(handler[h].tab) \/ UNCHANGED <<status, shown>>
    BY <1>4, <1>7 DEF Arrive, Fails
  <2> QED
    BY <2>2, <2>3, <2>4, <2>5
<1>8. ASSUME Lose(h) PROVE BrowserOK'
  <2>0. handler[h].tab \in Tab
    BY <1>4, <1>8 DEF Lose
  <2> QED
    BY <1>1, <1>2, <1>6, <1>8, <2>0 DEF Lose, TypeOK, BrowserOK
<1>9. ASSUME Drain(h) PROVE BrowserOK'
  <2>1. cookie' \in 0 .. issued /\ outdated' \subseteq Tab
    BY <1>9, TookCookie DEF Drain, TypeOK, BrowserOK
  <2> QED
    BY <1>2, <1>9, <2>1 DEF Drain, TypeOK, BrowserOK
<1>10. BrowserOK'
  BY <1>7, <1>8, <1>9
<1> QED
  BY <1>1, <1>3, <1>10 DEF TypeOK, AccountsOK, SessionsOK, FaultsOK, accounts, sessions, faults

\* A database call fails, and its request takes the way the code has for that.
LEMMA RejectedTo ==
  ASSUME NEW h \in Handler, Reject(h)
  PROVE  /\ \/ handler[h].pc \in {"user", "owner"} /\ GoOn(h, "drop")
            \/ At(h, "connect") /\ GoOn(h, "unuser")
            \/ handler[h].pc \notin {"user", "owner", "connect", "idle", "answer", "body"} /\ Answer(h, "failed")
         /\ mailboxes' = mailboxes \/ (At(h, "connect") /\ mailboxes' = mailboxes \cup {handler[h].user})
         /\ UNCHANGED <<created, identity, workspaces, users, owned, sessions, browser>>
         /\ met' = met + 1 /\ spoilt' = spoilt \cup ({handler[h].user} \cap User)
         /\ disowned' = IF At(h, "owner") THEN disowned \cup {handler[h].user} ELSE disowned
<1>1. CASE handler[h].pc \in {"user", "owner"}
  BY <1>1 DEF Reject, At
<1>2. CASE handler[h].pc = "connect"
  BY <1>2 DEF Reject, At
<1>3. CASE handler[h].pc \notin {"user", "owner", "connect"}
  BY <1>3 DEF Reject, At
<1> QED
  BY <1>1, <1>2, <1>3

LEMMA FaultTypeOK ==
  ASSUME TypeOK, \/ \E h \in Handler : Reject(h)
                 \/ \E t \in Tab : Reload(t)
                 \/ \E k \in Token : Expire(k)
                 \/ Crash
  PROVE  TypeOK'
<1>h. handler \in [Handler -> Hand] /\ \A h \in Handler : HandOK(h)
  BY DEF TypeOK, HandsOK
<1>u. \A h \in Handler : handler[h].user \in 0 .. created /\ handler[h].token \in 0 .. issued
  BY DEF TypeOK, HandsOK
<1>n. created \in Nat /\ issued \in Nat
  BY DEF TypeOK, AccountsOK, SessionsOK
<1>1. ASSUME NEW h \in Handler, Reject(h) PROVE TypeOK'
  <2>1. created' = created /\ issued' = issued
    BY <1>1, RejectedTo DEF sessions
  <2>2. handler[h].pc \in {"user", "owner", "connect"} => handler[h].user > 0
    BY <1>h DEF HandOK, Registering
  <2>3. HandsOK'
    <3>1. CASE handler[h].pc \in {"user", "owner"} /\ GoOn(h, "drop")
      BY <2>1, <2>2, <3>1, HandsWentOn DEF Pcs, Registering
    <3>2. CASE At(h, "connect") /\ GoOn(h, "unuser")
      BY <2>1, <2>2, <3>2, HandsWentOn DEF Pcs, Registering, At
    <3>3. CASE Answer(h, "failed")
      BY <2>1, <3>3, HandsAnswered DEF Results
    <3> QED
      BY <1>1, <3>1, <3>2, <3>3, RejectedTo
  <2>4. At(h, "connect") => handler[h].user \in 1 .. created
    BY <1>n, <1>u, <2>2, Positive, Zenon DEF At
  <2>5. /\ UNCHANGED <<created, identity, workspaces, users, owned>>
        /\ mailboxes' = mailboxes \/ (At(h, "connect") /\ mailboxes' = mailboxes \cup {handler[h].user})
    BY <1>1, RejectedTo
  <2>6. AccountsOK'
    BY <2>4, <2>5 DEF TypeOK, AccountsOK
  <2>7. handler[h].user \in Nat
    BY <1>n, <1>u
  <2>8. FaultsOK'
    <3>1. met' = met + 1 /\ spoilt' = spoilt \cup ({handler[h].user} \cap User)
      BY <1>1, RejectedTo
    <3>2. disowned' \subseteq disowned \cup {handler[h].user}
      BY <1>1, RejectedTo
    <3> QED
      BY <2>7, <3>1, <3>2 DEF TypeOK, FaultsOK
  <2>9. UNCHANGED <<sessions, browser>>
    BY <1>1, RejectedTo
  <2> QED
    BY <2>1, <2>3, <2>6, <2>8, <2>9 DEF TypeOK, SessionsOK, BrowserOK, sessions, browser
<1>2. ASSUME NEW t \in Tab, Reload(t) PROVE TypeOK'
  <2>1. handler' \in [Handler -> Hand]
    BY <1>h, <1>2, Reloaded
  <2>2. ASSUME NEW h \in Handler
        PROVE  HandOK(h)' /\ handler'[h].user \in 0 .. created /\ handler'[h].token \in 0 .. issued
    <3>1. CASE handler'[h] = handler[h]
      BY <1>h, <1>u, <3>1 DEF HandOK
    <3>2. CASE handler'[h] = Idle
      <4>1. Idle.pc = "idle" /\ Idle.user = 0 /\ Idle.token = 0
        BY DEF Idle
      <4>2. HandOK(h)'
        BY <3>2, <4>1 DEF HandOK, Registering
      <4> QED
        BY <1>n, <3>2, <4>1, <4>2
    <3>3. CASE /\ handler'[h].pc = handler[h].pc
               /\ handler'[h].user = handler[h].user /\ handler'[h].token = handler[h].token
               /\ handler'[h].result = handler[h].result
      BY <1>h, <1>u, <3>3 DEF HandOK
    <3> QED
      BY <1>h, <1>2, <3>1, <3>2, <3>3, Reloaded
  <2>3. UNCHANGED <<accounts, sessions, cookie, outdated, signedOut, faults>> /\ crossed' = crossed \ {t}
    BY <1>2 DEF Reload
  <2>4. HandsOK'
    BY <2>1, <2>2, <2>3 DEF HandsOK, accounts, sessions
  <2>5. BrowserOK'
    BY <1>2, <2>3 DEF Reload, TypeOK, BrowserOK, sessions
  <2> QED
    BY <2>3, <2>4, <2>5 DEF TypeOK, AccountsOK, SessionsOK, FaultsOK, accounts, sessions, faults
<1>3. ASSUME NEW k \in Token, Expire(k) PROVE TypeOK'
  <2>1. BrowserOK'
    BY <1>n, <1>3 DEF Expire, TypeOK, BrowserOK
  <2> QED
    BY <1>3, <2>1 DEF Expire, TypeOK, AccountsOK, SessionsOK, FaultsOK, HandsOK, HandOK, accounts, faults
<1>4. ASSUME Crash PROVE TypeOK'
  <2>1. handler' \in [Handler -> Hand]
    BY <1>h, <1>4, Restarted
  <2>2. ASSUME NEW h \in Handler
        PROVE  HandOK(h)' /\ handler'[h].user \in 0 .. created /\ handler'[h].token \in 0 .. issued
    <3>1. CASE handler'[h] = Idle
      <4>1. Idle.pc = "idle" /\ Idle.user = 0 /\ Idle.token = 0
        BY DEF Idle
      <4>2. HandOK(h)'
        BY <3>1, <4>1 DEF HandOK, Registering
      <4> QED
        BY <1>n, <3>1, <4>1, <4>2
    <3>2. CASE /\ handler'[h].pc = "answer" /\ handler'[h].result = "failed"
               /\ handler'[h].user = handler[h].user /\ handler'[h].token = handler[h].token
      <4>1. HandOK(h)'
        BY <3>2 DEF HandOK, Registering
      <4> QED
        BY <1>u, <3>2, <4>1, Zenon
    <3> QED
      BY <1>h, <1>4, <3>1, <3>2, Restarted
  <2>3. UNCHANGED <<accounts, sessions, browser, disowned>> /\ met' = met + 1
    BY <1>4 DEF Crash
  <2>4. HandsOK'
    BY <2>1, <2>2, <2>3 DEF HandsOK, accounts, sessions
  <2>5. FaultsOK'
    <3>1. spoilt' \subseteq spoilt \cup User
      BY <1>4, Zenon DEF Crash
    <3>2. met' = met + 1 /\ disowned' = disowned
      BY <2>3
    <3> QED
      BY <3>1, <3>2 DEF TypeOK, FaultsOK
  <2> QED
    BY <2>3, <2>4, <2>5 DEF TypeOK, AccountsOK, SessionsOK, BrowserOK, accounts, sessions, browser
<1> QED
  BY <1>1, <1>2, <1>3, <1>4

LEMMA StepTypeOK == TypeOK /\ [Next]_vars => TypeOK'
<1> SUFFICES ASSUME TypeOK, [Next]_vars PROVE TypeOK'
  OBVIOUS
<1>1. CASE UNCHANGED vars
  BY <1>1 DEF vars, accounts, sessions, browser, faults, TypeOK, AccountsOK, SessionsOK, BrowserOK,
              FaultsOK, HandsOK, HandOK
<1>2. CASE Next
  BY <1>2, BeginTypeOK, ProceedTypeOK, TakeTypeOK, AnswerTypeOK, FaultTypeOK DEF Next
<1> QED
  BY <1>1, <1>2

(***************************************************************************)
(* Users, workspaces, sessions and what requests have in hand keep their   *)
(* types: no request of auth.service.ts has a user or a session in hand    *)
(* that was never created, whatever fails and however requests overlap.    *)
(***************************************************************************)
THEOREM SessionTypeCorrect == Spec => []TypeOK
<1>1. QED
  BY InitTypeOK, StepTypeOK, PTL DEF Spec

-----------------------------------------------------------------------------
(***************************************************************************)
(* Steps that start no request, issue no session and bring no cookie: a    *)
(* request keeps its session, and what it had in hand that mattered.       *)
(***************************************************************************)
Carries(h) ==
  \/ handler'[h] = Idle
  \/ /\ handler'[h].token = handler[h].token /\ handler'[h].kind = handler[h].kind
     /\ handler'[h].tab \in {handler[h].tab, None}
     /\ SignsIn(h)' => SignsIn(h) /\ handler'[h].user = handler[h].user
     /\ SignedIn(h)' => SignedIn(h) /\ handler'[h].user = handler[h].user
                                    /\ handler'[h].tab = handler[h].tab
     /\ SignsOut(h)' => handler[h].token \in ended'
     /\ SignedOff(h)' => handler[h].token # cookie'
     /\ Loading(h)' => Loading(h) /\ handler'[h].user = handler[h].user
     /\ Forms(h)' => Forms(h)

\* What it makes of a tab: that is left alone, or shows nobody.
Leaves(t) ==
  \/ status'[t] = status[t] /\ shown'[t] = shown[t]
  \/ /\ status'[t] # "authenticated"
     /\ status'[t] = "unknown" \/ \A g \in Handler : ~(handler'[g].kind = "me" /\ handler'[g].tab = t)

\* A tab that no longer counts as having signed in twice at once was reloaded.
Released ==
  \A t \in crossed \ crossed' :
    status'[t] # "authenticated" /\ \A h \in Handler : handler'[h].tab # t

LEMMA IdleNow ==
  ASSUME NEW h \in Handler, handler'[h] = Idle
  PROVE  /\ ~SignsIn(h)' /\ ~SignedIn(h)' /\ ~SignsOut(h)' /\ ~SignedOff(h)' /\ ~Loading(h)'
         /\ ~Forms(h)' /\ ~Form(h)'
         /\ handler'[h].kind = "none" /\ handler'[h].tab = None /\ handler'[h].token = 0
BY DEF Idle, SignsIn, SignedIn, SignsOut, SignedOff, Loading, Forms, Form, Registering, At

\* A session whose sign-out is under way is not the browser's again.
LEMMA OffKept ==
  ASSUME TypeOK, SessionInv, NEW h \in Handler, cookie' \in {cookie, 0}
  PROVE  /\ SignsOut(h) => handler[h].token \in ended /\ handler[h].token # 0
         /\ SignedOff(h) => handler[h].token # cookie'
<1>1. SignsOut(h) => handler[h].token \in ended /\ handler[h].token > 0
  BY DEF SessionInv, HandInv, SignOutInv, SignsOut, TypeOK, HandsOK, HandOK
<1>2. SignsOut(h) => handler[h].token # 0
  BY <1>1
<1>3. SignedOff(h) => SignsOut(h) /\ handler[h].token # cookie
  BY DEF SessionInv, HandInv, SignOutInv, SignsOut, SignedOff, At
<1> QED
  BY <1>1, <1>2, <1>3, Zenon

LEMMA CarriedHands ==
  ASSUME TypeOK, SessionInv, \A h \in Handler : Carries(h), ShownIsServed', Released,
         \A h \in Handler : handler'[h].kind = "me" /\ handler'[h].tab \in Tab =>
                             status'[handler'[h].tab] = "unknown",
         \A h \in Handler : Form(h)' /\ handler'[h].tab \in Tab \ crossed' =>
                             status'[handler'[h].tab] # "authenticated",
         session' = session, outdated' = outdated, cookie' \in {cookie, 0},
         SignedOutIsOver', \A h \in Handler : SignsIn(h)' => handler'[h].token \notin signedOut'
  PROVE  SessionInv'
<1>t. None \notin Tab /\ \A h \in Handler : handler[h].tab \in Tab \cup {None}
  BY SessionAssumption DEF TypeOK, HandsOK, Hand
<1>k. \A h \in Handler : HandInv(h)
  BY DEF SessionInv
<1>f. ASSUME NEW h \in Handler, Form(h)'
      PROVE  Form(h) /\ handler'[h].kind = handler[h].kind /\ handler'[h].tab \in {handler[h].tab, None}
  <2>1. handler'[h] # Idle
    BY <1>f, IdleNow
  <2> QED
    BY <1>f, <2>1 DEF Carries, Form
<1>2. ASSUME NEW h \in Handler PROVE SignInInv(h)'
  <2> SUFFICES ASSUME SignsIn(h)'
               PROVE  /\ handler'[h].token > 0 /\ handler'[h].token # cookie'
                      /\ handler'[h].token \notin signedOut'
                      /\ session'[handler'[h].token] = handler'[h].user
                      /\ \A g \in Handler \ {h} : handler'[g].token # handler'[h].token
    BY DEF SignInInv
  <2>1. SignsIn(h) /\ handler'[h].token = handler[h].token /\ handler'[h].user = handler[h].user
    BY IdleNow DEF Carries
  <2>2. /\ handler[h].token > 0 /\ handler[h].token # cookie
        /\ session[handler[h].token] = handler[h].user
        /\ \A g \in Handler \ {h} : handler[g].token # handler[h].token
    BY <1>k, <2>1 DEF HandInv, SignInInv
  <2>3. handler[h].token # 0
    BY <2>2
  <2>4. \A g \in Handler : handler'[g].token \in {handler[g].token, 0}
    BY IdleNow DEF Carries
  <2> QED
    BY <2>1, <2>2, <2>3, <2>4, Zenon
<1>3. ASSUME NEW h \in Handler PROVE SignOutInv(h)'
  <2>1. CASE handler'[h] = Idle
    BY <2>1, IdleNow DEF SignOutInv
  <2>2. CASE handler'[h] # Idle
    <3>1. /\ handler'[h].token = handler[h].token
          /\ SignsOut(h)' => handler[h].token \in ended'
          /\ SignedOff(h)' => handler[h].token # cookie'
      BY <2>2 DEF Carries
    <3> QED
      BY <3>1 DEF SignOutInv
  <2> QED
    BY <2>1, <2>2
<1>4. ASSUME NEW h \in Handler PROVE BodyInv(h)'
  <2> SUFFICES ASSUME SignedIn(h)'
               PROVE  /\ handler'[h].tab # None /\ session'[handler'[h].token] = handler'[h].user
                      /\ cookie' # 0 /\ handler'[h].tab \notin outdated' \cup crossed' =>
                           handler'[h].token = cookie'
    BY DEF BodyInv
  <2>1. /\ SignedIn(h) /\ handler'[h].token = handler[h].token
        /\ handler'[h].user = handler[h].user /\ handler'[h].tab = handler[h].tab
    BY IdleNow DEF Carries
  <2>2. /\ handler[h].tab # None /\ session[handler[h].token] = handler[h].user
        /\ cookie # 0 /\ handler[h].tab \notin outdated \cup crossed => handler[h].token = cookie
    BY <1>k, <2>1 DEF HandInv, BodyInv
  <2>3. handler'[h].tab \notin crossed' => handler[h].tab \notin crossed
    BY <2>1 DEF Released
  <2> QED
    BY <2>1, <2>2, <2>3
<1>5. ASSUME NEW h \in Handler PROVE FormInv(h)'
  <2>1. Forms(h)' \/ SignsIn(h)' \/ SignedIn(h)' => Form(h)'
    <3>1. Forms(h)' \/ SignsIn(h)' \/ SignedIn(h)' =>
            /\ Forms(h) \/ SignsIn(h) \/ SignedIn(h)
            /\ handler'[h].kind = handler[h].kind
      BY IdleNow DEF Carries
    <3>2. Forms(h) \/ SignsIn(h) \/ SignedIn(h) => Form(h)
      BY <1>k DEF HandInv, FormInv
    <3> QED
      BY <3>1, <3>2 DEF Form
  <2>2. ASSUME Form(h)', handler'[h].tab # None, handler'[h].tab \notin crossed'
        PROVE  /\ status'[handler'[h].tab] # "authenticated"
               /\ \A g \in Handler \ {h} : ~(Form(g)' /\ handler'[g].tab = handler'[h].tab)
    <3>1. Form(h) /\ handler'[h].tab = handler[h].tab
      BY <1>f, <2>2
    <3>2. handler[h].tab \notin crossed
      BY <2>2, <3>1 DEF Released
    <3>3. \A g \in Handler \ {h} : ~(Form(g) /\ handler[g].tab = handler[h].tab)
      BY <1>k, <2>2, <3>1, <3>2 DEF HandInv, FormInv
    <3>4. handler'[h].tab \in Tab
      BY <1>t, <2>2, <3>1
    <3>5. status'[handler'[h].tab] # "authenticated"
      BY <2>2, <3>4
    <3>6. ASSUME NEW g \in Handler \ {h}, Form(g)', handler'[g].tab = handler'[h].tab PROVE FALSE
      <4>1. Form(g) /\ handler'[g].tab \in {handler[g].tab, None}
        BY <1>f, <3>6
      <4>2. handler[g].tab = handler[h].tab
        BY <2>2, <3>1, <3>6, <4>1
      <4> QED
        BY <3>3, <4>1, <4>2
    <3> QED
      BY <3>5, <3>6
  <2> QED
    BY <2>1, <2>2 DEF FormInv
<1>6. ASSUME NEW h \in Handler PROVE LoadInv(h)'
  <2> SUFFICES ASSUME handler'[h].kind = "me" PROVE LoadInv(h)'
    BY DEF LoadInv, Loading
  <2>1. handler'[h] # Idle
    BY IdleNow
  <2>2. /\ handler'[h].token = handler[h].token /\ handler[h].kind = "me"
        /\ handler'[h].tab \in {handler[h].tab, None}
        /\ Loading(h)' => Loading(h) /\ handler'[h].user = handler[h].user
    BY <2>1 DEF Carries
  <2>3. Loading(h) => handler[h].token > 0 /\ session[handler[h].token] = handler[h].user
    BY <1>k DEF HandInv, LoadInv, Loading
  <2>4. Loading(h)' => handler'[h].token > 0 /\ session'[handler'[h].token] = handler'[h].user
    BY <2>2, <2>3, Zenon
  <2>5. ASSUME handler'[h].tab # None
        PROVE  /\ status'[handler'[h].tab] = "unknown"
               /\ \A g \in Handler \ {h} : handler'[g].tab # handler'[h].tab
               /\ cookie' # 0 /\ handler'[h].tab \notin outdated' => handler'[h].token = cookie'
    <3>1. handler'[h].tab = handler[h].tab /\ handler[h].tab # None
      BY <2>2, <2>5
    <3>2. /\ status[handler[h].tab] = "unknown"
          /\ \A g \in Handler \ {h} : handler[g].tab # handler[h].tab
          /\ cookie # 0 /\ handler[h].tab \notin outdated => handler[h].token = cookie
      BY <1>k, <2>2, <3>1 DEF HandInv, LoadInv
    <3>3. handler[h].tab \in Tab
      BY <1>t, <3>1
    <3>4. status'[handler[h].tab] = "unknown"
      BY <2>2, <3>1, <3>3
    <3>5. \A g \in Handler \ {h} : handler'[g].tab # handler[h].tab
      BY <3>1, <3>2, IdleNow DEF Carries
    <3>6. cookie' # 0 => cookie' = cookie
      OBVIOUS
    <3> QED
      BY <2>2, <3>1, <3>2, <3>4, <3>5, <3>6, Zenon
  <2> QED
    BY <2>4, <2>5 DEF LoadInv
<1>7. \A h \in Handler : HandInv(h)'
  BY <1>2, <1>3, <1>4, <1>5, <1>6 DEF HandInv
<1> QED
  BY <1>7 DEF SessionInv

LEMMA Carried ==
  ASSUME TypeOK, SessionInv, \A h \in Handler : Carries(h), \A t \in Tab : Leaves(t), Released,
         session' = session, outdated' = outdated, cookie' \in {cookie, 0},
         SignedOutIsOver', \A h \in Handler : SignsIn(h)' => handler'[h].token \notin signedOut'
  PROVE  SessionInv'
<1>k. \A h \in Handler : HandInv(h)
  BY DEF SessionInv
<1>n. None \notin Tab
  BY SessionAssumption
<1>1. ShownIsServed'
  BY DEF SessionInv, ShownIsServed, Leaves, Released
<1>2. ASSUME NEW h \in Handler, handler'[h].kind = "me", handler'[h].tab \in Tab
      PROVE  status'[handler'[h].tab] = "unknown"
  <2>2. handler[h].kind = "me" /\ handler[h].tab = handler'[h].tab
    BY <1>2, <1>n, IdleNow DEF Carries
  <2>3. status[handler'[h].tab] = "unknown"
    BY <1>2, <1>k, <1>n, <2>2 DEF HandInv, LoadInv
  <2> QED
    BY <1>2, <2>3 DEF Leaves
<1>3. ASSUME NEW h \in Handler, Form(h)', handler'[h].tab \in Tab \ crossed'
      PROVE  status'[handler'[h].tab] # "authenticated"
  <2>1. Form(h) /\ handler[h].tab = handler'[h].tab
    BY <1>3, <1>n, IdleNow DEF Carries, Form
  <2>2. handler[h].tab \notin crossed
    BY <1>3, <2>1 DEF Released
  <2>3. status[handler'[h].tab] # "authenticated"
    BY <1>3, <1>k, <1>n, <2>1, <2>2 DEF HandInv, FormInv
  <2> QED
    BY <1>3, <2>3 DEF Leaves
<1> QED
  BY <1>1, <1>2, <1>3, CarriedHands

\* No sign-out is answered.
LEMMA CarriedOn ==
  ASSUME TypeOK, SessionInv, \A h \in Handler : Carries(h), \A t \in Tab : Leaves(t), Released,
         session' = session, outdated' = outdated, signedOut' = signedOut,
         ended \subseteq ended', cookie' \in {cookie, 0}
  PROVE  SessionInv'
<1>1. 0 \notin signedOut
  BY DEF TypeOK, BrowserOK
<1>2. SignedOutIsOver'
  BY <1>1 DEF SessionInv, SignedOutIsOver
<1>3. ASSUME NEW h \in Handler, SignsIn(h)' PROVE handler'[h].token \notin signedOut'
  <2>1. SignsIn(h) /\ handler'[h].token = handler[h].token
    BY <1>3, IdleNow DEF Carries
  <2> QED
    BY <2>1 DEF SessionInv, HandInv, SignInInv
<1> QED
  BY <1>2, <1>3, Carried

\* A request that did not move.
LEMMA StoodStill ==
  ASSUME TypeOK, SessionInv, NEW h \in Handler, handler'[h] = handler[h],
         ended \subseteq ended', cookie' \in {cookie, 0}
  PROVE  Carries(h)
<1>1. /\ SignsOut(h) => handler[h].token \in ended
      /\ SignedOff(h) => handler[h].token # cookie'
  BY OffKept
<1>2. /\ SignsIn(h)' <=> SignsIn(h)
      /\ SignedIn(h)' <=> SignedIn(h)
      /\ SignsOut(h)' <=> SignsOut(h)
      /\ SignedOff(h)' <=> SignedOff(h)
      /\ Loading(h)' <=> Loading(h)
      /\ Forms(h)' <=> Forms(h)
  BY DEF SignsIn, SignedIn, SignsOut, SignedOff, Loading, Forms, At
<1> QED
  BY <1>1, <1>2 DEF Carries

\* Tabs are left alone, and the requests that did not move.
LEMMA CarriedBy ==
  ASSUME TypeOK, SessionInv, NEW h \in Handler, Carries(h),
         \A g \in Handler \ {h} : handler'[g] = handler[g],
         session' = session, browser' = browser, ended \subseteq ended'
  PROVE  SessionInv'
<1>1. \A g \in Handler : Carries(g)
  BY StoodStill DEF browser
<1>2. \A t \in Tab : Leaves(t)
  BY DEF Leaves, browser
<1>3. Released
  BY DEF Released, browser
<1> QED
  BY <1>1, <1>2, <1>3, CarriedOn DEF browser

LEMMA CarriedWentOn ==
  ASSUME TypeOK, SessionInv, NEW h \in Handler, NEW pc \in Pcs \ {"answer", "lookup", "body"},
         GoOn(h, pc),
         pc \in Registering \cup {"issue"} => Forms(h),
         session' = session, browser' = browser, ended' = ended
  PROVE  SessionInv'
<1>0. handler \in [Handler -> Hand]
  BY DEF TypeOK, HandsOK
<1>1. /\ handler'[h].pc = pc /\ handler'[h].kind = handler[h].kind
      /\ handler'[h].tab = handler[h].tab /\ handler'[h].token = handler[h].token
      /\ \A g \in Handler \ {h} : handler'[g] = handler[g]
  BY <1>0, WentOn
<1>2. Carries(h)
  BY <1>1 DEF Carries, SignsIn, SignedIn, SignsOut, SignedOff, Loading, Forms, At
<1> QED
  BY <1>1, <1>2, CarriedBy

LEMMA CarriedAnswered ==
  ASSUME TypeOK, SessionInv, NEW h \in Handler, NEW result \in Results \ {"signed in"},
         Answer(h, result),
         result = "signed out" => handler[h].token \in ended', result = "served" => At(h, "lookup"),
         session' = session, browser' = browser, ended \subseteq ended'
  PROVE  SessionInv'
<1>0. handler \in [Handler -> Hand]
  BY DEF TypeOK, HandsOK
<1>1. /\ handler'[h].pc = "answer" /\ handler'[h].result = result
      /\ handler'[h].kind = handler[h].kind /\ handler'[h].tab = handler[h].tab
      /\ handler'[h].token = handler[h].token /\ handler'[h].user = handler[h].user
      /\ \A g \in Handler \ {h} : handler'[g] = handler[g]
  BY <1>0, Answered
<1>2. ~SignsIn(h)' /\ ~SignedIn(h)' /\ ~SignedOff(h)' /\ ~Forms(h)'
  BY <1>1 DEF SignsIn, SignedIn, SignedOff, Forms, Registering, At
<1>3. SignsOut(h)' => handler[h].token \in ended'
  BY <1>1 DEF SignsOut
<1>4. Loading(h)' => Loading(h)
  BY <1>1 DEF Loading, At
<1>5. Carries(h)
  BY <1>1, <1>2, <1>3, <1>4, Zenon DEF Carries
<1> QED
  BY <1>1, <1>5, CarriedBy

LEMMA ProceedSessionInv ==
  ASSUME TypeOK, SessionInv, NEW h \in Handler, Proceed(h), ~Issue(h)
  PROVE  SessionInv'
<1> USE DEF sessions
<1>1. CASE FindUsername(h)
  <2>1. At(h, "username") => Forms(h)
    BY DEF At, Forms, Registering
  <2> QED
    BY <1>1, <2>1, CarriedWentOn, CarriedAnswered DEF FindUsername, Registering, Pcs, Results
<1>2. CASE CreateWorkspace(h)
  <2>1. /\ handler'[h].pc = "user" /\ handler'[h].kind = handler[h].kind
        /\ handler'[h].tab = handler[h].tab /\ handler'[h].token = handler[h].token
        /\ \A g \in Handler \ {h} : handler'[g] = handler[g]
    BY <1>2, CreatedFor
  <2>2. At(h, "workspace")
    BY <1>2 DEF CreateWorkspace
  <2>3. ~SignsIn(h)' /\ ~SignedIn(h)' /\ ~SignsOut(h)' /\ ~SignedOff(h)' /\ ~Loading(h)' /\ Forms(h)
    BY <2>1, <2>2 DEF SignsIn, SignedIn, SignsOut, SignedOff, Loading, Forms, Registering, At
  <2>4. Carries(h)
    BY <2>1, <2>3 DEF Carries
  <2> QED
    BY <1>2, <2>1, <2>4, CarriedBy DEF CreateWorkspace
<1>3. CASE CreateUser(h) \/ SetOwner(h) \/ Connect(h) \/ DeleteUser(h)
  <2>1. Forms(h)
    BY <1>3 DEF CreateUser, SetOwner, Connect, DeleteUser, At, Forms, Registering
  <2>2. session' = session /\ browser' = browser /\ ended' = ended
    BY <1>3 DEF CreateUser, SetOwner, Connect, DeleteUser
  <2>3. GoOn(h, "owner") \/ GoOn(h, "drop") \/ GoOn(h, "connect") \/ GoOn(h, "issue")
          \/ GoOn(h, "unuser") \/ GoOn(h, "unspace")
    BY <1>3 DEF CreateUser, SetOwner, Connect, DeleteUser
  <2> QED
    BY <2>1, <2>2, <2>3, CarriedWentOn DEF Registering, Pcs
<1>4. CASE Drop(h) \/ DeleteWorkspace(h)
  BY <1>4, CarriedAnswered DEF Drop, DeleteWorkspace, Results
<1>5. CASE LookUp(h)
  BY <1>5, CarriedWentOn, CarriedAnswered DEF LookUp, Registering, Pcs, Results
<1>6. CASE Revoke(h)
  BY <1>6, CarriedAnswered DEF Revoke, Results
<1> QED
  BY <1>1, <1>2, <1>3, <1>4, <1>5, <1>6 DEF Proceed

\* A new session is in one hand only, and no browser has its cookie yet.
LEMMA IssueSessionInv ==
  ASSUME TypeOK, SessionInv, NEW h \in Handler, Issue(h)
  PROVE  SessionInv'
<1>0. issued \in Nat /\ issued < MaxTokens /\ cookie \in 0 .. issued /\ signedOut \subseteq 1 .. issued
  BY DEF Issue, TypeOK, SessionsOK, BrowserOK
<1>1. /\ At(h, "issue") /\ session' = [session EXCEPT ![issued + 1] = handler[h].user]
      /\ ended' = ended /\ browser' = browser
  BY DEF Issue
<1>2. /\ handler'[h].pc = "answer" /\ handler'[h].kind = handler[h].kind
      /\ handler'[h].tab = handler[h].tab
      /\ handler'[h].user = handler[h].user /\ handler'[h].token = issued + 1
      /\ handler'[h].result = "signed in"
      /\ \A g \in Handler \ {h} : handler'[g] = handler[g]
  BY IssuedTo
<1>3. \A g \in Handler : handler[g].token \in 0 .. issued
  BY DEF TypeOK, HandsOK
<1>4. /\ session'[issued + 1] = handler[h].user
      /\ \A k \in 0 .. issued : session'[k] = session[k]
  BY <1>0, <1>1, NoBounds DEF TypeOK, SessionsOK, Token
<1>5. issued + 1 > 0 /\ issued + 1 \notin 0 .. issued /\ issued + 1 \notin signedOut /\ issued + 1 # cookie
  BY <1>0
<1>k. \A g \in Handler : HandInv(g)
  BY DEF SessionInv
<1>f. Form(h) /\ handler[h].kind # "me"
  BY <1>1, <1>k DEF HandInv, FormInv, Forms, Form, At
<1>o. /\ \A g \in Handler : handler'[g].kind = handler[g].kind /\ handler'[g].tab = handler[g].tab
      /\ \A g \in Handler : Form(g)' <=> Form(g)
  BY <1>2 DEF Form
<1>6. ASSUME NEW g \in Handler PROVE SignInInv(g)'
  <2>1. CASE g = h
    BY <1>1, <1>2, <1>3, <1>4, <1>5, <2>1, Zenon DEF SignInInv, browser
  <2>2. CASE g # h
    <3>1. handler'[g] = handler[g] /\ handler[g].token # issued + 1
      BY <1>2, <1>3, <1>5, <2>2
    <3>2. session'[handler[g].token] = session[handler[g].token]
      BY <1>3, <1>4
    <3>3. \A f \in Handler \ {g} :
            handler'[f].token = handler[f].token \/ handler'[f].token = issued + 1
      BY <1>2
    <3> QED
      BY <1>1, <1>k, <3>1, <3>2, <3>3, Zenon DEF HandInv, SignInInv, SignsIn, At, browser
  <2> QED
    BY <2>1, <2>2
<1>7. ASSUME NEW g \in Handler PROVE SignOutInv(g)'
  <2>1. CASE g = h
    BY <1>2, <2>1 DEF SignOutInv, SignsOut, SignedOff
  <2>2. CASE g # h
    BY <1>1, <1>2, <1>k, <2>2 DEF HandInv, SignOutInv, SignsOut, SignedOff, At, browser
  <2> QED
    BY <2>1, <2>2
<1>b. ASSUME NEW g \in Handler PROVE BodyInv(g)'
  <2>1. CASE g = h
    BY <1>2, <2>1 DEF BodyInv, SignedIn, At
  <2>2. CASE g # h
    <3>1. handler'[g] = handler[g] /\ session'[handler[g].token] = session[handler[g].token]
      BY <1>2, <1>3, <1>4, <2>2
    <3> QED
      BY <1>1, <1>k, <3>1 DEF HandInv, BodyInv, SignedIn, At, browser
  <2> QED
    BY <2>1, <2>2
<1>g. ASSUME NEW g \in Handler PROVE FormInv(g)'
  <2>1. Forms(g)' \/ SignsIn(g)' \/ SignedIn(g)' => Form(g)'
    <3>1. CASE g = h
      BY <1>f, <1>o, <3>1
    <3>2. CASE g # h
      BY <1>2, <1>k, <1>o, <3>2 DEF HandInv, FormInv, Forms, SignsIn, SignedIn, At
    <3> QED
      BY <3>1, <3>2
  <2>2. FormInv(g)
    BY <1>k DEF HandInv
  <2>3. status' = status /\ crossed' = crossed
    BY <1>1 DEF browser
  <2> QED
    BY <1>o, <2>1, <2>2, <2>3, Zenon DEF FormInv
<1>8. ASSUME NEW g \in Handler PROVE LoadInv(g)'
  <2>2. CASE g = h
    BY <1>f, <1>o, <2>2 DEF LoadInv, Loading
  <2>3. CASE g # h
    <3>1. handler'[g] = handler[g] /\ session'[handler[g].token] = session[handler[g].token]
      BY <1>2, <1>3, <1>4, <2>3
    <3>2. LoadInv(g) /\ (Loading(g)' <=> Loading(g))
      BY <1>k, <3>1 DEF HandInv, Loading, At
    <3>3. status' = status /\ cookie' = cookie /\ outdated' = outdated
      BY <1>1 DEF browser
    <3> QED
      BY <1>o, <3>1, <3>2, <3>3, Zenon DEF LoadInv
  <2> QED
    BY <2>2, <2>3
<1>9. SignedOutIsOver' /\ ShownIsServed'
  <2>1. session'[cookie] = session[cookie]
    BY <1>0, <1>4
  <2> QED
    BY <1>1, <2>1 DEF SessionInv, SignedOutIsOver, ShownIsServed, browser
<1> QED
  BY <1>6, <1>7, <1>b, <1>g, <1>8, <1>9 DEF SessionInv, HandInv

-----------------------------------------------------------------------------
\* The browser takes the cookie of a sign-in.
LEMMA CookieSet ==
  ASSUME TypeOK, SessionInv, NEW h \in Handler, SignsIn(h), TakesCookie(handler[h]),
         UNCHANGED <<sessions, status, shown, crossed, signedOut>>,
         \A g \in Handler \ {h} : handler'[g] = handler[g],
         \/ handler'[h] = Idle
         \/ /\ handler'[h].pc = "body" /\ handler'[h].kind = handler[h].kind
            /\ handler'[h].tab = handler[h].tab /\ handler'[h].tab # None
            /\ handler'[h].user = handler[h].user /\ handler'[h].token = handler[h].token
            /\ handler'[h].result = handler[h].result
  PROVE  SessionInv'
<1>1. cookie' = handler[h].token /\ outdated' = Tab \ {handler[h].tab}
  BY DEF SignsIn, TakesCookie
<1>2. session' = session /\ ended' = ended /\ crossed' = crossed /\ status' = status
      /\ signedOut' = signedOut /\ shown' = shown
  BY DEF sessions
<1>k. \A g \in Handler : HandInv(g)
  BY DEF SessionInv
<1>t. None \notin Tab /\ \A g \in Handler : handler[g].tab \in Tab \cup {None}
  BY SessionAssumption DEF TypeOK, HandsOK, Hand
<1>3. /\ handler[h].token > 0 /\ handler[h].token \notin signedOut
      /\ session[handler[h].token] = handler[h].user
      /\ \A g \in Handler \ {h} : handler[g].token # handler[h].token
  BY <1>k DEF HandInv, SignInInv
<1>4. /\ Form(h)
      /\ handler[h].tab # None /\ handler[h].tab \notin crossed =>
           /\ status[handler[h].tab] # "authenticated"
           /\ \A g \in Handler \ {h} : ~(Form(g) /\ handler[g].tab = handler[h].tab)
  BY <1>k DEF HandInv, FormInv
<1>5. /\ ~SignsIn(h)' /\ ~SignsOut(h)' /\ ~SignedOff(h)' /\ ~Loading(h)' /\ ~Forms(h)'
      /\ handler'[h].kind # "me"
  BY <1>4, IdleNow
     DEF SignsIn, SignsOut, SignedOff, Loading, Forms, Form, Registering, At
<1>6. SignedOutIsOver'
  BY <1>1, <1>2, <1>3 DEF SessionInv, SignedOutIsOver
<1>7. ShownIsServed'
  BY <1>1, <1>2, <1>4, <1>t DEF ShownIsServed
<1>o. \A g \in Handler : handler'[g].tab \in {handler[g].tab, None}
  BY IdleNow
<1>f. \A g \in Handler : Form(g)' => Form(g)
  BY IdleNow DEF Form
<1>8. ASSUME NEW g \in Handler PROVE SignInInv(g)'
  <2>1. CASE g = h
    BY <1>5, <2>1 DEF SignInInv
  <2>2. CASE g # h
    <3>1. handler'[g] = handler[g] /\ (SignsIn(g)' <=> SignsIn(g)) /\ SignInInv(g)
      BY <1>k, <2>2 DEF SignsIn, At, HandInv
    <3>2. handler[g].token # handler[h].token
      BY <1>3, <2>2
    <3>3. \A f \in Handler \ {g} : handler'[f].token \in {handler[f].token, 0}
      BY IdleNow
    <3>4. SignsIn(g) => handler[g].token # 0
      BY <3>1 DEF SignInInv
    <3> QED
      BY <1>1, <1>2, <3>1, <3>2, <3>3, <3>4, Zenon DEF SignInInv
  <2> QED
    BY <2>1, <2>2
<1>9. ASSUME NEW g \in Handler PROVE BodyInv(g)'
  <2>1. CASE g = h
    BY <1>1, <1>2, <1>3, <2>1, IdleNow DEF BodyInv
  <2>2. CASE g # h
    <3>1. handler'[g] = handler[g] /\ (SignedIn(g)' <=> SignedIn(g)) /\ BodyInv(g)
      BY <1>k, <2>2 DEF SignedIn, At, HandInv
    <3>2. SignedIn(g) => Form(g)
      BY <1>k DEF HandInv, FormInv
    <3>3. SignedIn(g) /\ handler[g].tab # None => handler[g].tab \in outdated' \cup crossed'
      BY <1>1, <1>2, <1>4, <1>t, <2>2, <3>2
    <3> QED
      BY <1>2, <3>1, <3>3, Zenon DEF BodyInv
  <2> QED
    BY <2>1, <2>2
<1>10. ASSUME NEW g \in Handler PROVE SignOutInv(g)'
  <2>1. CASE g = h
    BY <1>5, <2>1 DEF SignOutInv
  <2>2. CASE g # h
    <3>1. /\ handler'[g] = handler[g] /\ SignOutInv(g)
          /\ (SignsOut(g)' <=> SignsOut(g)) /\ (SignedOff(g)' <=> SignedOff(g))
      BY <1>k, <2>2 DEF SignsOut, SignedOff, At, HandInv
    <3>2. handler[g].token # handler[h].token
      BY <1>3, <2>2
    <3> QED
      BY <1>1, <1>2, <3>1, <3>2 DEF SignOutInv
  <2> QED
    BY <2>1, <2>2
<1>11. ASSUME NEW g \in Handler PROVE FormInv(g)'
  <2>0. FormInv(g)
    BY <1>k DEF HandInv
  <2>1. Forms(g)' \/ SignsIn(g)' \/ SignedIn(g)' => Form(g)'
    <3>1. CASE g = h
      BY <1>4, <1>5, <3>1, IdleNow DEF Form
    <3>2. CASE g # h
      BY <2>0, <3>2 DEF FormInv, Forms, SignsIn, SignedIn, Form, At
    <3> QED
      BY <3>1, <3>2
  <2>2. ASSUME Form(g)', handler'[g].tab # None, handler'[g].tab \notin crossed'
        PROVE  /\ status'[handler'[g].tab] # "authenticated"
               /\ \A f \in Handler \ {g} : ~(Form(f)' /\ handler'[f].tab = handler'[g].tab)
    <3>1. Form(g) /\ handler'[g].tab = handler[g].tab
      BY <1>f, <1>o, <2>2
    <3>2. /\ status[handler[g].tab] # "authenticated"
          /\ \A f \in Handler \ {g} : ~(Form(f) /\ handler[f].tab = handler[g].tab)
      BY <1>2, <2>0, <2>2, <3>1 DEF FormInv
    <3>3. ASSUME NEW f \in Handler \ {g}, Form(f)', handler'[f].tab = handler'[g].tab PROVE FALSE
      BY <1>f, <1>o, <2>2, <3>1, <3>2, <3>3
    <3> QED
      BY <1>2, <3>1, <3>2, <3>3
  <2> QED
    BY <2>1, <2>2 DEF FormInv
<1>12. ASSUME NEW g \in Handler PROVE LoadInv(g)'
  <2>1. CASE g = h
    BY <1>5, <2>1 DEF LoadInv
  <2>2. CASE g # h
    <3>1. handler'[g] = handler[g] /\ LoadInv(g) /\ (Loading(g)' <=> Loading(g))
      BY <1>k, <2>2 DEF Loading, At, HandInv
    <3>2. handler[g].kind = "me" /\ handler[g].tab # None => handler[g].tab # handler[h].tab
      BY <2>2, <3>1 DEF LoadInv
    <3>3. handler[g].kind = "me" /\ handler[g].tab # None => handler[g].tab \in outdated'
      BY <1>1, <1>t, <3>2
    <3>4. \A f \in Handler \ {g} : handler'[f].tab \in {handler[f].tab, None}
      BY <1>o
    <3> QED
      BY <1>2, <3>1, <3>3, <3>4 DEF LoadInv
  <2> QED
    BY <2>1, <2>2
<1> QED
  BY <1>6, <1>7, <1>8, <1>9, <1>10, <1>11, <1>12 DEF SessionInv, HandInv

\* The headers of an answer arrive.
LEMMA TakeSessionInv ==
  ASSUME TypeOK, SessionInv, NEW h \in Handler, TakeCookie(h)
  PROVE  SessionInv'
<1>1. /\ At(h, "answer") /\ GoOn(h, "body") /\ TakesCookie(handler[h])
      /\ handler[h].tab # None /\ handler[h].result \in Cookies
      /\ UNCHANGED <<accounts, sessions, status, shown, crossed, signedOut, faults>>
  BY DEF TakeCookie
<1>h. handler \in [Handler -> Hand]
  BY DEF TypeOK, HandsOK
<1>2. /\ handler'[h].pc = "body" /\ handler'[h].kind = handler[h].kind
      /\ handler'[h].tab = handler[h].tab /\ handler'[h].user = handler[h].user
      /\ handler'[h].token = handler[h].token /\ handler'[h].result = handler[h].result
      /\ \A g \in Handler \ {h} : handler'[g] = handler[g]
  BY <1>1, <1>h, WentOn DEF Pcs
<1>3. CASE handler[h].result = "signed in"
  <2>1. SignsIn(h)
    BY <1>1, <1>3 DEF SignsIn
  <2> QED
    BY <1>1, <1>2, <2>1, CookieSet
<1>4. CASE handler[h].result = "signed out"
  <2>1. cookie' = 0 /\ outdated' = outdated
    BY <1>1, <1>4 DEF TakesCookie
  <2>2. SignsOut(h)
    BY <1>1, <1>4 DEF SignsOut, At
  <2>3. ended' = ended /\ session' = session /\ ended \subseteq ended'
    BY <1>1 DEF sessions
  <2>4. handler[h].token \in ended /\ handler[h].token # cookie'
    BY <2>1, <2>2, OffKept
  <2>5. ~SignsIn(h)' /\ ~SignedIn(h)' /\ ~Loading(h)' /\ ~Forms(h)'
    BY <1>2, <1>4 DEF SignsIn, SignedIn, Loading, Forms, Registering, At
  <2>6. Carries(h)
    BY <1>2, <2>3, <2>4, <2>5 DEF Carries
  <2>7. \A g \in Handler : Carries(g)
    BY <1>2, <2>1, <2>3, <2>6, StoodStill
  <2>8. \A t \in Tab : Leaves(t)
    BY <1>1 DEF Leaves
  <2>9. Released
    BY <1>1 DEF Released
  <2> QED
    BY <1>1, <2>1, <2>3, <2>7, <2>8, <2>9, CarriedOn
<1> QED
  BY <1>1, <1>3, <1>4 DEF Cookies

\* One request is over, and tabs are left as they were or show nobody.
LEMMA OverCarries ==
  ASSUME TypeOK, SessionInv, NEW h \in Handler, handler' = [handler EXCEPT ![h] = Idle],
         ended' = ended, cookie' \in {cookie, 0}
  PROVE  \A g \in Handler : Carries(g)
<1>1. handler \in [Handler -> Hand]
  BY DEF TypeOK, HandsOK
<1>2. handler'[h] = Idle /\ \A g \in Handler \ {h} : handler'[g] = handler[g]
  BY <1>1, Dropped
<1>3. Carries(h)
  BY <1>2 DEF Carries
<1> QED
  BY <1>2, <1>3, StoodStill

\* A tab one of whose requests is over was not loading, or only by that one.
LEMMA OverNotLoading ==
  ASSUME TypeOK, SessionInv, NEW h \in Handler, handler' = [handler EXCEPT ![h] = Idle],
         NEW t \in Tab, handler[h].tab = t
  PROVE  \A g \in Handler : ~(handler'[g].kind = "me" /\ handler'[g].tab = t)
<1>1. handler \in [Handler -> Hand] /\ None \notin Tab
  BY SessionAssumption DEF TypeOK, HandsOK
<1>2. handler'[h].kind = "none" /\ \A g \in Handler \ {h} : handler'[g] = handler[g]
  BY <1>1, Dropped
<1>3. \A g \in Handler \ {h} : handler[g].kind = "me" => handler[g].tab # t
  BY <1>1 DEF SessionInv, HandInv, LoadInv
<1> QED
  BY <1>2, <1>3

LEMMA FailsLeaves ==
  ASSUME TypeOK, SessionInv, NEW h \in Handler, handler' = [handler EXCEPT ![h] = Idle],
         handler[h].tab \in Tab, NEW kind, NEW result, Fails(handler[h].tab, kind, result)
  PROVE  \A t \in Tab : Leaves(t)
<1>1. \A g \in Handler : ~(handler'[g].kind = "me" /\ handler'[g].tab = handler[h].tab)
  BY OverNotLoading
<1>2. CASE UNCHANGED <<status, shown>>
  BY <1>2 DEF Leaves
<1>3. CASE ClearSession(handler[h].tab)
  BY <1>1, <1>3 DEF Leaves, ClearSession, TypeOK, BrowserOK
<1> QED
  BY <1>2, <1>3 DEF Fails

\* A tab shows a user: nobody else, if that is the user of the cookie.
LEMMA ShowsUser ==
  ASSUME TypeOK, SessionInv, NEW h \in Handler, handler' = [handler EXCEPT ![h] = Idle],
         NEW t \in Tab, handler[h].tab = t, SetAuthenticated(t, handler[h].user),
         UNCHANGED <<sessions, cookie, outdated, crossed, signedOut>>,
         t \notin outdated \cup crossed /\ cookie # 0 => session[cookie] = handler[h].user,
         t \notin crossed =>
           \A g \in Handler \ {h} : ~(Form(g) /\ handler[g].tab = t)
  PROVE  SessionInv'
<1>h. handler \in [Handler -> Hand] /\ None \notin Tab
  BY SessionAssumption DEF TypeOK, HandsOK
<1>1. handler'[h] = Idle /\ \A g \in Handler \ {h} : handler'[g] = handler[g]
  BY <1>h, Dropped
<1>2. session' = session /\ ended' = ended
  BY DEF sessions
<1>3. \A g \in Handler : Carries(g)
  BY <1>2, OverCarries
<1>4. /\ status'[t] = "authenticated" /\ shown'[t] = handler[h].user
      /\ \A u \in Tab \ {t} : status'[u] = status[u] /\ shown'[u] = shown[u]
  BY DEF SetAuthenticated, TypeOK, BrowserOK
<1>5. ShownIsServed'
  BY <1>2, <1>4 DEF SessionInv, ShownIsServed
<1>6. SignedOutIsOver'
  BY <1>2 DEF SessionInv, SignedOutIsOver
<1>7. \A g \in Handler : ~(handler'[g].kind = "me" /\ handler'[g].tab = t)
  BY OverNotLoading
<1>8. ASSUME NEW g \in Handler, handler'[g].kind = "me", handler'[g].tab \in Tab
      PROVE  status'[handler'[g].tab] = "unknown"
  <2>1. g # h /\ handler'[g] = handler[g]
    BY <1>1, <1>8, IdleNow
  <2>2. status[handler[g].tab] = "unknown" /\ handler[g].tab # t
    BY <1>h, <1>7, <1>8, <2>1 DEF SessionInv, HandInv, LoadInv
  <2> QED
    BY <1>4, <1>8, <2>1, <2>2
<1>9. ASSUME NEW g \in Handler, Form(g)', handler'[g].tab \in Tab \ crossed'
      PROVE  status'[handler'[g].tab] # "authenticated"
  <2>1. g # h /\ handler'[g] = handler[g] /\ Form(g)
    BY <1>1, <1>9, IdleNow DEF Form
  <2>2. status[handler[g].tab] # "authenticated"
    BY <1>h, <1>9, <2>1 DEF SessionInv, HandInv, FormInv
  <2>3. handler[g].tab # t
    BY <1>9, <2>1
  <2> QED
    BY <1>4, <1>9, <2>1, <2>2, <2>3
<1>10. ASSUME NEW g \in Handler, SignsIn(g)' PROVE handler'[g].token \notin signedOut'
  <2>1. g # h /\ handler'[g] = handler[g] /\ SignsIn(g)
    BY <1>1, <1>10, IdleNow DEF SignsIn, At
  <2> QED
    BY <2>1 DEF SessionInv, HandInv, SignInInv
<1>11. Released
  BY DEF Released
<1> QED
  BY <1>2, <1>3, <1>5, <1>6, <1>8, <1>9, <1>10, <1>11, CarriedHands

LEMMA DrainSessionInv ==
  ASSUME TypeOK, SessionInv, NEW h \in Handler, Drain(h)
  PROVE  SessionInv'
<1>h. handler \in [Handler -> Hand]
  BY DEF TypeOK, HandsOK
<1>1. /\ At(h, "answer") /\ handler' = [handler EXCEPT ![h] = Idle]
      /\ UNCHANGED <<accounts, sessions, status, shown, crossed, signedOut, faults>>
      /\ \/ handler[h].result \in Cookies /\ TakesCookie(handler[h])
         \/ UNCHANGED <<cookie, outdated>>
  BY DEF Drain
<1>2. handler'[h] = Idle /\ \A g \in Handler \ {h} : handler'[g] = handler[g]
  BY <1>h, <1>1, Dropped
<1>3. CASE handler[h].result = "signed in" /\ TakesCookie(handler[h])
  <2>1. SignsIn(h)
    BY <1>1, <1>3 DEF SignsIn
  <2> QED
    BY <1>1, <1>2, <1>3, <2>1, CookieSet
<1>4. CASE cookie' \in {cookie, 0} /\ outdated' = outdated
  <2>1. session' = session /\ ended' = ended /\ ended \subseteq ended'
    BY <1>1 DEF sessions
  <2>2. \A g \in Handler : Carries(g)
    BY <1>1, <1>4, <2>1, OverCarries
  <2>3. (\A t \in Tab : Leaves(t)) /\ Released
    BY <1>1 DEF Leaves, Released
  <2> QED
    BY <1>1, <1>4, <2>1, <2>2, <2>3, CarriedOn
<1>5. CASE handler[h].result = "signed out" /\ TakesCookie(handler[h])
  BY <1>4, <1>5 DEF TakesCookie
<1> QED
  BY <1>1, <1>3, <1>4, <1>5 DEF Cookies

LEMMA AnswerSessionInv ==
  ASSUME TypeOK, SessionInv, NEW h \in Handler, Arrive(h) \/ Lose(h)
  PROVE  SessionInv'
<1> DEFINE tab == handler[h].tab
<1>1. /\ UNCHANGED <<sessions, cookie, outdated, crossed>>
      /\ handler' = [handler EXCEPT ![h] = Idle]
  BY DEF Arrive, Lose
<1>2. \A g \in Handler : Carries(g)
  BY <1>1, OverCarries DEF sessions
<1>3. /\ handler \in [Handler -> Hand] /\ None \notin Tab
      /\ session' = session /\ ended' = ended /\ ended \subseteq ended'
  BY <1>1, SessionAssumption DEF TypeOK, HandsOK, sessions
<1>4. handler[h] \in Hand
  BY <1>3
<1>5. tab \in Tab \cup {None}
  BY <1>4 DEF Hand
<1>h. handler'[h] = Idle /\ \A g \in Handler \ {h} : handler'[g] = handler[g]
  BY <1>1, <1>3, Dropped
<1>k. HandInv(h)
  BY DEF SessionInv
<1>r. Released
  BY <1>1 DEF Released
<1>7. ASSUME tab \in Tab, NEW kind, NEW result, Fails(tab, kind, result), signedOut' = signedOut
      PROVE  SessionInv'
  BY <1>1, <1>2, <1>3, <1>7, <1>r, FailsLeaves, CarriedOn
<1>8. CASE Lose(h)
  BY <1>5, <1>7, <1>8 DEF Lose
<1>9. CASE Arrive(h)
  <2>0. /\ tab \in Tab
        /\ At(h, "body") \/ (At(h, "answer") /\ handler[h].result \notin Cookies)
    BY <1>5, <1>9 DEF Arrive
  <2>1. CASE handler[h].result = "signed in"
    <3>1. SetAuthenticated(tab, handler[h].user) /\ signedOut' = signedOut
      BY <1>9, <2>1 DEF Arrive
    <3>2. SignedIn(h)
      BY <2>0, <2>1 DEF SignedIn, Cookies
    <3>3. /\ session[handler[h].token] = handler[h].user
          /\ cookie # 0 /\ tab \notin outdated \cup crossed => handler[h].token = cookie
      BY <1>k, <3>2 DEF HandInv, BodyInv
    <3>4. tab \notin crossed => \A g \in Handler \ {h} : ~(Form(g) /\ handler[g].tab = tab)
      BY <1>3, <1>k, <2>0, <3>2 DEF HandInv, FormInv
    <3> QED
      BY <1>1, <2>0, <3>1, <3>3, <3>4, ShowsUser
  <2>2. CASE handler[h].result = "signed out"
    <3>1. signedOut' = signedOut \cup {handler[h].token} /\ ClearSession(tab)
      BY <1>9, <2>2 DEF Arrive
    <3>2. SignsOut(h) /\ SignedOff(h)
      BY <2>0, <2>2 DEF SignsOut, SignedOff, At, Cookies
    <3>3. handler[h].token \in ended /\ handler[h].token # cookie
      BY <1>1, <3>2, OffKept
    <3>4. SignedOutIsOver'
      BY <1>1, <1>3, <3>1, <3>3 DEF SessionInv, SignedOutIsOver
    <3>5. ASSUME NEW g \in Handler, SignsIn(g)' PROVE handler'[g].token \notin signedOut'
      <4>1. g # h /\ handler'[g] = handler[g] /\ SignsIn(g)
        BY <1>h, <3>5, IdleNow DEF SignsIn, At
      <4>2. handler[g].token \notin signedOut /\ handler[g].token # handler[h].token
        BY <4>1 DEF SessionInv, HandInv, SignInInv
      <4> QED
        BY <3>1, <4>1, <4>2
    <3>6. \A g \in Handler : ~(handler'[g].kind = "me" /\ handler'[g].tab = tab)
      BY <1>1, <2>0, OverNotLoading
    <3>7. \A t \in Tab : Leaves(t)
      BY <3>1, <3>6 DEF Leaves, ClearSession, TypeOK, BrowserOK
    <3> QED
      BY <1>1, <1>2, <1>3, <1>r, <3>4, <3>5, <3>7, Carried
  <2>3. CASE handler[h].result = "served" /\ handler[h].kind = "me"
    <3>1. SetAuthenticated(tab, handler[h].user) /\ signedOut' = signedOut
      BY <1>9, <2>3 DEF Arrive
    <3>2. Loading(h)
      BY <2>0, <2>3 DEF Loading, At
    <3>3. session[handler[h].token] = handler[h].user
      BY <1>k, <3>2 DEF HandInv, LoadInv
    <3>4. /\ cookie # 0 /\ tab \notin outdated => handler[h].token = cookie
          /\ \A g \in Handler \ {h} : handler[g].tab # tab
      BY <1>3, <1>k, <2>0, <2>3 DEF HandInv, LoadInv
    <3> QED
      BY <1>1, <2>0, <3>1, <3>3, <3>4, ShowsUser
  <2>4. CASE handler[h].result = "served" /\ handler[h].kind # "me"
    <3>1. (\A t \in Tab : Leaves(t)) /\ signedOut' = signedOut
      BY <1>9, <2>4 DEF Arrive, Leaves
    <3> QED
      BY <1>1, <1>2, <1>3, <1>r, <3>1, CarriedOn
  <2>5. CASE handler[h].result \notin {"signed in", "signed out", "served"}
    <3>1. Fails(tab, handler[h].kind, handler[h].result) /\ signedOut' = signedOut
      BY <1>9, <2>5 DEF Arrive
    <3> QED
      BY <1>7, <2>0, <3>1
  <2> QED
    BY <2>1, <2>2, <2>3, <2>4, <2>5
<1> QED
  BY <1>8, <1>9

\* A request begins: it has no session but the browser's own.
LEMMA BegunSessionInv ==
  ASSUME TypeOK, SessionInv, NEW h \in Handler, NEW t \in Tab,
         \A g \in Handler \ {h} : handler'[g] = handler[g],
         handler'[h].token \in {cookie, 0}, handler'[h].tab = t,
         ~SignsIn(h)', ~SignedIn(h)', ~SignsOut(h)', ~SignedOff(h)', FormInv(h)', LoadInv(h)',
         status[t] # "unknown" \/ \A g \in Handler : handler[g].tab # t,
         \/ outdated' = outdated
         \/ /\ outdated' = outdated \ {t} /\ status[t] = "unknown"
            /\ \A g \in Handler : handler[g].tab # t,
         crossed' \in {crossed, crossed \cup {t}},
         UNCHANGED <<sessions, cookie, status, shown, signedOut>>
  PROVE  SessionInv'
<1> USE DEF sessions
<1>k. None \notin Tab /\ \A g \in Handler : HandInv(g)
  BY SessionAssumption DEF SessionInv
<1>1. SignedOutIsOver' /\ ShownIsServed'
  BY DEF SessionInv, SignedOutIsOver, ShownIsServed
<1>2. ASSUME NEW g \in Handler PROVE SignInInv(g)'
  <2>1. CASE g = h
    BY <2>1 DEF SignInInv
  <2>2. CASE g # h
    <3>1. SignsIn(g) => handler[g].token > 0 /\ handler[g].token # cookie
      BY <1>k DEF HandInv, SignInInv
    <3>2. SignsIn(g) => handler[g].token # 0
      BY <3>1
    <3>3. handler'[g] = handler[g] /\ (SignsIn(g)' <=> SignsIn(g)) /\ SignInInv(g)
      BY <1>k, <2>2 DEF SignsIn, At, HandInv
    <3>4. SignsIn(g) => handler'[h].token # handler[g].token
      BY <3>1, <3>2
    <3> QED
      BY <3>3, <3>4, Zenon DEF SignInInv
  <2> QED
    BY <2>1, <2>2
<1>3. ASSUME NEW g \in Handler PROVE SignOutInv(g)'
  <2>1. CASE g = h
    BY <2>1 DEF SignOutInv
  <2>2. CASE g # h
    <3>1. /\ handler'[g] = handler[g] /\ SignOutInv(g)
          /\ (SignsOut(g)' <=> SignsOut(g)) /\ (SignedOff(g)' <=> SignedOff(g))
      BY <1>k, <2>2 DEF SignsOut, SignedOff, At, HandInv
    <3> QED
      BY <3>1 DEF SignOutInv
  <2> QED
    BY <2>1, <2>2
<1>4. ASSUME NEW g \in Handler PROVE BodyInv(g)'
  <2>1. CASE g = h
    BY <2>1 DEF BodyInv
  <2>2. CASE g # h
    <3>1. handler'[g] = handler[g] /\ BodyInv(g) /\ (SignedIn(g)' <=> SignedIn(g))
      BY <1>k, <2>2 DEF SignedIn, At, HandInv
    <3>2. handler[g].tab \notin outdated' \cup crossed' => handler[g].tab \notin outdated \cup crossed
      OBVIOUS
    <3> QED
      BY <3>1, <3>2 DEF BodyInv
  <2> QED
    BY <2>1, <2>2
<1>5. ASSUME NEW g \in Handler PROVE FormInv(g)'
  <2>1. CASE g = h
    BY <2>1
  <2>2. CASE g # h
    <3>1. handler'[g] = handler[g] /\ FormInv(g)
      BY <1>k, <2>2 DEF HandInv
    <3>2. /\ (Form(g)' <=> Form(g)) /\ (Forms(g)' <=> Forms(g))
          /\ (SignsIn(g)' <=> SignsIn(g)) /\ (SignedIn(g)' <=> SignedIn(g))
      BY <3>1 DEF Form, Forms, SignsIn, SignedIn, At
    <3>3. ASSUME Form(g), handler[g].tab # None, handler[g].tab \notin crossed',
                 NEW f \in Handler \ {g}, Form(f)', handler'[f].tab = handler[g].tab
          PROVE  FALSE
      <4>1. CASE f = h
        <5>1. Form(h)' /\ t # None /\ t \notin crossed' /\ handler'[g].tab = t /\ Form(g)'
          BY <1>k, <3>1, <3>2, <3>3, <4>1
        <5> QED
          BY <2>2, <5>1 DEF FormInv
      <4>2. CASE f # h
        <5>1. handler'[f] = handler[f] /\ Form(f)
          BY <3>3, <4>2 DEF Form
        <5> QED
          BY <3>1, <3>3, <5>1 DEF FormInv
      <4> QED
        BY <4>1, <4>2
    <3>4. Form(g) /\ handler[g].tab # None /\ handler[g].tab \notin crossed' =>
            status'[handler[g].tab] # "authenticated"
      BY <3>1 DEF FormInv
    <3>5. Forms(g)' \/ SignsIn(g)' \/ SignedIn(g)' => Form(g)'
      BY <3>1, <3>2 DEF FormInv
    <3> QED
      BY <3>1, <3>2, <3>3, <3>4, <3>5 DEF FormInv
  <2> QED
    BY <2>1, <2>2
<1>6. ASSUME NEW g \in Handler PROVE LoadInv(g)'
  <2>1. CASE g = h
    BY <2>1
  <2>2. CASE g # h
    <3>1. handler'[g] = handler[g] /\ LoadInv(g) /\ (Loading(g)' <=> Loading(g))
      BY <1>k, <2>2 DEF HandInv, Loading, At
    <3>2. handler[g].kind = "me" /\ handler[g].tab # None => handler[g].tab # t
      BY <3>1 DEF LoadInv
    <3> QED
      BY <3>1, <3>2 DEF LoadInv
  <2> QED
    BY <2>1, <2>2
<1> QED
  BY <1>1, <1>2, <1>3, <1>4, <1>5, <1>6 DEF SessionInv, HandInv

\* A form is sent, by a tab that is not signed in.
LEMMA SentSessionInv ==
  ASSUME TypeOK, SessionInv, NEW h \in Handler, NEW t \in Tab, Outside(t), Crosses(t),
         \A g \in Handler \ {h} : handler'[g] = handler[g],
         handler'[h].token = 0, handler'[h].tab = t, Form(h)',
         handler'[h].result \notin Cookies,
         UNCHANGED <<sessions, cookie, status, shown, outdated, signedOut>>
  PROVE  SessionInv'
<1>1. ~SignsIn(h)' /\ ~SignedIn(h)' /\ ~SignsOut(h)' /\ ~SignedOff(h)'
  BY DEF SignsIn, SignedIn, SignsOut, SignedOff, Cookies
<1>2. LoadInv(h)'
  BY DEF LoadInv, Loading, Form
<1>3. t \notin crossed' => \A g \in Handler : ~(Form(g) /\ handler[g].tab = t)
  BY DEF Crosses, SigningIn, Form
<1>4. \A g \in Handler \ {h} : Form(g)' <=> Form(g)
  BY DEF Form
<1>5. status'[t] # "authenticated" /\ status[t] # "unknown"
  BY DEF Outside
<1>6. FormInv(h)'
  BY <1>3, <1>4, <1>5 DEF FormInv
<1>7. crossed' \in {crossed, crossed \cup {t}}
  BY DEF Crosses
<1> QED
  BY <1>1, <1>2, <1>5, <1>6, <1>7, BegunSessionInv

LEMMA BeginSessionInv ==
  ASSUME TypeOK, SessionInv, NEW h \in Handler, NEW t \in Tab,
         \/ \E i \in Identity : Register(h, t, i)
         \/ \E i \in Identity, right \in BOOLEAN : Login(h, t, i, right)
         \/ LoadSession(h, t) \/ LoadPage(h, t) \/ SignOut(h, t)
  PROVE  SessionInv'
<1>0. handler \in [Handler -> Hand]
  BY DEF TypeOK, HandsOK
<1>2. ASSUME NEW i \in Identity, Register(h, t, i) PROVE SessionInv'
  <2>1. /\ \A g \in Handler \ {h} : handler'[g] = handler[g]
        /\ handler'[h].token = 0 /\ handler'[h].tab = t /\ handler'[h].kind = "register"
        /\ handler'[h].result \in {"none", "failed"}
    BY <1>0, <1>2, BegunRegister
  <2>2. Form(h)' /\ handler'[h].result \notin Cookies
    BY <2>1 DEF Form, Cookies
  <2> QED
    BY <1>2, <2>1, <2>2, SentSessionInv DEF Register
<1>3. ASSUME NEW i \in Identity, NEW right \in BOOLEAN, Login(h, t, i, right) PROVE SessionInv'
  <2>1. /\ \A g \in Handler \ {h} : handler'[g] = handler[g]
        /\ handler'[h].token = 0 /\ handler'[h].tab = t /\ handler'[h].kind = "login"
        /\ handler'[h].result \in {"none", "unauthorized"}
    BY <1>3, BegunLogin
  <2>2. Form(h)' /\ handler'[h].result \notin Cookies
    BY <2>1 DEF Form, Cookies
  <2> QED
    BY <1>3, <2>1, <2>2, SentSessionInv DEF Login
<1>r. ASSUME NEW kind \in {"me", "page", "logout"}, Resolve(h, t, kind)
      PROVE  /\ ~SignsIn(h)' /\ ~SignedIn(h)' /\ ~SignsOut(h)' /\ ~SignedOff(h)' /\ FormInv(h)'
             /\ \A g \in Handler \ {h} : handler'[g] = handler[g]
             /\ handler'[h].token = cookie /\ handler'[h].tab = t /\ handler'[h].kind = kind
             /\ UNCHANGED <<sessions, cookie, status, shown, crossed, signedOut>>
  <2>1. /\ \A g \in Handler \ {h} : handler'[g] = handler[g]
        /\ handler'[h].token = cookie /\ handler'[h].tab = t /\ handler'[h].kind = kind
        /\ handler'[h].pc = IF Live(cookie) THEN "lookup" ELSE "answer"
        /\ handler'[h].result = IF Live(cookie) THEN "none" ELSE "unauthorized"
        /\ UNCHANGED <<accounts, sessions, cookie, status, shown, crossed, signedOut, faults>>
    BY <1>r, Resolved
  <2>2. handler'[h].pc \in {"lookup", "answer"} /\ handler'[h].result \in {"none", "unauthorized"}
    BY <2>1
  <2>3. ~SignsIn(h)' /\ ~SignedIn(h)' /\ ~SignsOut(h)' /\ ~SignedOff(h)' /\ ~Forms(h)'
    BY <2>2 DEF SignsIn, SignedIn, SignsOut, SignedOff, Forms, Registering
  <2>4. ~Form(h)'
    BY <2>1 DEF Form
  <2>5. FormInv(h)'
    BY <2>3, <2>4 DEF FormInv
  <2> QED
    BY <2>1, <2>3, <2>5
<1>4. ASSUME NEW kind \in {"page", "logout"}, Resolve(h, t, kind), Inside(t), outdated' = outdated
      PROVE  SessionInv'
  <2>1. /\ ~SignsIn(h)' /\ ~SignedIn(h)' /\ ~SignsOut(h)' /\ ~SignedOff(h)' /\ FormInv(h)'
        /\ \A g \in Handler \ {h} : handler'[g] = handler[g]
        /\ handler'[h].token = cookie /\ handler'[h].tab = t /\ handler'[h].kind = kind
        /\ UNCHANGED <<sessions, cookie, status, shown, crossed, signedOut>>
    BY <1>4, <1>r
  <2>2. LoadInv(h)'
    BY <2>1 DEF LoadInv, Loading
  <2> QED
    BY <1>4, <2>1, <2>2, BegunSessionInv DEF Inside
<1>5. CASE LoadSession(h, t)
  <2>0. /\ Resolve(h, t, "me") /\ status[t] = "unknown" /\ \A g \in Handler : handler[g].tab # t
        /\ outdated' = outdated \ {t}
    BY <1>5 DEF LoadSession
  <2>1. /\ ~SignsIn(h)' /\ ~SignedIn(h)' /\ ~SignsOut(h)' /\ ~SignedOff(h)' /\ FormInv(h)'
        /\ \A g \in Handler \ {h} : handler'[g] = handler[g]
        /\ handler'[h].token = cookie /\ handler'[h].tab = t /\ handler'[h].kind = "me"
        /\ UNCHANGED <<sessions, cookie, status, shown, crossed, signedOut>>
    BY <1>r, <2>0
  <2>2. /\ handler'[h].pc = IF Live(cookie) THEN "lookup" ELSE "answer"
        /\ handler'[h].result = IF Live(cookie) THEN "none" ELSE "unauthorized"
        /\ Live(cookie) => handler'[h].user = session[cookie]
    BY <2>0, Resolved
  <2>4. Loading(h)' => Live(cookie)
    BY <2>2 DEF Loading, At
  <2>5. Live(cookie) => cookie > 0
    BY DEF Live, TypeOK, BrowserOK
  <2>6. Loading(h)' => handler'[h].token > 0 /\ session[handler'[h].token] = handler'[h].user
    BY <2>1, <2>2, <2>4, <2>5, Zenon
  <2>7. \A g \in Handler \ {h} : handler'[g].tab # t
    BY <2>0, <2>1
  <2>8. LoadInv(h)'
    <3>1. Loading(h)' => handler'[h].token > 0 /\ session'[handler'[h].token] = handler'[h].user
      BY <2>1, <2>6 DEF sessions
    <3>2. status'[t] = "unknown" /\ cookie' = cookie
      BY <2>0, <2>1
    <3> QED
      BY <2>1, <2>7, <3>1, <3>2 DEF LoadInv
  <2> QED
    BY <2>0, <2>1, <2>8, BegunSessionInv
<1> QED
  BY <1>2, <1>3, <1>4, <1>5 DEF LoadPage, SignOut

LEMMA FaultSessionInv ==
  ASSUME TypeOK, SessionInv,
         \/ \E h \in Handler : Reject(h)
         \/ \E t \in Tab : Reload(t)
         \/ \E k \in Token : Expire(k)
         \/ Crash
  PROVE  SessionInv'
<1>h. handler \in [Handler -> Hand]
  BY DEF TypeOK, HandsOK
<1>1. ASSUME NEW h \in Handler, Reject(h) PROVE SessionInv'
  <2>1. session' = session /\ browser' = browser /\ ended' = ended
    BY <1>1, RejectedTo DEF sessions
  <2>2. CASE handler[h].pc \in {"user", "owner"} /\ GoOn(h, "drop")
    <3>1. Forms(h)
      BY <2>2 DEF Forms, Registering
    <3> QED
      BY <2>1, <2>2, <3>1, CarriedWentOn DEF Registering, Pcs
  <2>3. CASE At(h, "connect") /\ GoOn(h, "unuser")
    <3>1. Forms(h)
      BY <2>3 DEF Forms, Registering, At
    <3> QED
      BY <2>1, <2>3, <3>1, CarriedWentOn DEF Registering, Pcs
  <2>4. CASE Answer(h, "failed")
    BY <2>1, <2>4, CarriedAnswered DEF Results
  <2> QED
    BY <1>1, <2>2, <2>3, <2>4, RejectedTo
<1>2. ASSUME NEW t \in Tab, Reload(t) PROVE SessionInv'
  <2>1. UNCHANGED <<sessions, cookie, outdated, signedOut>> /\ crossed' = crossed \ {t}
    BY <1>2 DEF Reload
  <2>a. ended \subseteq ended' /\ session' = session
    BY <2>1 DEF sessions
  <2>2. ASSUME NEW h \in Handler PROVE Carries(h)
    <3>1. CASE handler'[h] = handler[h]
      BY <2>1, <2>a, <3>1, StoodStill
    <3>2. CASE handler'[h] = Idle
      BY <3>2 DEF Carries
    <3>3. CASE /\ handler'[h].tab = None /\ handler'[h].pc = handler[h].pc
               /\ handler'[h].kind = handler[h].kind /\ handler'[h].user = handler[h].user
               /\ handler'[h].token = handler[h].token /\ handler'[h].result = handler[h].result
               /\ ~At(h, "body")
      <4>1. SignsOut(h) => handler[h].token \in ended'
        BY <2>1, <2>a, OffKept
      <4>2. ~SignedIn(h)' /\ ~SignedOff(h)'
        BY <3>3 DEF SignedIn, SignedOff, At
      <4>3. /\ (SignsIn(h)' <=> SignsIn(h)) /\ (SignsOut(h)' <=> SignsOut(h))
            /\ (Loading(h)' <=> Loading(h)) /\ (Forms(h)' <=> Forms(h))
        BY <3>3 DEF SignsIn, SignsOut, Loading, Forms, At
      <4> QED
        BY <3>3, <4>1, <4>2, <4>3 DEF Carries
    <3> QED
      BY <1>h, <1>2, <3>1, <3>2, <3>3, Reloaded
  <2>3. ASSUME NEW u \in Tab PROVE Leaves(u)
    BY <1>2 DEF Leaves, Reload, TypeOK, BrowserOK
  <2>4. status'[t] # "authenticated"
    BY <1>2 DEF Reload, TypeOK, BrowserOK
  <2>5. \A h \in Handler : handler'[h].tab # t
    <3>1. None # t
      BY SessionAssumption
    <3> QED
      BY <1>h, <1>2, <3>1, IdleNow, Reloaded
  <2>6. Released
    BY <2>1, <2>4, <2>5 DEF Released
  <2> QED
    BY <2>1, <2>a, <2>2, <2>3, <2>6, CarriedOn
<1>3. ASSUME NEW k \in Token, Expire(k) PROVE SessionInv'
  <2>1. /\ session' = session /\ handler' = handler /\ status' = status /\ shown' = shown
        /\ outdated' = outdated /\ crossed' = crossed /\ signedOut' = signedOut
        /\ ended \subseteq ended' /\ cookie' \in {cookie, 0}
    BY <1>3 DEF Expire
  <2>2. \A h \in Handler : Carries(h)
    BY <2>1, StoodStill
  <2>3. (\A t \in Tab : Leaves(t)) /\ Released
    BY <2>1 DEF Leaves, Released
  <2> QED
    BY <2>1, <2>2, <2>3, CarriedOn
<1>4. ASSUME Crash PROVE SessionInv'
  <2>1. UNCHANGED <<sessions, browser>>
    BY <1>4 DEF Crash
  <2>2. ASSUME NEW h \in Handler PROVE Carries(h)
    <3>1. CASE handler'[h] = Idle
      BY <3>1 DEF Carries
    <3>2. CASE /\ handler'[h].pc = "answer" /\ handler'[h].result = "failed"
               /\ handler'[h].tab = handler[h].tab /\ handler'[h].kind = handler[h].kind
               /\ handler'[h].token = handler[h].token
      <4>1. /\ ~SignsIn(h)' /\ ~SignedIn(h)' /\ ~SignsOut(h)' /\ ~SignedOff(h)'
            /\ ~Loading(h)' /\ ~Forms(h)'
        BY <3>2 DEF SignsIn, SignedIn, SignsOut, SignedOff, Loading, Forms, Registering, At
      <4> QED
        BY <3>2, <4>1 DEF Carries
    <3> QED
      BY <1>h, <1>4, <3>1, <3>2, Restarted
  <2>3. (\A t \in Tab : Leaves(t)) /\ Released
    BY <2>1 DEF Leaves, Released, browser
  <2> QED
    BY <2>1, <2>2, <2>3, CarriedOn DEF sessions, browser
<1> QED
  BY <1>1, <1>2, <1>3, <1>4

LEMMA StepSessionInv == TypeOK /\ SessionInv /\ [Next]_vars => SessionInv'
<1> SUFFICES ASSUME TypeOK, SessionInv, [Next]_vars PROVE SessionInv'
  OBVIOUS
<1>1. CASE UNCHANGED vars
  <2>1. UNCHANGED <<sessions, handler, browser>>
    BY <1>1 DEF vars
  <2>2. ended \subseteq ended' /\ session' = session /\ UNCHANGED browser
    BY <2>1 DEF sessions
  <2>3. \A h \in Handler : Carries(h)
    BY <2>1, <2>2, StoodStill DEF browser
  <2>4. (\A t \in Tab : Leaves(t)) /\ Released
    BY <2>2 DEF Leaves, Released, browser
  <2> QED
    BY <2>2, <2>3, <2>4, CarriedOn DEF browser
<1>2. CASE Next
  BY <1>2, BeginSessionInv, ProceedSessionInv, IssueSessionInv, TakeSessionInv, DrainSessionInv,
     AnswerSessionInv, FaultSessionInv
     DEF Next, Proceed
<1> QED
  BY <1>1, <1>2

LEMMA InitSessionInv == Init => SessionInv
<1> SUFFICES ASSUME Init PROVE SessionInv
  OBVIOUS
<1>1. \A h \in Handler : handler[h].pc = "idle" /\ handler[h].kind = "none"
  BY DEF Init, Idle
<1>2. ASSUME NEW h \in Handler PROVE HandInv(h)
  <2>1. /\ ~SignsIn(h) /\ ~SignedIn(h) /\ ~SignsOut(h) /\ ~SignedOff(h) /\ ~Loading(h) /\ ~Forms(h)
        /\ ~Form(h)
    BY <1>1 DEF SignsIn, SignedIn, SignsOut, SignedOff, Loading, Forms, Form, Registering, At
  <2> QED
    BY <1>1, <2>1 DEF HandInv, SignInInv, BodyInv, SignOutInv, FormInv, LoadInv
<1> QED
  BY <1>2 DEF Init, SessionInv, SignedOutIsOver, ShownIsServed

(***************************************************************************)
(* What a session answers for, with any number of tabs and of requests of  *)
(* theirs under way, and with cookies that the browser takes before, or    *)
(* without, the tab taking the user (auth.service.ts:54-64 of the          *)
(* frontend): a session whose sign-out was answered is over and its cookie *)
(* never comes back (session.service.ts:17), and a tab shows the user its  *)
(* requests are served for, unless another's sign-in has set the cookie    *)
(* since, or the tab itself has signed in twice at once.  A tab that sent  *)
(* a single form cannot come apart from its cookie, because that form is   *)
(* only shown to a tab that is signed in as nobody.                        *)
(***************************************************************************)
THEOREM SessionsAreTrue == Spec => []SessionIsTrue
<1>1. TypeOK /\ SessionInv /\ [Next]_vars => (TypeOK /\ SessionInv)'
  BY StepTypeOK, StepSessionInv
<1>2. SessionInv => SessionIsTrue
  BY DEF SessionInv, SessionIsTrue
<1>3. Init => TypeOK /\ SessionInv
  BY InitTypeOK, InitSessionInv
<1> QED
  BY <1>1, <1>2, <1>3, PTL DEF Spec

-----------------------------------------------------------------------------
(***************************************************************************)
(* What a step does to the number of a registration: it leaves the users,  *)
(* workspaces, owners and e-mail accounts of all others as they were.      *)
(***************************************************************************)
SameFor(n) ==
  /\ n \in users' <=> n \in users
  /\ n \in workspaces' <=> n \in workspaces
  /\ n \in owned' <=> n \in owned
  /\ n \in mailboxes' <=> n \in mailboxes
  /\ n \in spoilt => n \in spoilt'
  /\ n \in disowned => n \in disowned'

LEMMA SameInvs ==
  ASSUME NEW g \in Handler, SpaceInv(g), ProgressInv(g), handler'[g].pc = handler[g].pc,
         handler'[g].kind = handler[g].kind, handler'[g].user = handler[g].user,
         SameFor(handler[g].user)
  PROVE  SpaceInv(g)' /\ ProgressInv(g)'
<1>1. SpaceInv(g)'
  BY Zenon DEF SpaceInv, SameFor, At
<1>2. ProgressInv(g)'
  BY Zenon DEF ProgressInv, Registers, Whole, Gone, SameFor, At
<1> QED
  BY <1>1, <1>2

\* A registration moves that has a number: it may touch what has that number.
LEMMA RegistrationMoved ==
  ASSUME TypeOK, TypeOK', RegistrationInv, NEW h \in Handler, NEW n \in Nat \ {0},
         \A g \in Handler \ {h} : handler'[g] = handler[g],
         \A m \in Nat \ {n} : SameFor(m),
         \A g \in Handler \ {h} : Registers(g) => handler[g].user # n,
         Registers(h)', Registers(h), handler'[h].user = n, handler[h].user \in {0, n},
         AloneInv(h)', SpaceInv(h)', ProgressInv(h)',
         n \in users' \ disowned' => n \in workspaces'
  PROVE  RegistrationInv'
<1>t. handler \in [Handler -> Hand] /\ users' \subseteq Nat
  BY DEF TypeOK, HandsOK, AccountsOK
<1>1. ASSUME NEW g \in Handler PROVE AloneInv(g)' /\ SpaceInv(g)' /\ ProgressInv(g)'
  <2>1. CASE g = h
    BY <2>1
  <2>2. CASE g # h
    <3>1. handler'[g] = handler[g] /\ AloneInv(g) /\ SpaceInv(g) /\ ProgressInv(g)
      BY <2>2 DEF RegistrationInv
    <3>2. handler[g].user \in Nat
      BY <1>t DEF Hand
    <3>3. Registers(g) => SameFor(handler[g].user)
      BY <2>2, <3>2
    <3>4. SpaceInv(g)' /\ ProgressInv(g)'
      <4>1. CASE Registers(g)
        BY <3>1, <3>3, <4>1, SameInvs
      <4>2. CASE ~Registers(g)
        <5>1. handler'[g].pc \notin Registering /\ ~Registers(g)'
          BY <3>1, <4>2 DEF AloneInv, Registers
        <5> QED
          BY <5>1 DEF SpaceInv, ProgressInv, Registering, At
      <4> QED
        BY <4>1, <4>2
    <3>5. ASSUME Registers(g), NEW f \in Handler \ {g}, Registers(f)', handler'[f].user = handler[g].user
          PROVE  handler[g].user = 0
      <4>1. f # h
        BY <2>2, <3>5
      <4>2. handler'[f] = handler[f] /\ Registers(f)
        BY <3>5, <4>1 DEF Registers
      <4> QED
        BY <3>1, <3>5, <4>2 DEF AloneInv
    <3>6. Registers(g)' <=> Registers(g)
      BY <3>1 DEF Registers
    <3>7. \A f \in Handler \ {g} : Registers(g)' /\ Registers(f)' /\ handler'[f].user = handler'[g].user =>
            handler'[g].user = 0
      BY <3>1, <3>5, <3>6
    <3>8. AloneInv(g)'
      BY <3>1, <3>7, Zenon DEF AloneInv, Registers, At
    <3> QED
      BY <3>4, <3>8
  <2> QED
    BY <2>1, <2>2
<1>2. UsersHaveWorkspaces'
  BY <1>t DEF UsersHaveWorkspaces, RegistrationInv, SameFor
<1>3. RegistrationIsAllOrNothing'
  <2> SUFFICES ASSUME NEW m \in User \ spoilt'
               PROVE  \/ \E g \in Handler : handler'[g].user = m /\ handler'[g].kind = "register"
                      \/ m \in users' \cap workspaces' \cap owned' \cap mailboxes'
                      \/ m \notin users' \cup workspaces' \cup mailboxes'
    BY DEF RegistrationIsAllOrNothing
  <2>1. CASE m = n
    BY <2>1 DEF Registers
  <2>2. CASE m # n
    <3>1. m \in Nat /\ m # 0
      BY NoBounds DEF User
    <3>2. SameFor(m)
      BY <2>2, <3>1
    <3>3. m \in User \ spoilt
      BY <3>2 DEF SameFor
    <3>4. CASE \E g \in Handler : handler[g].user = m /\ handler[g].kind = "register"
      <4>1. PICK g \in Handler : handler[g].user = m /\ handler[g].kind = "register"
        BY <3>4
      <4>2. handler[h].user # m
        BY <2>2, <3>1
      <4>3. g # h
        BY <4>1, <4>2
      <4> QED
        BY <4>1, <4>3
    <3>5. CASE Whole(m) \/ Gone(m)
      BY <3>2, <3>5 DEF SameFor, Whole, Gone
    <3> QED
      BY <3>3, <3>4, <3>5 DEF RegistrationInv, RegistrationIsAllOrNothing, Whole, Gone
  <2> QED
    BY <2>1, <2>2
<1> QED
  BY <1>1, <1>2, <1>3 DEF RegistrationInv

\* Nothing is created or removed: requests begin, go on, answer or are over.
Stays(h) ==
  \/ /\ ~Registers(h)' /\ handler'[h].pc \notin Registering
     /\ Registers(h) => \/ handler[h].pc \in {"answer", "body"}
                        \/ handler[h].user \in spoilt' \cup {0}
  \/ /\ Registers(h)' /\ handler'[h].user = 0
     /\ handler'[h].pc \in {"username", "workspace", "answer"}
     /\ Registers(h) => handler[h].user = 0
  \/ /\ Registers(h)' /\ Registers(h) /\ handler'[h].user = handler[h].user
     /\ \/ handler'[h].pc = handler[h].pc
        \/ handler'[h].pc = "answer" /\ (At(h, "issue") \/ handler[h].user \in spoilt' \cup {0})
        \/ handler'[h].pc = "body" /\ At(h, "answer")

LEMMA RegistrationStays ==
  ASSUME TypeOK, RegistrationInv, accounts' = accounts, spoilt \subseteq spoilt', disowned' = disowned,
         \A h \in Handler : Stays(h)
  PROVE  RegistrationInv'
<1> USE DEF accounts
<1>0. 0 \notin User
  BY NoBounds DEF User
<1>s. \A n : SameFor(n)
  BY DEF SameFor
<1>1. ASSUME NEW h \in Handler, Registers(h)', handler'[h].user # 0
      PROVE  Registers(h) /\ handler'[h].user = handler[h].user
  BY <1>1 DEF Stays
<1>2. ASSUME NEW h \in Handler PROVE AloneInv(h)'
  <2>1. \A g \in Handler \ {h} :
          Registers(h)' /\ Registers(g)' /\ handler'[g].user = handler'[h].user => handler'[h].user = 0
    BY <1>1 DEF RegistrationInv, AloneInv
  <2>2. CASE ~Registers(h)'
    BY <2>2 DEF Stays, AloneInv, Registering, At
  <2>3. CASE /\ Registers(h)' /\ handler'[h].user = 0
             /\ handler'[h].pc \in {"username", "workspace", "answer"}
    BY <2>1, <2>3 DEF AloneInv, Registering, At
  <2>4. CASE /\ Registers(h)' /\ Registers(h) /\ handler'[h].user = handler[h].user
             /\ handler'[h].pc \in {handler[h].pc, "answer", "body"}
    <3>1. AloneInv(h)
      BY DEF RegistrationInv
    <3>2. CASE handler'[h].pc = handler[h].pc
      BY <2>1, <2>4, <3>1, <3>2, Zenon DEF AloneInv, At
    <3>3. CASE handler'[h].pc \in {"answer", "body"}
      BY <2>1, <2>4, <3>3 DEF AloneInv, Registering, At
    <3> QED
      BY <2>4, <3>2, <3>3
  <2> QED
    BY <2>2, <2>3, <2>4 DEF Stays
<1>3. ASSUME NEW h \in Handler PROVE SpaceInv(h)' /\ ProgressInv(h)'
  <2>0. SpaceInv(h) /\ ProgressInv(h) /\ AloneInv(h)
    BY DEF RegistrationInv
  <2>1. CASE ~Registers(h)'
    BY <2>1 DEF Stays, SpaceInv, ProgressInv, Registering, At
  <2>2. CASE Registers(h)' /\ handler'[h].user = 0 /\ handler'[h].pc \in {"username", "workspace", "answer"}
    BY <1>0, <2>2 DEF SpaceInv, ProgressInv, At
  <2>3. CASE /\ Registers(h)' /\ Registers(h) /\ handler'[h].user = handler[h].user
             /\ handler'[h].pc = handler[h].pc
    BY <1>s, <2>0, <2>3, SameInvs DEF Registers
  <2>4. CASE /\ Registers(h) /\ handler'[h].user = handler[h].user /\ handler'[h].pc = "answer"
             /\ At(h, "issue") \/ handler[h].user \in spoilt' \cup {0}
    <3>1. SpaceInv(h)'
      BY <2>4 DEF SpaceInv, At
    <3>2. ASSUME handler[h].user \in User \ spoilt' PROVE Whole(handler[h].user)
      <4>1. At(h, "issue") /\ handler[h].user \in User \ spoilt
        BY <1>0, <2>4, <3>2
      <4> QED
        BY <2>0, <2>4, <4>1 DEF ProgressInv
    <3>3. ProgressInv(h)'
      BY <2>4, <3>2 DEF ProgressInv, Whole, At
    <3> QED
      BY <3>1, <3>3
  <2>5. CASE /\ Registers(h) /\ handler'[h].user = handler[h].user /\ handler'[h].pc = "body"
             /\ At(h, "answer")
    <3>1. SpaceInv(h)'
      BY <2>5 DEF SpaceInv, At
    <3>2. ProgressInv(h)'
      BY <2>0, <2>5 DEF ProgressInv, Whole, Gone, At
    <3> QED
      BY <3>1, <3>2
  <2> QED
    BY <2>1, <2>2, <2>3, <2>4, <2>5 DEF Stays
<1>4. UsersHaveWorkspaces'
  BY DEF RegistrationInv, UsersHaveWorkspaces
<1>5. RegistrationIsAllOrNothing'
  <2> SUFFICES ASSUME NEW m \in User \ spoilt'
               PROVE  (\E g \in Handler : handler'[g].user = m /\ handler'[g].kind = "register")
                        \/ Whole(m) \/ Gone(m)
    BY DEF RegistrationIsAllOrNothing, Whole, Gone
  <2>1. m \in User \ spoilt
    OBVIOUS
  <2>2. CASE \E g \in Handler : handler[g].user = m /\ handler[g].kind = "register"
    <3>1. PICK g \in Handler : handler[g].user = m /\ handler[g].kind = "register"
      BY <2>2
    <3>2. handler[g].user \notin spoilt' \cup {0} /\ Registers(g)
      BY <1>0, <3>1 DEF Registers
    <3>3. CASE Registers(g)'
      <4>1. handler'[g].user = m
        BY <3>1, <3>2, <3>3 DEF Stays
      <4> QED
        BY <3>3, <4>1 DEF Registers
    <3>4. CASE ~Registers(g)'
      <4>1. handler[g].pc \in {"answer", "body"}
        BY <3>2, <3>4 DEF Stays
      <4> QED
        BY <2>1, <3>1, <3>2, <4>1 DEF RegistrationInv, ProgressInv
    <3> QED
      BY <3>3, <3>4
  <2> QED
    BY <2>1, <2>2 DEF RegistrationInv, RegistrationIsAllOrNothing, Whole, Gone
<1> QED
  BY <1>2, <1>3, <1>4, <1>5 DEF RegistrationInv

\* The steps of a registration that have its number in hand.
Numbered == {"user", "owner", "drop", "connect", "unuser", "unspace"}

LEMMA RegistrationGoes ==
  ASSUME TypeOK, TypeOK', RegistrationInv, NEW h \in Handler, handler[h].pc \in Numbered,
         \A g \in Handler \ {h} : handler'[g] = handler[g],
         handler'[h].kind = handler[h].kind, handler'[h].user = handler[h].user,
         handler'[h].pc \in Numbered \cup {"issue", "answer"},
         \A m \in Nat \ {handler[h].user} : SameFor(m),
         SpaceInv(h)', ProgressInv(h)',
         handler[h].user \in users' \ disowned' => handler[h].user \in workspaces'
  PROVE  RegistrationInv'
<1>1. AloneInv(h) /\ Registers(h)
  BY DEF RegistrationInv, AloneInv, Registering, Numbered
<1>2. handler[h].user \in Nat \ {0}
  <2>1. HandOK(h) /\ handler[h].user \in 0 .. created /\ created \in Nat
    BY DEF TypeOK, HandsOK, AccountsOK
  <2>2. handler[h].user > 0
    BY <2>1 DEF HandOK, Registering, Numbered
  <2> QED
    BY <2>1, <2>2
<1>3. \A g \in Handler \ {h} : Registers(g) => handler[g].user # handler[h].user
  <2>1. handler[h].user # 0
    BY <1>2
  <2> QED
    BY <1>1, <2>1, Zenon DEF AloneInv
<1>4. Registers(h)'
  BY <1>1 DEF Registers
<1>5. \A g \in Handler \ {h} : ~(Registers(g)' /\ handler'[g].user = handler'[h].user)
  BY <1>3, Zenon DEF Registers
<1>6. AloneInv(h)'
  <2>1. handler'[h].user > 0
    BY <1>2
  <2>2. handler'[h].pc \in Registering \cup {"issue", "answer"} /\ handler'[h].pc \notin {"username", "workspace"}
    BY DEF Registering, Numbered
  <2> QED
    BY <1>4, <1>5, <2>1, <2>2, Zenon DEF AloneInv
<1> QED
  BY <1>1, <1>2, <1>3, <1>4, <1>6, RegistrationMoved

LEMMA ProceedRegistrationInv ==
  ASSUME TypeOK, TypeOK', RegistrationInv, NEW h \in Handler,
         \/ CreateUser(h) \/ SetOwner(h) \/ Drop(h) \/ Connect(h) \/ DeleteUser(h) \/ DeleteWorkspace(h)
  PROVE  RegistrationInv'
<1> DEFINE n == handler[h].user
           Others == \A g \in Handler \ {h} : handler'[g] = handler[g]
           Same == handler'[h].kind = handler[h].kind /\ handler'[h].user = n
<1>0. handler \in [Handler -> Hand]
  BY DEF TypeOK, HandsOK
<1>i. SpaceInv(h) /\ ProgressInv(h) /\ AloneInv(h)
  BY DEF RegistrationInv
<1>f. spoilt' = spoilt /\ disowned' = disowned
  BY DEF CreateUser, SetOwner, Drop, Connect, DeleteUser, DeleteWorkspace, faults
<1>g. ASSUME NEW pc \in Pcs, GoOn(h, pc) PROVE Others /\ Same /\ handler'[h].pc = pc
  BY <1>0, <1>g, WentOn
<1>a. ASSUME Answer(h, "failed") PROVE Others /\ Same /\ handler'[h].pc = "answer"
  BY <1>0, <1>a, Answered DEF Results
<1>w. n \in users \ disowned => n \in workspaces
  BY DEF RegistrationInv, UsersHaveWorkspaces
<1>1. CASE CreateUser(h) /\ GoOn(h, "owner")
  <2>1. /\ At(h, "user") /\ users' = users \cup {n} /\ workspaces' = workspaces
        /\ owned' = owned /\ mailboxes' = mailboxes
    BY <1>0, <1>1 DEF CreateUser, GoOn, Hand
  <2>2. Others /\ Same /\ handler'[h].pc = "owner"
    BY <1>1, <1>g DEF Pcs, Registering
  <2>3. n \in workspaces
    BY <1>i, <2>1 DEF SpaceInv
  <2>4. SpaceInv(h)'
    BY <2>2 DEF SpaceInv, At
  <2>5. ProgressInv(h)'
    BY <1>f, <1>i, <2>1, <2>2, <2>3 DEF ProgressInv, Registers, At
  <2>6. \A m \in Nat \ {n} : SameFor(m)
    BY <1>f, <2>1 DEF SameFor
  <2> QED
    BY <2>1, <2>2, <2>3, <2>4, <2>5, <2>6, RegistrationGoes DEF Numbered, At
<1>2. CASE CreateUser(h) /\ GoOn(h, "drop")
  <2>1. /\ At(h, "user") /\ users' = users /\ workspaces' = workspaces
        /\ owned' = owned /\ mailboxes' = mailboxes
    BY <1>0, <1>2 DEF CreateUser, GoOn, Hand
  <2>2. Others /\ Same /\ handler'[h].pc = "drop"
    BY <1>2, <1>g DEF Pcs, Registering
  <2>3. n \notin users
    BY <1>i, <2>1 DEF SpaceInv
  <2>4. SpaceInv(h)'
    BY <2>1, <2>2, <2>3 DEF SpaceInv, At
  <2>5. ProgressInv(h)'
    BY <1>f, <1>i, <2>1, <2>2, <2>3 DEF ProgressInv, Registers, At
  <2>6. \A m \in Nat \ {n} : SameFor(m)
    BY <1>f, <2>1 DEF SameFor
  <2> QED
    BY <2>1, <2>2, <2>3, <2>4, <2>5, <2>6, RegistrationGoes DEF Numbered, At
<1>3. CASE SetOwner(h)
  <2>1. /\ At(h, "owner") /\ owned' = owned \cup ({n} \cap workspaces) /\ users' = users
        /\ workspaces' = workspaces /\ mailboxes' = mailboxes
    BY <1>3 DEF SetOwner
  <2>2. Others /\ Same /\ handler'[h].pc = "connect"
    BY <1>3, <1>g DEF SetOwner, Pcs, Registering
  <2>4. SpaceInv(h)'
    BY <2>2 DEF SpaceInv, At
  <2>5. ProgressInv(h)'
    BY <1>f, <1>i, <2>1, <2>2 DEF ProgressInv, Registers, At
  <2>6. \A m \in Nat \ {n} : SameFor(m)
    BY <1>f, <2>1 DEF SameFor
  <2> QED
    BY <1>f, <1>w, <2>1, <2>2, <2>4, <2>5, <2>6, RegistrationGoes DEF Numbered, At
<1>4. CASE Drop(h)
  <2>1. /\ At(h, "drop") /\ workspaces' = workspaces \ {n} /\ users' = users
        /\ owned' = owned /\ mailboxes' = mailboxes
    BY <1>4 DEF Drop
  <2>2. Others /\ Same /\ handler'[h].pc = "answer"
    BY <1>4, <1>a DEF Drop
  <2>3. n \notin users \ disowned
    BY <1>i, <2>1 DEF SpaceInv
  <2>4. SpaceInv(h)'
    BY <2>2 DEF SpaceInv, At
  <2>5. ProgressInv(h)'
    BY <1>f, <1>i, <2>1, <2>2 DEF ProgressInv, Registers, Whole, Gone, At
  <2>6. \A m \in Nat \ {n} : SameFor(m)
    BY <1>f, <2>1 DEF SameFor
  <2> QED
    BY <1>f, <2>1, <2>2, <2>3, <2>4, <2>5, <2>6, RegistrationGoes DEF Numbered, At
<1>5. CASE Connect(h)
  <2>1. /\ At(h, "connect") /\ workspaces' = workspaces /\ users' = users /\ owned' = owned
        /\ \/ mailboxes' = mailboxes \cup {n} /\ GoOn(h, "issue")
           \/ mailboxes' = mailboxes /\ GoOn(h, "unuser")
    BY <1>5 DEF Connect
  <2>2. Others /\ Same /\ \/ mailboxes' = mailboxes \cup {n} /\ handler'[h].pc = "issue"
                          \/ mailboxes' = mailboxes /\ handler'[h].pc = "unuser"
    BY <1>g, <2>1 DEF Pcs, Registering
  <2>4. SpaceInv(h)'
    BY <2>2 DEF SpaceInv, At
  <2>5. ProgressInv(h)'
    BY <1>f, <1>i, <2>1, <2>2 DEF ProgressInv, Registers, Whole, At
  <2>6. \A m \in Nat \ {n} : SameFor(m)
    BY <1>f, <2>1 DEF SameFor
  <2> QED
    BY <1>f, <1>w, <2>1, <2>2, <2>4, <2>5, <2>6, RegistrationGoes DEF Numbered, At
<1>6. CASE DeleteUser(h)
  <2>1. /\ At(h, "unuser") /\ users' = users \ {n} /\ workspaces' = workspaces
        /\ owned' = owned /\ mailboxes' = mailboxes
    BY <1>6 DEF DeleteUser
  <2>2. Others /\ Same /\ handler'[h].pc = "unspace"
    BY <1>6, <1>g DEF DeleteUser, Pcs, Registering
  <2>4. SpaceInv(h)'
    BY <2>1, <2>2 DEF SpaceInv, At
  <2>5. ProgressInv(h)'
    BY <1>f, <1>i, <2>1, <2>2 DEF ProgressInv, Registers, At
  <2>6. \A m \in Nat \ {n} : SameFor(m)
    BY <1>f, <2>1 DEF SameFor
  <2> QED
    BY <1>f, <2>1, <2>2, <2>4, <2>5, <2>6, RegistrationGoes DEF Numbered, At
<1>7. CASE DeleteWorkspace(h)
  <2>1. /\ At(h, "unspace") /\ workspaces' = workspaces \ {n} /\ users' = users
        /\ owned' = owned /\ mailboxes' = mailboxes
    BY <1>7 DEF DeleteWorkspace
  <2>2. Others /\ Same /\ handler'[h].pc = "answer"
    BY <1>7, <1>a DEF DeleteWorkspace
  <2>3. n \notin users
    BY <1>i, <2>1 DEF SpaceInv
  <2>4. SpaceInv(h)'
    BY <2>2 DEF SpaceInv, At
  <2>5. ProgressInv(h)'
    BY <1>f, <1>i, <2>1, <2>2 DEF ProgressInv, Registers, Whole, Gone, At
  <2>6. \A m \in Nat \ {n} : SameFor(m)
    BY <1>f, <2>1 DEF SameFor
  <2> QED
    BY <2>1, <2>2, <2>3, <2>4, <2>5, <2>6, RegistrationGoes DEF Numbered, At
<1> QED
  BY <1>1, <1>2, <1>3, <1>4, <1>5, <1>6, <1>7 DEF CreateUser

\* A new number is nobody's, and nothing has it yet.
LEMMA CreateRegistrationInv ==
  ASSUME TypeOK, TypeOK', RegistrationInv, NEW h \in Handler, CreateWorkspace(h)
  PROVE  RegistrationInv'
<1> DEFINE n == created + 1
<1>0. created \in Nat /\ n \in Nat \ {0} /\ n \notin 1 .. created /\ n \notin 0 .. created
  BY DEF TypeOK, AccountsOK
<1>1. /\ At(h, "workspace") /\ workspaces' = workspaces \cup {n} /\ users' = users /\ owned' = owned
      /\ mailboxes' = mailboxes /\ spoilt' = spoilt /\ disowned' = disowned
  BY DEF CreateWorkspace, faults
<1>2. /\ handler'[h].pc = "user" /\ handler'[h].kind = handler[h].kind /\ handler'[h].user = n
      /\ \A g \in Handler \ {h} : handler'[g] = handler[g]
  BY CreatedFor
<1>3. AloneInv(h)
  BY DEF RegistrationInv
<1>4. Registers(h) /\ handler[h].user = 0
  BY <1>1, <1>3 DEF AloneInv, Registering, At
<1>5. n \notin users /\ n \notin mailboxes
  BY <1>0 DEF TypeOK, AccountsOK
<1>6. \A g \in Handler : handler[g].user \in 0 .. created
  BY DEF TypeOK, HandsOK
<1>7. \A g \in Handler \ {h} : handler[g].user # n
  BY <1>0, <1>6
<1>8. Registers(h)'
  BY <1>2, <1>4 DEF Registers
<1>9. AloneInv(h)'
  <2>1. \A g \in Handler \ {h} : handler'[g].user # handler'[h].user
    BY <1>2, <1>7
  <2> QED
    BY <1>2, <1>8, <2>1 DEF AloneInv, Registering, At
<1>10. SpaceInv(h)'
  BY <1>1, <1>2, <1>5 DEF SpaceInv, At
<1>11. ProgressInv(h)'
  BY <1>1, <1>2, <1>5 DEF ProgressInv, At
<1>12. \A m \in Nat \ {n} : SameFor(m)
  BY <1>1 DEF SameFor
<1>13. n \in workspaces'
  BY <1>1
<1> HIDE DEF n
<1> QED
  BY <1>0, <1>2, <1>4, <1>7, <1>8, <1>9, <1>10, <1>11, <1>12, <1>13, RegistrationMoved

\* A request that did not move stays, and so does one that is not a registration's.
LEMMA StaysStill ==
  ASSUME RegistrationInv, NEW g \in Handler, handler'[g].pc = handler[g].pc,
         handler'[g].kind = handler[g].kind, handler'[g].user = handler[g].user
  PROVE  Stays(g)
BY DEF RegistrationInv, AloneInv, Stays, Registers

\* Steps that create and remove nothing.
LEMMA StaysRegistrationInv ==
  ASSUME TypeOK, RegistrationInv, NEW h \in Handler,
         \/ \E t \in Tab, i \in Identity : Register(h, t, i)
         \/ \E t \in Tab, i \in Identity, right \in BOOLEAN : Login(h, t, i, right)
         \/ \E t \in Tab : LoadSession(h, t) \/ LoadPage(h, t) \/ SignOut(h, t)
         \/ FindUsername(h) \/ Issue(h) \/ LookUp(h) \/ Revoke(h)
         \/ TakeCookie(h) \/ Arrive(h) \/ Drain(h) \/ Lose(h)
  PROVE  RegistrationInv'
<1> DEFINE Others == \A g \in Handler \ {h} : handler'[g] = handler[g]
<1>0. handler \in [Handler -> Hand]
  BY DEF TypeOK, HandsOK
<1>a. AloneInv(h)
  BY DEF RegistrationInv
<1>f. accounts' = accounts /\ spoilt \subseteq spoilt' /\ disowned' = disowned
  BY DEF Register, Login, LoadSession, LoadPage, SignOut, Resolve, FindUsername, Issue, LookUp, Revoke,
         TakeCookie, Arrive, Drain, Lose, faults
<1>i. At(h, "idle") => ~Registers(h)
  BY <1>a DEF AloneInv, Registering, At
<1>1. ASSUME NEW t \in Tab, NEW i \in Identity, Register(h, t, i) PROVE Others /\ Stays(h)
  <2>1. /\ Others /\ handler'[h].pc \in {"username", "answer"} /\ handler'[h].kind = "register"
        /\ handler'[h].user = 0
    BY <1>0, <1>1, BegunRegister
  <2> QED
    BY <1>1, <1>i, <2>1 DEF Register, Stays, Registers
<1>2. ASSUME NEW t \in Tab, NEW i \in Identity, NEW right \in BOOLEAN, Login(h, t, i, right)
      PROVE  Others /\ Stays(h)
  <2>1. Others /\ handler'[h].pc \in {"issue", "answer"} /\ handler'[h].kind = "login"
    BY <1>2, BegunLogin
  <2>2. ~Registers(h)
    BY <1>2, <1>i DEF Login
  <2> QED
    BY <2>1, <2>2 DEF Stays, Registers, Registering
<1>3. ASSUME NEW t \in Tab, NEW kind \in {"me", "page", "logout"}, Resolve(h, t, kind)
      PROVE  Others /\ Stays(h)
  <2>1. Others /\ handler'[h].pc \in {"lookup", "answer"} /\ handler'[h].kind = kind
    BY <1>3, Resolved
  <2>2. ~Registers(h)
    BY <1>3, <1>i DEF Resolve
  <2> QED
    BY <2>1, <2>2 DEF Stays, Registers, Registering
<1>4. CASE FindUsername(h)
  <2>1. /\ Others /\ handler'[h].pc \in {"workspace", "answer"} /\ handler'[h].kind = handler[h].kind
        /\ handler'[h].user = handler[h].user
    BY <1>0, <1>4, WentOn, Answered DEF FindUsername, Pcs, Registering, Results
  <2>2. Registers(h) /\ handler[h].user = 0
    BY <1>a, <1>4 DEF FindUsername, AloneInv, Registering, At
  <2> QED
    BY <1>f, <2>1, <2>2, StaysStill, RegistrationStays DEF Stays, Registers
<1>5. CASE Issue(h)
  <2>1. /\ Others /\ handler'[h].pc = "answer" /\ handler'[h].kind = handler[h].kind
        /\ handler'[h].user = handler[h].user
    BY <1>5, IssuedTo
  <2>2. Stays(h)
    BY <1>5, <2>1 DEF Issue, Stays, Registers, Registering
  <2> QED
    BY <1>f, <2>1, <2>2, StaysStill, RegistrationStays
<1>6. CASE LookUp(h) \/ Revoke(h)
  <2>1. Others /\ handler'[h].pc \in {"revoke", "answer"} /\ handler'[h].kind = handler[h].kind
    BY <1>0, <1>6, WentOn, Answered DEF LookUp, Revoke, Pcs, Registering, Results
  <2>2. ~Registers(h)
    BY <1>a, <1>6 DEF LookUp, Revoke, AloneInv, Registering, At
  <2>3. Stays(h)
    BY <2>1, <2>2 DEF Stays, Registers, Registering
  <2> QED
    BY <1>f, <2>1, <2>3, StaysStill, RegistrationStays
<1>7. CASE Arrive(h) \/ Drain(h) \/ Lose(h)
  <2>1. handler[h].pc \in {"answer", "body"} /\ handler' = [handler EXCEPT ![h] = Idle]
    BY <1>7 DEF Arrive, Drain, Lose, At
  <2>2. Others /\ handler'[h].pc = "idle" /\ handler'[h].kind = "none"
    BY <1>0, <2>1, Dropped
  <2>3. Stays(h)
    BY <2>1, <2>2 DEF Stays, Registers, Registering
  <2> QED
    BY <1>f, <2>2, <2>3, StaysStill, RegistrationStays
<1>8. CASE TakeCookie(h)
  <2>1. At(h, "answer") /\ GoOn(h, "body")
    BY <1>8 DEF TakeCookie
  <2>2. /\ Others /\ handler'[h].pc = "body" /\ handler'[h].kind = handler[h].kind
        /\ handler'[h].user = handler[h].user
    BY <1>0, <2>1, WentOn DEF Pcs
  <2>3. Stays(h)
    BY <2>1, <2>2 DEF Stays, Registers, Registering
  <2> QED
    BY <1>f, <2>2, <2>3, StaysStill, RegistrationStays
<1>9. ASSUME Others /\ Stays(h) PROVE RegistrationInv'
  BY <1>f, <1>9, StaysStill, RegistrationStays
<1> QED
  BY <1>1, <1>2, <1>3, <1>4, <1>5, <1>6, <1>7, <1>8, <1>9 DEF LoadSession, LoadPage, SignOut

LEMMA FaultRegistrationInv ==
  ASSUME TypeOK, TypeOK', RegistrationInv,
         \/ \E h \in Handler : Reject(h)
         \/ \E t \in Tab : Reload(t)
         \/ \E k \in Token : Expire(k)
         \/ Crash
  PROVE  RegistrationInv'
<1>0. handler \in [Handler -> Hand]
  BY DEF TypeOK, HandsOK
<1>1. ASSUME NEW h \in Handler, Reject(h) PROVE RegistrationInv'
  <2> DEFINE n == handler[h].user
             Others == \A g \in Handler \ {h} : handler'[g] = handler[g]
             Same == handler'[h].kind = handler[h].kind /\ handler'[h].user = n
  <2>0. /\ workspaces' = workspaces /\ users' = users /\ owned' = owned
        /\ spoilt' = spoilt \cup ({n} \cap User)
        /\ disowned' = IF At(h, "owner") THEN disowned \cup {n} ELSE disowned
    BY <1>1, RejectedTo
  <2>a. AloneInv(h) /\ SpaceInv(h)
    BY DEF RegistrationInv
  <2>w. n \in users \ disowned => n \in workspaces
    BY DEF RegistrationInv, UsersHaveWorkspaces
  <2>p. n \notin User \ spoilt'
    BY <2>0
  <2>1. CASE handler[h].pc \in {"user", "owner", "connect"}
    <3>1. Others /\ Same /\ \/ handler[h].pc \in {"user", "owner"} /\ handler'[h].pc = "drop"
                            \/ At(h, "connect") /\ handler'[h].pc = "unuser"
      <4>1. GoOn(h, "drop") => Others /\ Same /\ handler'[h].pc = "drop"
        BY <1>0, WentOn DEF Pcs, Registering
      <4>2. GoOn(h, "unuser") => Others /\ Same /\ handler'[h].pc = "unuser"
        BY <1>0, WentOn DEF Pcs, Registering
      <4> QED
        BY <1>1, <2>1, <4>1, <4>2, RejectedTo
    <3>2. ProgressInv(h)'
      BY <2>p, <3>1 DEF ProgressInv
    <3>3. SpaceInv(h)'
      <4>1. At(h, "user") => n \notin users
        BY <2>a DEF SpaceInv
      <4>2. At(h, "owner") => n \in disowned'
        BY <2>0
      <4> QED
        BY <2>0, <3>1, <4>1, <4>2 DEF SpaceInv, At
    <3>4. mailboxes' = mailboxes \/ mailboxes' = mailboxes \cup {n}
      BY <1>1, RejectedTo
    <3>5. \A m \in Nat \ {n} : SameFor(m)
      BY <2>0, <3>4 DEF SameFor
    <3>6. n \in users' \ disowned' => n \in workspaces'
      BY <2>0, <2>w
    <3>7. handler[h].pc \in Numbered /\ handler'[h].pc \in Numbered \cup {"issue", "answer"}
      BY <2>1, <3>1 DEF Numbered
    <3> QED
      BY <3>1, <3>2, <3>3, <3>5, <3>6, <3>7, RegistrationGoes
  <2>2. CASE handler[h].pc \notin {"user", "owner", "connect"}
    <3>1. Answer(h, "failed") /\ mailboxes' = mailboxes /\ disowned' = disowned
      BY <1>1, <2>0, <2>2, RejectedTo DEF At
    <3>2. Others /\ Same /\ handler'[h].pc = "answer"
      BY <1>0, <3>1, Answered DEF Results
    <3>3. n \in spoilt' \cup {0}
      <4>1. n \in 0 .. created /\ created \in Nat /\ created <= MaxUsers
        BY DEF TypeOK, HandsOK, AccountsOK
      <4>2. n \in User \cup {0}
        BY <4>1, NoBounds DEF User
      <4> QED
        BY <2>0, <4>2
    <3>4. Stays(h)
      BY <3>2, <3>3 DEF Stays, Registers, Registering
    <3>5. accounts' = accounts
      BY <1>1, <2>0, <3>1, RejectedTo DEF accounts
    <3>6. \A g \in Handler : Stays(g)
      BY <3>2, <3>4, StaysStill
    <3> QED
      BY <2>0, <3>1, <3>5, <3>6, RegistrationStays
  <2> QED
    BY <2>1, <2>2
<1>2. ASSUME NEW t \in Tab, Reload(t) PROVE RegistrationInv'
  <2>1. ASSUME NEW h \in Handler PROVE Stays(h)
    <3>1. CASE handler'[h] = Idle /\ At(h, "body")
      <4>1. handler'[h].pc = "idle" /\ handler'[h].kind = "none"
        BY <3>1 DEF Idle
      <4> QED
        BY <3>1, <4>1 DEF Stays, Registers, Registering, At
    <3>2. CASE /\ handler'[h].pc = handler[h].pc /\ handler'[h].kind = handler[h].kind
               /\ handler'[h].user = handler[h].user
      BY <3>2, StaysStill
    <3> QED
      BY <1>0, <1>2, <3>1, <3>2, Reloaded
  <2> QED
    BY <1>2, <2>1, RegistrationStays DEF Reload, faults
<1>3. ASSUME NEW k \in Token, Expire(k) PROVE RegistrationInv'
  BY <1>3, StaysStill, RegistrationStays DEF Expire, faults
<1>4. ASSUME Crash PROVE RegistrationInv'
  <2>1. ASSUME NEW h \in Handler PROVE Stays(h)
    <3>1. Registers(h) => handler[h].user \in spoilt' \cup {0}
      <4>1. handler[h].user \in 0 .. created /\ created \in Nat /\ created <= MaxUsers
        BY DEF TypeOK, HandsOK, AccountsOK
      <4>2. handler[h].user \in User \cup {0}
        BY <4>1, NoBounds DEF User
      <4>3. spoilt' = spoilt \cup
              (User \cap {handler[g].user : g \in {f \in Handler : handler[f].kind = "register"}})
        BY <1>4 DEF Crash
      <4> QED
        BY <4>2, <4>3, Zenon DEF Registers
    <3>2. CASE handler'[h] = Idle
      <4>1. handler'[h].pc = "idle" /\ handler'[h].kind = "none"
        BY <3>2 DEF Idle
      <4> QED
        BY <3>1, <4>1 DEF Stays, Registers, Registering
    <3>3. CASE /\ handler'[h].pc = "answer" /\ handler'[h].kind = handler[h].kind
               /\ handler'[h].user = handler[h].user
      BY <3>1, <3>3 DEF Stays, Registers, Registering
    <3> QED
      BY <1>0, <1>4, <3>2, <3>3, Restarted
  <2>2. accounts' = accounts /\ spoilt \subseteq spoilt' /\ disowned' = disowned
    BY <1>4, Zenon DEF Crash
  <2> QED
    BY <2>1, <2>2, RegistrationStays
<1> QED
  BY <1>1, <1>2, <1>3, <1>4

LEMMA StepRegistrationInv == TypeOK /\ RegistrationInv /\ [Next]_vars => RegistrationInv'
<1> SUFFICES ASSUME TypeOK, RegistrationInv, [Next]_vars PROVE RegistrationInv'
  OBVIOUS
<1>t. TypeOK'
  BY StepTypeOK
<1>1. CASE UNCHANGED vars
  <2>1. handler' = handler /\ accounts' = accounts /\ spoilt' = spoilt /\ disowned' = disowned
    BY <1>1 DEF vars, faults
  <2> QED
    BY <2>1, StaysStill, RegistrationStays
<1>2. ASSUME NEW h \in Handler, Proceed(h) PROVE RegistrationInv'
  BY <1>t, <1>2, ProceedRegistrationInv, CreateRegistrationInv, StaysRegistrationInv DEF Proceed
<1>3. CASE Next
  BY <1>t, <1>2, <1>3, StaysRegistrationInv, FaultRegistrationInv DEF Next
<1> QED
  BY <1>1, <1>3

LEMMA InitRegistrationInv == Init => RegistrationInv
<1> SUFFICES ASSUME Init PROVE RegistrationInv
  OBVIOUS
<1>1. \A h \in Handler : handler[h].pc = "idle" /\ handler[h].kind = "none"
  BY DEF Init, Idle
<1>2. \A h \in Handler : AloneInv(h) /\ SpaceInv(h) /\ ProgressInv(h)
  BY <1>1 DEF AloneInv, SpaceInv, ProgressInv, Registers, Registering, At
<1> QED
  BY <1>2 DEF Init, RegistrationInv, UsersHaveWorkspaces, RegistrationIsAllOrNothing

(***************************************************************************)
(* What register() of auth.service.ts answers for, with any number of      *)
(* registrations under way: whoever can sign in has their workspace, but   *)
(* for the failure of the call that sets its owner, and a registration     *)
(* that met no fault leaves everything it creates, or nothing.             *)
(***************************************************************************)
THEOREM RegistrationsAreWhole == Spec => []RegistrationIsWhole
<1>1. TypeOK /\ RegistrationInv /\ [Next]_vars => (TypeOK /\ RegistrationInv)'
  BY StepTypeOK, StepRegistrationInv
<1>2. RegistrationInv => RegistrationIsWhole
  BY DEF RegistrationInv, RegistrationIsWhole
<1>3. Init => TypeOK /\ RegistrationInv
  BY InitTypeOK, InitRegistrationInv
<1> QED
  BY <1>1, <1>2, <1>3, PTL DEF Spec

=============================================================================
