----------------------------- MODULE AccountsPage -----------------------------
(***************************************************************************)
(* The settings page of the connected Gmail accounts                       *)
(* (email-accounts-page.service.ts): it lists them, connects one through a *)
(* form, and verifies, tests, makes default or disconnects one at a time.  *)
(* It never changes its list itself but loads it again after an action.    *)
(*                                                                         *)
(* The server does what it does of an action in one step here, all of it   *)
(* or its first half; how its actions interleave is in EmailAccounts.      *)
(***************************************************************************)
EXTENDS Naturals

CONSTANTS Account,  \* addresses that may be connected
          Listing,  \* requests for the list that may be under way
          MaxActing \* bound: actions the user starts

VARIABLES
  account,  \* the accounts of the server: [id, status, isDefault]
  accounts, \* those on the page
  isLoading, hasError, isFormOpen, isConnecting, busy,
  listing,  \* requests for the list
  acting,   \* requests of actions, numbered, also those the page gave up on
  started,  \* how many there were
  unaware   \* history: a change came of which the page does not ask, or lists were asked for together

accountsVars == <<account, accounts, isLoading, hasError, isFormOpen, isConnecting,
                  busy, listing, acting, started, unaware>>

NoListing == [pc |-> "none"]
NoOne == "none"

ASSUME AccountsAssumption == NoOne \notin Account /\ MaxActing \in Nat

\* The page opens on any accounts, one of them the default.
AccountsInit ==
  /\ \E ids \in SUBSET Account, default \in Account :
       account = {[id |-> i, status |-> "active", isDefault |-> i = default] : i \in ids}
  /\ accounts = {} /\ isLoading = TRUE /\ hasError = FALSE
  /\ isFormOpen = FALSE /\ isConnecting = FALSE /\ busy = NoOne
  /\ \E l \in Listing : listing = [k \in Listing |-> IF k = l THEN [pc |-> "sent"] ELSE NoListing]
  /\ acting = {} /\ started = 0 /\ unaware = FALSE

screen == <<accounts, isLoading, hasError, isFormOpen, isConnecting, busy>>

Listings == {l \in Listing : listing[l] # NoListing}

\* The requests of actions the page waits for.
Waiting == {a \in acting : a.pc # "abandoned"}

\* A change for which the page does not load its list: it sees it only if a list
\* is about to be read.
Unasked(change) ==
  unaware' = (unaware \/ (change /\ \A l \in Listing : listing[l].pc # "sent"))

-----------------------------------------------------------------------------
(***************************************************************************)
(* The server.                                                             *)
(***************************************************************************)

ServeListing(l) ==
  /\ listing[l].pc = "sent" /\ listing' = [listing EXCEPT ![l] = [pc |-> "served", items |-> account]]
  /\ UNCHANGED <<account, screen, acting, started, unaware>>

\* EmailAccountService: what an action leaves when it goes well.
Changed(a) ==
  CASE a.kind = "connect" -> {b \in account : b.id # a.id} \cup
         {[id |-> a.id, status |-> "active", isDefault |-> a.makeDefault \/ account = {}]}
    [] a.kind = "check" -> {IF b.id = a.id THEN [b EXCEPT !.status = "active"] ELSE b : b \in account}
    [] a.kind = "default" -> {[b EXCEPT !.isDefault = b.id = a.id] : b \in account}
    [] OTHER -> LET rest == {b \in account : b.id # a.id}
                    wasDefault == \E b \in account : b.id = a.id /\ b.isDefault
                IN  IF wasDefault /\ rest # {}
                    THEN LET heir == CHOOSE b \in rest : TRUE
                         IN  (rest \ {heir}) \cup {[heir EXCEPT !.isDefault = TRUE]}
                    ELSE rest

\* What one leaves that fails: things as they are, a check recorded as failed, or
\* its first half: the account connected though the others are still to be made
\* no default, the account gone though no other is made default, no default.
Halfway(a) ==
  CASE a.kind = "connect" -> Changed(a)
    [] a.kind = "check" -> {IF b.id = a.id THEN [b EXCEPT !.status = "verification_failed"] ELSE b : b \in account}
    [] a.kind = "default" -> {[b EXCEPT !.isDefault = b.isDefault /\ b.id = a.id] : b \in account}
    [] OTHER -> {b \in account : b.id # a.id}

\* An action other than connecting needs its account; a second default is
\* refused by the index.
Possible(a) ==
  IF a.kind = "connect" THEN ~a.makeDefault \/ \A b \in account : b.isDefault => b.id = a.id
  ELSE \E b \in account : b.id = a.id

\* Also of an action the page gave up on, which then hears nothing of it.
ServeAction(a, ok) ==
  /\ a \in acting /\ a.pc \in {"sent", "abandoned"} /\ (ok => Possible(a))
  /\ \/ account' = IF ok THEN Changed(a) ELSE account
     \/ ~ok /\ Possible(a) /\ account' = Halfway(a)
  /\ IF a.pc = "sent"
     THEN /\ acting' = (acting \ {a}) \cup
               {[a EXCEPT !.pc = IF ok THEN "done" ELSE IF account' = account THEN "refused" ELSE "torn"]}
          /\ UNCHANGED unaware
     ELSE acting' = acting \ {a} /\ Unasked(account' # account)
  /\ UNCHANGED <<screen, listing, started>>

\* recordSendFailure(): the worker finds that an account no longer works.
Unusable ==
  /\ \E b \in account : account' = (account \ {b}) \cup {[b EXCEPT !.status = "verification_failed"]}
  /\ account' # account /\ Unasked(TRUE)
  /\ UNCHANGED <<screen, listing, acting, started>>

-----------------------------------------------------------------------------
(***************************************************************************)
(* The page.                                                               *)
(***************************************************************************)

\* load(): of lists that are under way together the last to come is shown.
ReloadAccounts(l) ==
  /\ listing[l] = NoListing /\ listing' = [listing EXCEPT ![l] = [pc |-> "sent"]]
  /\ isLoading' = TRUE /\ hasError' = FALSE /\ unaware' = (Listings # {})

\* The user asks for the list again after an error.
Retry(l) ==
  /\ hasError /\ ReloadAccounts(l)
  /\ UNCHANGED <<account, accounts, isFormOpen, isConnecting, busy, acting, started>>

AccountsListed(l) ==
  /\ listing[l].pc = "served" /\ listing' = [listing EXCEPT ![l] = NoListing]
  /\ accounts' = listing[l].items /\ isLoading' = FALSE
  /\ UNCHANGED <<account, hasError, isFormOpen, isConnecting, busy, acting, started, unaware>>

AccountsFail(l) ==
  /\ listing[l] # NoListing /\ listing' = [listing EXCEPT ![l] = NoListing]
  /\ hasError' = TRUE /\ isLoading' = FALSE
  /\ UNCHANGED <<account, accounts, isFormOpen, isConnecting, busy, acting, started, unaware>>

\* openForm(), closeForm(): the form cannot be cancelled while it is sent.
ToggleForm ==
  /\ ~isConnecting /\ isFormOpen' = ~isFormOpen
  /\ UNCHANGED <<account, accounts, isLoading, hasError, isConnecting, busy, listing, acting, started, unaware>>

\* A request of an action, and how it ends for the page: an action that fails on
\* the way may be done later, or never.
Submit(action) ==
  /\ started < MaxActing /\ started' = started + 1
  /\ acting' = acting \cup {action}

GiveUp(a) ==
  /\ a.pc # "abandoned"
  /\ \/ acting' = acting \ {a}
     \/ a.pc = "sent" /\ acting' = (acting \ {a}) \cup {[a EXCEPT !.pc = "abandoned"]}

\* Whether the action changed the accounts.
Changing(a) == a.pc \in {"done", "torn"}

\* connect(), of a form that may be submitted
Connect(i, makeDefault) ==
  /\ isFormOpen /\ ~isConnecting
  /\ Submit([pc |-> "sent", number |-> started, kind |-> "connect", id |-> i, makeDefault |-> makeDefault])
  /\ isConnecting' = TRUE
  /\ UNCHANGED <<account, accounts, isLoading, hasError, isFormOpen, busy, listing, unaware>>

Connected(a, l) ==
  /\ a.kind = "connect" /\ a.pc = "done" /\ acting' = acting \ {a}
  /\ isConnecting' = FALSE /\ isFormOpen' = FALSE /\ ReloadAccounts(l)
  /\ UNCHANGED <<account, accounts, busy, started>>

\* The list is not loaded, though the account may have been connected.
ConnectFails(a) ==
  /\ a.kind = "connect" /\ GiveUp(a) /\ isConnecting' = FALSE /\ Unasked(Changing(a))
  /\ UNCHANGED <<account, accounts, isLoading, hasError, isFormOpen, busy, listing, started>>

\* verify() and sendTest(), which check the password; setDefault(), disconnect():
\* by the buttons of an account that is not the one marked as busy
Act(kind, i) ==
  /\ \E b \in accounts : b.id = i
  /\ busy # i /\ busy' = i /\ Submit([pc |-> "sent", number |-> started, kind |-> kind, id |-> i])
  /\ UNCHANGED <<account, accounts, isLoading, hasError, isFormOpen, isConnecting, listing, unaware>>

Acted(a, l) ==
  /\ a.kind # "connect" /\ a.pc = "done" /\ acting' = acting \ {a} /\ busy' = NoOne /\ ReloadAccounts(l)
  /\ UNCHANGED <<account, accounts, isFormOpen, isConnecting, started>>

\* Mutant of ActFails: the list is not loaded after an error.
ActFailsQuietly(a, l) ==
  /\ a.kind # "connect" /\ GiveUp(a) /\ busy' = NoOne
  /\ Unasked(a.kind = "disconnect" /\ Changing(a))
  /\ UNCHANGED <<account, accounts, isLoading, hasError, isFormOpen, isConnecting, listing, started>>

\* "Reload so a newly failed status is reflected in the list", but after
\* disconnect().
ActFails(a, l) ==
  /\ a.kind # "connect" /\ GiveUp(a) /\ busy' = NoOne
  /\ IF a.kind = "disconnect"
     THEN Unasked(Changing(a)) /\ UNCHANGED <<listing, isLoading, hasError>>
     ELSE ReloadAccounts(l)
  /\ UNCHANGED <<account, accounts, isFormOpen, isConnecting, started>>

AccountsNext ==
  \/ \E l \in Listing :
       \/ ServeListing(l) \/ Retry(l) \/ AccountsListed(l) \/ AccountsFail(l)
       \/ \E a \in acting : Connected(a, l) \/ Acted(a, l) \/ ActFails(a, l)
  \/ \E a \in acting : ConnectFails(a) \/ (\E ok \in BOOLEAN : ServeAction(a, ok))
  \/ ToggleForm \/ Unusable
  \/ \E i \in Account : \/ \E makeDefault \in BOOLEAN : Connect(i, makeDefault)
                        \/ \E kind \in {"check", "default", "disconnect"} : Act(kind, i)

AccountsSpec == AccountsInit /\ [][AccountsNext]_accountsVars

-----------------------------------------------------------------------------
(***************************************************************************)
(* Properties.                                                             *)
(***************************************************************************)

(***************************************************************************)
(* The page shows as under way only what is.                               *)
(***************************************************************************)
NothingSpins ==
  /\ Listings = {} => ~isLoading
  /\ Waiting = {} => busy = NoOne /\ ~isConnecting

(***************************************************************************)
(* With nothing under way the page shows the accounts as they are on the   *)
(* server: which one mail goes out from and which one needs attention.     *)
(* Excepted are a list that failed and, until the page loads again, lists  *)
(* asked for together (shown in the order they come) and the changes the   *)
(* page does not ask about: a connection or disconnection of which it      *)
(* heard a failure though it was done, or done halfway; an action it gave  *)
(* up on that is done later; an account the worker finds unusable.         *)
(***************************************************************************)
AccountsAreCurrent ==
  NothingSpins /\ (Listings = {} /\ Waiting = {} /\ ~hasError /\ ~unaware => accounts = account)

=============================================================================
