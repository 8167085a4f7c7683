------------------------------ MODULE PartProofs ------------------------------
(***************************************************************************)
(* Theorems about the screens CallsPage, ComposePage, ContactListPage and  *)
(* AccountsPage, for any numbers of calls, people, contacts, accounts and  *)
(* requests, about the EmailLibrary of the server, and about the           *)
(* ContactTimeline, server and page.  What a screen answers for is true    *)
(* once nothing is under way, or as long as no answer came late; the       *)
(* inductive invariants say what the requests under way still owe it.      *)
(***************************************************************************)
EXTENDS CallsPage, ComposePage, ContactListPage, AccountsPage, EmailLibrary, ContactTimeline,
        FiniteSetTheorems, TLAPS

-----------------------------------------------------------------------------
(***************************************************************************)
(* The calling screen.                                                     *)
(***************************************************************************)
Request ==
  [kind : {"none", "cancel", "refresh"}, call : Nat, live : BOOLEAN, served : BOOLEAN, late : BOOLEAN]

CallsTypeOK ==
  /\ view \in {"loading", "error", "ready"} /\ queue \in Nat /\ position \in Nat
  /\ starting \in {"no", "sent", "placed", "refused"}
  /\ active \in [call : Nat, live : BOOLEAN] /\ polling \in BOOLEAN
  /\ asked \in [Ask -> Request]
  /\ callCount \in Nat /\ over \subseteq Nat /\ givenIds \subseteq Nat /\ misled \in BOOLEAN

\* A request that is not late asks about the live call that is shown; one that
\* found its call over is right, and one that cancelled it has.
AskedInv(a) ==
  LET r == asked[a] IN
  /\ r.kind = "none" => ~r.served
  /\ r.kind # "none" /\ ~r.late => active.live /\ r.call = active.call
  /\ r.served /\ ~r.live => r.call \in over
  /\ r.served /\ r.kind = "cancel" => ~r.live

\* The calls that are on and that the user has not turned away from.
On == (1 .. callCount) \ (over \cup givenIds)

\* The screen knows of each call that is on: it shows it, or awaits its answer.
KnownInv ==
  /\ starting # "no" => ~active.live
  /\ active.live => On \subseteq {active.call}
  /\ ~active.live /\ starting = "placed" => On \subseteq {callCount}
  /\ ~active.live /\ starting # "placed" => On = {}

CallsInv ==
  CallsTypeOK /\ (~misled => LiveIsPolled /\ KnownInv /\ \A a \in Ask : AskedInv(a))

-----------------------------------------------------------------------------
(***************************************************************************)
(* The composer.                                                           *)
(***************************************************************************)
ComposeTypeOK ==
  /\ page \in {"loading", "error", "ready"} /\ contacts \subseteq Person /\ selected \subseteq Person
  /\ draft \in Draft /\ prefill \in {"none", "asked"}
  /\ adding \in [Adding -> [on : BOOLEAN, todo : SUBSET Person, next : SUBSET Person]]
  /\ preview \in PreviewOf /\ glimpses \in [Glimpse -> PreviewOf]
  /\ sending \in {"no", "sent", "served", "refused"} /\ payload \subseteq Person
  /\ stored \subseteq Person /\ picked \subseteq Person /\ requested \in PreviewOf
  /\ crossed \in BOOLEAN /\ raced \in BOOLEAN /\ unheard \subseteq Person

\* Those whom it is right to select: chosen since they were last written to, or
\* written to unheard.
Choosable == picked \cup unheard

\* Whoever is selected is one of them: also those to be selected once their
\* addresses are added, and but for those being written to.
SelectionInv ==
  /\ sending = "served" => selected \ payload \subseteq Choosable
  /\ sending # "served" => selected \subseteq Choosable
  /\ \A s \in Adds : sending = "no" /\ adding[s].next \cup adding[s].todo \subseteq Choosable

\* At most one preview is under way, the one asked for last.
PreviewInv ==
  /\ \A g \in Busy : glimpses[g] = requested /\ \A f \in Busy : f = g
  /\ Busy = {} => preview = requested

ComposeInv == ComposeTypeOK /\ (~raced => SelectionInv) /\ (~crossed => PreviewInv)

-----------------------------------------------------------------------------
(***************************************************************************)
(* The contact list.                                                       *)
(***************************************************************************)

\* A change of ours whose answer is to come, and will reload the list.
ChangeUnderWay == saving = "saved" \/ \E c \in Contact : deleting[c] = "gone"

\* The page under way, or else the page shown, is the one asked for last, as the
\* server has it unless a change of ours is about to ask for it again.
ListInv ==
  /\ saving \in {"no", "sent", "saved", "refused"}
  /\ deleting \in [Contact -> {"no", "sent", "gone", "failed"}]
  /\ fetch.stage \in {"none", "sent", "served"} /\ (fetch.stage = "none" => fetch = NoFetch)
  /\ status = "error" => ~alive
  /\ ~alive => fetch = NoFetch
  /\ alive /\ status = "idle" => fetch = NoFetch
  /\ fetch.stage # "none" => fetch.page.of = query
  /\ alive /\ fetch.stage = "none" /\ status # "idle" => status = "loaded"
  /\ alive /\ ~missed /\ ~ChangeUnderWay =>
       /\ fetch.stage = "served" => fetch.page = FindPaged(query)
       /\ fetch.stage = "none" /\ status # "idle" => resultPage = FindPaged(query)

-----------------------------------------------------------------------------
(***************************************************************************)
(* The page of the e-mail accounts.                                        *)
(***************************************************************************)

Stage == {"sent", "done", "refused", "torn", "abandoned"}

Acting ==
  [pc : Stage, number : Nat, kind : {"connect"}, id : Account, makeDefault : BOOLEAN]
  \cup [pc : Stage, number : Nat, kind : {"check", "default", "disconnect"}, id : Account]

\* Actions that changed the accounts, or may have, and are to be answered.
Unanswered == {a \in acting : Changing(a)}

\* Whether the list that will be shown is read already, and may be old.
CurrentInv ==
  /\ \A l, m \in Listings : l = m
  /\ ~hasError /\ Unanswered = {} =>
       /\ \A l \in Listings : listing[l].pc = "served" => listing[l].items = account
       /\ Listings = {} => accounts = account

\* Whatever is shown as under way is, and unless a change is missed at most one
\* list is, and it or else the page has the accounts as they are, or an action
\* that is to be answered will ask again.
AccountsInv ==
  /\ acting \subseteq Acting /\ started \in Nat /\ listing = [l \in Listing |-> listing[l]]
  /\ busy # NoOne => \E a \in Waiting : a.kind # "connect"
  /\ isConnecting => \E a \in Waiting : a.kind = "connect"
  /\ Listings = {} => ~isLoading
  /\ ~unaware => CurrentInv

-----------------------------------------------------------------------------
(***************************************************************************)
(* The library of attachments and signatures.                              *)
(***************************************************************************)
Keys == {a.key : a \in attachment}

\* Requests that hold a file without a record yet, those that delete one, and
\* those that leave one behind if they end.
Uploading == {h \in Handler : served[h].pc \in {"look", "drop", "create"}}
Deleting == {h \in Handler : served[h].pc \in {"unrecord", "unfile"}}
Owing == {h \in Handler : served[h].pc \in {"look", "drop", "create", "unfile"}}

\* What the steps that change one field of a request, a signature or the message
\* rely on.
ShapeInv ==
  /\ served = [h \in Handler |-> served[h]]
  /\ \A h \in Handler : served[h].pc \in {"look", "unrecord"} => DOMAIN served[h] = {"pc", "bytes", "key"}
  /\ \A h \in Handler : served[h].pc = "clear" => DOMAIN served[h] = {"pc", "id", "isDefault"}
  /\ \A s \in signature : DOMAIN s = {"id", "isDefault"}
  /\ message.state = "loading" => DOMAIN message = {"state", "attached", "signed", "found"}

\* A record has its file, and the file of a request is nobody else's.
KeysInv ==
  /\ Keys \subseteq file /\ file \subseteq given
  /\ \A a, b \in attachment : a.key = b.key => a = b
  /\ \A h \in Uploading : served[h].key \in file \ Keys
  /\ \A h \in Deleting : served[h].key \in given
  /\ \A h \in Deleting : served[h].pc = "unfile" => served[h].key \notin Keys
  /\ \A g \in Uploading, h \in Uploading \cup Deleting : g # h => served[g].key # served[h].key

\* A file without a record is that of a request under way.
OwedInv ==
  "file" \notin faulty =>
    \A k \in file \ Keys : \E h \in Owing : served[h].key = k

\* Requests that will create a signature, as the default or not.
Signing == {h \in Handler : served[h].pc = "sign"}

\* There is one default at most, and one to come if there is none.
SignatureInv ==
  /\ \A s, t \in DefaultSignature : s = t
  /\ \A h \in Handler : served[h].pc = "clear" => served[h].isDefault
  /\ ~bereft /\ "signature" \notin faulty /\ (signature # {} \/ Signing # {}) =>
       DefaultSignature # {} \/ \E h \in Signing : served[h].isDefault

\* Attachments that were in the library when they were looked up: none comes
\* back once it is deleted.
Stale(wanted) == \A a \in wanted : a.key \in given /\ \A h \in Uploading : served[h].key # a.key

\* What the worker did not find, or whose file it did not find, is deleted.
MessageInv ==
  /\ message.state \in {"none", "queued", "loading", "sent", "stuck"}
  /\ \A h \in Handler : served[h].pc \in {"signature", "insert"} => Stale(served[h].attached)
  /\ message.state # "none" => Stale(message.attached)
  /\ message.state \in {"loading", "sent", "stuck"} =>
       message.found \subseteq message.attached /\ message.attached \cap attachment \subseteq message.found
  /\ message.state = "stuck" => ~(message.attached \subseteq attachment)

LibraryInv == ShapeInv /\ KeysInv /\ OwedInv /\ SignatureInv /\ MessageInv

-----------------------------------------------------------------------------
(***************************************************************************)
(* Proofs: the calling screen.                                             *)
(***************************************************************************)

LEMMA OvertakenType == ASSUME CallsTypeOK PROVE Overtaken \in [Ask -> Request]
<1>1. ASSUME NEW a \in Ask
      PROVE  (IF asked[a].kind = "none" THEN Free ELSE [asked[a] EXCEPT !.late = TRUE]) \in Request
  <2>1. asked[a] \in Request
    BY DEF CallsTypeOK
  <2>2. [asked[a] EXCEPT !.late = TRUE] \in Request
    BY <2>1 DEF Request
  <2>3. Free \in Request
    BY DEF Free, Request
  <2>4. QED
    BY <2>2, <2>3
<1>2. QED
  BY <1>1 DEF Overtaken

\* What becomes of a request that is overtaken.
LEMMA OvertakenIs ==
  ASSUME CallsTypeOK, NEW a \in Ask
  PROVE  /\ asked[a].kind = "none" => Overtaken[a] = Free
         /\ asked[a].kind # "none" => Overtaken[a] = [asked[a] EXCEPT !.late = TRUE]
BY DEF Overtaken, CallsTypeOK, Free, Request

LEMMA CallsTypeStep ==
  ASSUME CallsTypeOK, CallsNext
  PROVE  CallsTypeOK'
<1> USE DEF CallsTypeOK
<1>1. ASSUME NEW v \in {"ready", "error"}, LoadCalls(v) PROVE CallsTypeOK'
  BY <1>1 DEF LoadCalls
<1>2. ASSUME NEW n \in 0 .. MaxQueue, BuildQueue(n) PROVE CallsTypeOK'
  BY <1>2, CallsAssumption DEF BuildQueue
<1>3. CASE SkipToNext
  <2>1. givenIds' \subseteq Nat /\ active' \in [call : Nat, live : BOOLEAN]
    BY <1>3 DEF SkipToNext, NoCall
  <2>2. QED
    BY <1>3, <2>1, OvertakenType DEF SkipToNext
<1>4. CASE CallContact
  BY <1>4 DEF CallContact
<1>5. CASE PlaceCall
  BY <1>5 DEF PlaceCall
<1>6. CASE Started
  BY <1>6, OvertakenType DEF Started
<1>7. CASE StartFails
  BY <1>7 DEF StartFails
<1>8. ASSUME NEW a \in Ask, CancelActiveCall(a) PROVE CallsTypeOK'
  BY <1>8 DEF CancelActiveCall, Free, Request
<1>9. ASSUME NEW a \in Ask, Poll(a) PROVE CallsTypeOK'
  <2>1. CASE ~IsCallLive
    BY <1>9, <2>1 DEF Poll
  <2>2. CASE IsCallLive
    <3>1. [Free EXCEPT !.kind = "refresh", !.call = active.call] \in Request
      BY DEF Free, Request
    <3>2. QED
      BY <1>9, <2>2, <3>1 DEF Poll
  <2>3. QED
    BY <2>1, <2>2
<1>10. ASSUME NEW a \in Ask, Serve(a) PROVE CallsTypeOK'
  <2>1. over' \subseteq Nat
    BY <1>10 DEF Serve, Request
  <2>2. [asked[a] EXCEPT !.served = TRUE, !.live = asked[a].call \notin over'] \in Request
    BY DEF Request
  <2>3. asked' \in [Ask -> Request]
    BY <1>10, <2>2 DEF Serve
  <2>4. QED
    BY <1>10, <2>1, <2>3 DEF Serve
<1>11. ASSUME NEW a \in Ask, Answered(a) PROVE CallsTypeOK'
  BY <1>11, OvertakenType DEF Answered, Free, Request
<1>12. ASSUME NEW a \in Ask, AskFails(a) PROVE CallsTypeOK'
  BY <1>12 DEF AskFails, Free, Request
<1>13. ASSUME NEW c \in Call, CallEnds(c) PROVE CallsTypeOK'
  BY <1>13, CallsAssumption DEF CallEnds, Call
<1>14. QED
  BY <1>1, <1>2, <1>3, <1>4, <1>5, <1>6, <1>7, <1>8, <1>9, <1>10, <1>11, <1>12, <1>13, CallsAssumption
     DEF CallsNext

\* Requests that are all late, or gone, say nothing of the call shown.
LEMMA OvertakenAsked ==
  ASSUME CallsTypeOK, NEW a \in Ask, AskedInv(a), asked' = Overtaken, UNCHANGED over
  PROVE  AskedInv(a)'
<1>1. CASE asked[a].kind = "none"
  <2>1. asked'[a] = Free
    BY <1>1, OvertakenIs
  <2>2. QED
    BY <2>1 DEF AskedInv, Free
<1>2. CASE asked[a].kind # "none"
  <2>1. asked'[a] = [asked[a] EXCEPT !.late = TRUE] /\ asked[a] \in Request
    BY <1>2, OvertakenIs DEF CallsTypeOK
  <2>2. /\ asked'[a].kind = asked[a].kind /\ asked'[a].call = asked[a].call /\ asked'[a].late
        /\ asked'[a].live = asked[a].live /\ asked'[a].served = asked[a].served
    BY <2>1 DEF Request
  <2>3. QED
    BY <1>2, <2>2 DEF AskedInv
<1>3. QED
  BY <1>1, <1>2

\* A step that leaves the call shown, and this request, as they are.
LEMMA SameAsked ==
  ASSUME NEW a \in Ask, AskedInv(a), asked'[a] = asked[a], active' = active, over \subseteq over'
  PROVE  AskedInv(a)'
BY DEF AskedInv

LEMMA FreeAsked ==
  ASSUME NEW a \in Ask, asked'[a] = Free
  PROVE  AskedInv(a)'
BY DEF AskedInv, Free

\* Which calls are on, in terms of the bounds of the interval.
LEMMA OnStep ==
  ASSUME CallsTypeOK, callCount' = callCount, over \subseteq over', givenIds \subseteq givenIds'
  PROVE  On' \subseteq On
BY DEF On

LEMMA CallsPropStep ==
  ASSUME CallsInv, CallsNext, ~misled, ~misled'
  PROVE  (LiveIsPolled /\ KnownInv /\ \A a \in Ask : AskedInv(a))'
<1> DEFINE Goal == LiveIsPolled /\ KnownInv /\ \A a \in Ask : AskedInv(a)
<1>0. CallsTypeOK /\ LiveIsPolled /\ KnownInv /\ \A a \in Ask : AskedInv(a)
  BY DEF CallsInv
<1>1. ASSUME NEW v \in {"ready", "error"}, LoadCalls(v) PROVE Goal'
  <2>1. \A a \in Ask : AskedInv(a)'
    BY <1>0, <1>1, SameAsked DEF LoadCalls
  <2>2. QED
    BY <1>1, <1>0, <2>1 DEF LoadCalls, LiveIsPolled, KnownInv, On, IsCallLive
<1>2. ASSUME NEW n \in 0 .. MaxQueue, BuildQueue(n) PROVE Goal'
  <2>1. \A a \in Ask : AskedInv(a)'
    BY <1>0, <1>2, SameAsked DEF BuildQueue
  <2>2. QED
    BY <1>2, <1>0, <2>1 DEF BuildQueue, LiveIsPolled, KnownInv, On, IsCallLive
<1>3. CASE SkipToNext
  <2>1. \A a \in Ask : AskedInv(a)'
    BY <1>0, <1>3, OvertakenAsked DEF SkipToNext
  <2>2. ~active'.live /\ starting' = starting /\ callCount' = callCount /\ over' = over
    BY <1>3 DEF SkipToNext, NoCall
  <2>3. CASE active.live
    <3>1. givenIds' = givenIds \cup {active.call} /\ On \subseteq {active.call}
      BY <1>0, <1>3, <2>3 DEF SkipToNext, KnownInv
    <3>2. On' = {} /\ starting = "no"
      BY <1>0, <2>2, <2>3, <3>1 DEF On, KnownInv
    <3>3. QED
      BY <2>1, <2>2, <3>2 DEF LiveIsPolled, KnownInv, IsCallLive
  <2>4. CASE ~active.live
    <3>1. On' = On
      BY <1>3, <2>2, <2>4 DEF SkipToNext, On
    <3>2. QED
      BY <1>0, <2>1, <2>2, <2>4, <3>1 DEF LiveIsPolled, KnownInv, IsCallLive
  <2>5. QED
    BY <2>3, <2>4
<1>4. CASE CallContact
  <2>1. \A a \in Ask : AskedInv(a)'
    BY <1>0, <1>4, SameAsked DEF CallContact
  <2>2. QED
    BY <1>4, <1>0, <2>1 DEF CallContact, CanStartCall, LiveIsPolled, KnownInv, On, IsCallLive
<1>5. CASE PlaceCall
  <2>1. \A a \in Ask : AskedInv(a)'
    BY <1>0, <1>5, SameAsked DEF PlaceCall
  <2>2. ~active'.live /\ starting = "sent" /\ On = {}
    BY <1>0, <1>5 DEF PlaceCall, KnownInv
  <2>3. starting' # "no" /\ starting' \in {"placed", "refused"}
    BY <1>5 DEF PlaceCall
  <2>4. CASE starting' = "placed"
    <3>1. callCount' = callCount + 1 /\ over' = over /\ givenIds' = givenIds
      BY <1>5, <2>4 DEF PlaceCall
    <3>2. On' \subseteq {callCount'}
      BY <1>0, <2>2, <3>1 DEF On, CallsTypeOK
    <3>3. QED
      BY <2>1, <2>2, <2>4, <3>2 DEF LiveIsPolled, KnownInv, IsCallLive
  <2>5. CASE starting' = "refused"
    <3>1. On' = {}
      BY <1>5, <2>2, <2>5 DEF PlaceCall, On
    <3>2. QED
      BY <2>1, <2>2, <2>5, <3>1 DEF LiveIsPolled, KnownInv, IsCallLive
  <2>6. QED
    BY <2>3, <2>4, <2>5
<1>6. CASE Started
  <2>1. \A a \in Ask : AskedInv(a)'
    BY <1>0, <1>6, OvertakenAsked DEF Started
  <2>2. /\ active'.live /\ active'.call = callCount /\ starting' = "no" /\ polling'
        /\ starting = "placed" /\ On' = On
    BY <1>6 DEF Started, On
  <2>3. On \subseteq {callCount}
    BY <1>0, <2>2 DEF KnownInv
  <2>4. QED
    BY <2>1, <2>2, <2>3 DEF LiveIsPolled, KnownInv, IsCallLive
<1>7. CASE StartFails
  <2>1. \A a \in Ask : AskedInv(a)'
    BY <1>0, <1>7, SameAsked DEF StartFails
  <2>2. ~active'.live /\ starting' = "no"
    BY <1>0, <1>7 DEF StartFails, KnownInv
  <2>3. On' = {}
    <3>1. CASE starting = "placed"
      BY <1>0, <1>7, <3>1 DEF StartFails, KnownInv, On
    <3>2. CASE starting = "refused"
      BY <1>0, <1>7, <3>2 DEF StartFails, KnownInv, On
    <3>3. QED
      BY <1>7, <3>1, <3>2 DEF StartFails
  <2>4. QED
    BY <2>1, <2>2, <2>3 DEF LiveIsPolled, KnownInv, IsCallLive
<1>8. ASSUME NEW a \in Ask, CancelActiveCall(a) PROVE Goal'
  <2>1. ASSUME NEW b \in Ask, b # a PROVE AskedInv(b)'
    BY <1>0, <1>8, <2>1, SameAsked DEF CancelActiveCall, CallsTypeOK
  <2>2. AskedInv(a)'
    BY <1>0, <1>8 DEF CancelActiveCall, CallsTypeOK, AskedInv, Free, IsCallLive
  <2>3. QED
    BY <1>8, <1>0, <2>1, <2>2 DEF CancelActiveCall, LiveIsPolled, KnownInv, On, IsCallLive
<1>9. ASSUME NEW a \in Ask, Poll(a) PROVE Goal'
  <2>1. CASE ~IsCallLive
    <3>1. \A b \in Ask : AskedInv(b)'
      BY <1>0, <1>9, <2>1, SameAsked DEF Poll
    <3>2. QED
      BY <1>9, <1>0, <2>1, <3>1 DEF Poll, LiveIsPolled, KnownInv, On, IsCallLive
  <2>2. CASE IsCallLive
    <3>1. ASSUME NEW b \in Ask, b # a PROVE AskedInv(b)'
      BY <1>0, <1>9, <2>2, <3>1, SameAsked DEF Poll, CallsTypeOK
    <3>2. AskedInv(a)'
      <4>1. asked'[a] = [Free EXCEPT !.kind = "refresh", !.call = active.call] /\ active' = active
        BY <1>0, <1>9, <2>2 DEF Poll, CallsTypeOK
      <4>2. asked'[a].kind = "refresh" /\ asked'[a].call = active.call /\ ~asked'[a].served
        BY <4>1 DEF Free
      <4>3. QED
        BY <2>2, <4>1, <4>2 DEF AskedInv, IsCallLive
    <3>3. QED
      BY <1>9, <1>0, <2>2, <3>1, <3>2 DEF Poll, LiveIsPolled, KnownInv, On, IsCallLive
  <2>3. QED
    BY <2>1, <2>2
<1>10. ASSUME NEW a \in Ask, Serve(a) PROVE Goal'
  <2>1. over \subseteq over' /\ active' = active
    BY <1>10 DEF Serve
  <2>2. ASSUME NEW b \in Ask, b # a PROVE AskedInv(b)'
    BY <1>0, <1>10, <2>1, <2>2, SameAsked DEF Serve, CallsTypeOK
  <2>3. AskedInv(a)'
    <3>1. asked[a] \in Request /\ asked'[a] = [asked[a] EXCEPT !.served = TRUE, !.live = asked[a].call \notin over']
      BY <1>0, <1>10 DEF Serve, CallsTypeOK
    <3>2. /\ asked'[a].kind = asked[a].kind /\ asked'[a].call = asked[a].call
          /\ asked'[a].late = asked[a].late /\ asked'[a].live = (asked[a].call \notin over')
      BY <3>1 DEF Request
    <3>3. asked[a].kind # "none" /\ (asked[a].kind = "cancel" => asked[a].call \in over')
      BY <1>10 DEF Serve
    <3>4. QED
      BY <1>0, <2>1, <3>2, <3>3 DEF AskedInv
  <2>4. On' \subseteq On
    BY <1>0, <1>10, <2>1, OnStep DEF Serve
  <2>5. QED
    BY <1>10, <1>0, <2>2, <2>3, <2>4 DEF Serve, LiveIsPolled, KnownInv, IsCallLive
<1>11. ASSUME NEW a \in Ask, Answered(a) PROVE Goal'
  <2>1. /\ asked[a].served /\ active' = [call |-> asked[a].call, live |-> asked[a].live]
        /\ ~(asked[a].late /\ active' # active) /\ On' = On /\ over' = over
    BY <1>11 DEF Answered, On
  <2>2. asked[a].kind # "none"
    BY <1>0, <2>1 DEF AskedInv
  <2>3. CASE active' = active
    <3>1. active.live => asked[a].live /\ asked[a].kind # "cancel"
      BY <1>0, <2>1, <2>3 DEF AskedInv
    <3>2. asked[a] \in Request
      BY <1>0 DEF CallsTypeOK
    <3>3. active.live => asked[a].kind = "refresh"
      BY <2>2, <3>1, <3>2 DEF Request
    <3>4. LiveIsPolled'
      BY <1>0, <1>11, <2>3, <3>1, <3>3 DEF Answered, LiveIsPolled, IsCallLive
    <3>5. ASSUME NEW b \in Ask, b # a PROVE AskedInv(b)'
      BY <1>0, <1>11, <2>3, <3>5, SameAsked DEF Answered, CallsTypeOK
    <3>6. AskedInv(a)'
      BY <1>0, <1>11, <2>3, FreeAsked DEF Answered, CallsTypeOK
    <3>7. QED
      BY <1>0, <1>11, <2>1, <2>3, <3>4, <3>5, <3>6 DEF Answered, KnownInv
  <2>4. CASE active' # active
    <3>1. ~asked[a].late /\ active.live /\ asked[a].call = active.call
      BY <1>0, <2>1, <2>2, <2>4 DEF AskedInv, CallsTypeOK, Request
    <3>2. ~active'.live
      BY <1>0, <2>1, <2>4, <3>1 DEF CallsTypeOK, Request
    <3>3. active.call \in over
      BY <1>0, <2>1, <3>1, <3>2 DEF AskedInv
    <3>4. On' = {} /\ starting' = "no"
      BY <1>0, <1>11, <2>1, <3>1, <3>3 DEF KnownInv, On, Answered
    <3>5. ASSUME NEW b \in Ask, b # a PROVE AskedInv(b)'
      <4>1. asked'[b] = Overtaken[b]
        BY <1>11, <2>4, <3>5, OvertakenType, <1>0 DEF Answered
      <4>2. CASE asked[b].kind = "none"
        <5>1. asked'[b] = Free
          BY <1>0, <4>1, <4>2, OvertakenIs
        <5>2. QED
          BY <5>1, FreeAsked
      <4>3. CASE asked[b].kind # "none"
        <5>1. asked'[b] = [asked[b] EXCEPT !.late = TRUE] /\ asked[b] \in Request
          BY <1>0, <4>1, <4>3, OvertakenIs DEF CallsTypeOK
        <5>2. /\ asked'[b].kind = asked[b].kind /\ asked'[b].call = asked[b].call /\ asked'[b].late
              /\ asked'[b].live = asked[b].live /\ asked'[b].served = asked[b].served
          BY <5>1 DEF Request
        <5>3. QED
          BY <1>0, <2>1, <4>3, <5>2 DEF AskedInv
      <4>4. QED
        BY <4>2, <4>3
    <3>6. AskedInv(a)'
      BY <1>0, <1>11, <2>4, FreeAsked, OvertakenType DEF Answered
    <3>7. QED
      BY <3>2, <3>4, <3>5, <3>6 DEF LiveIsPolled, KnownInv, IsCallLive
  <2>5. QED
    BY <2>3, <2>4
<1>12. ASSUME NEW a \in Ask, AskFails(a) PROVE Goal'
  <2>1. ASSUME NEW b \in Ask, b # a PROVE AskedInv(b)'
    BY <1>0, <1>12, <2>1, SameAsked DEF AskFails, CallsTypeOK
  <2>2. AskedInv(a)'
    BY <1>0, <1>12, FreeAsked DEF AskFails, CallsTypeOK
  <2>3. QED
    BY <1>12, <1>0, <2>1, <2>2 DEF AskFails, LiveIsPolled, KnownInv, On, IsCallLive
<1>13. ASSUME NEW c \in Call, CallEnds(c) PROVE Goal'
  <2>1. \A a \in Ask : AskedInv(a)'
    BY <1>0, <1>13, SameAsked DEF CallEnds
  <2>2. On' \subseteq On
    BY <1>0, <1>13, OnStep DEF CallEnds
  <2>3. QED
    BY <1>13, <1>0, <2>1, <2>2 DEF CallEnds, LiveIsPolled, KnownInv, IsCallLive
<1>14. QED
  BY <1>1, <1>2, <1>3, <1>4, <1>5, <1>6, <1>7, <1>8, <1>9, <1>10, <1>11, <1>12, <1>13 DEF CallsNext

LEMMA CallsInitInv == CallsInit => CallsInv
<1> SUFFICES ASSUME CallsInit PROVE CallsInv
  OBVIOUS
<1>1. CallsTypeOK
  BY DEF CallsInit, CallsTypeOK, NoCall, Free, Request
<1>2. LiveIsPolled
  BY DEF CallsInit, LiveIsPolled, IsCallLive, NoCall
<1>3. KnownInv
  BY DEF CallsInit, KnownInv, NoCall, On
<1>4. \A a \in Ask : AskedInv(a)
  BY DEF CallsInit, AskedInv, Free
<1>5. QED
  BY <1>1, <1>2, <1>3, <1>4 DEF CallsInv

LEMMA CallsStep == CallsInv /\ [CallsNext]_callsVars => CallsInv'
<1> SUFFICES ASSUME CallsInv, [CallsNext]_callsVars PROVE CallsInv'
  OBVIOUS
<1>1. CASE CallsNext
  <2>1. CallsTypeOK'
    BY <1>1, CallsTypeStep DEF CallsInv
  <2>2. CASE misled'
    BY <2>1, <2>2 DEF CallsInv
  <2>3. CASE ~misled'
    <3>1. ~misled
      BY <1>1 DEF CallsNext
    <3>2. QED
      BY <1>1, <2>1, <2>3, <3>1, CallsPropStep DEF CallsInv
  <2>4. QED
    BY <2>2, <2>3
<1>2. CASE UNCHANGED callsVars
  BY <1>2 DEF callsVars, CallsInv, CallsTypeOK, LiveIsPolled, IsCallLive, KnownInv, On, AskedInv
<1>3. QED
  BY <1>1, <1>2

(***************************************************************************)
(* The screen follows the one call that is on: a call shown as live is     *)
(* polled, and the user is on one call at a time, for any number of calls  *)
(* and of requests under way, as long as no answer was late.               *)
(***************************************************************************)
THEOREM CallsAreFollowed == CallsSpec => []CallIsFollowed
<1>1. ASSUME CallsInv, ~misled PROVE LiveIsPolled /\ Cardinality(On) <= 1
  <2>1. LiveIsPolled /\ KnownInv
    BY <1>1 DEF CallsInv
  <2>2. PICK c : On \subseteq {c}
    BY <2>1 DEF KnownInv
  <2>3. IsFiniteSet({c}) /\ Cardinality({c}) = 1
    BY FS_Singleton
  <2>4. Cardinality(On) <= Cardinality({c})
    BY <2>2, <2>3, FS_Subset
  <2>5. QED
    BY <2>1, <2>3, <2>4
<1>2. (~misled => Cardinality(On) <= 1) => OneCallAtATime
  BY DEF OneCallAtATime, On
<1>3. CallsInv => CallIsFollowed
  BY <1>1, <1>2 DEF CallIsFollowed, LiveIsPolledInOrder
<1>4. QED
  BY <1>3, CallsInitInv, CallsStep, PTL DEF CallsSpec

-----------------------------------------------------------------------------
(***************************************************************************)
(* Proofs: the composer.                                                   *)
(***************************************************************************)

\* A preview that is asked for is one.
LEMMA APreview ==
  ASSUME NEW p \in Person, NEW d \in Draft
  PROVE  [who |-> p, says |-> d] \in PreviewOf /\ [who |-> p, says |-> d] # NoPreview
BY ComposeAssumption DEF PreviewOf

\* What the choice of the recipients leaves of the types, and of the selection.
LEMMA ChooseType ==
  ASSUME ComposeTypeOK, NEW chosen \in SUBSET Person, Choose(chosen)
  PROVE  selected' \subseteq Person /\ picked' \subseteq Person /\ raced' \in BOOLEAN /\ unheard' \subseteq Person
BY DEF ComposeTypeOK, Choose

LEMMA ChooseSelection ==
  ASSUME ComposeTypeOK, SelectionInv, NEW chosen \in SUBSET Person, Choose(chosen), ~raced',
         sending' = sending, payload' = payload, adding' = adding
  PROVE  SelectionInv'
<1>1. Adds = {} /\ Adds' = {}
  BY DEF Choose, Adds
<1>2. chosen \subseteq Choosable' \/ sending = "served"
  BY DEF SelectionInv, Choose, Choosable
<1>3. sending = "served" => chosen \ payload \subseteq Choosable'
  BY DEF SelectionInv, Choose, Choosable
<1>4. QED
  BY <1>1, <1>2, <1>3 DEF SelectionInv, Choose

LEMMA AskPreviewType ==
  ASSUME ComposeTypeOK, NEW g \in Glimpse, NEW chosen \in SUBSET Person, AskPreview(g, chosen)
  PROVE  /\ preview' \in PreviewOf /\ requested' \in PreviewOf /\ crossed' \in BOOLEAN
         /\ glimpses' \in [Glimpse -> PreviewOf]
<1>1. NoPreview \in PreviewOf
  BY DEF PreviewOf
<1>2. CASE chosen = {}
  BY <1>1, <1>2 DEF AskPreview, ComposeTypeOK
<1>3. CASE chosen # {}
  <2>1. PICK p \in chosen : requested' = [who |-> p, says |-> draft]
    BY <1>3 DEF AskPreview
  <2>2. requested' \in PreviewOf
    BY <2>1, APreview DEF ComposeTypeOK
  <2>3. QED
    BY <1>3, <2>2 DEF AskPreview, ComposeTypeOK
<1>4. QED
  BY <1>2, <1>3

LEMMA AskPreviewStep ==
  ASSUME ComposeTypeOK, PreviewInv, NEW g \in Glimpse, NEW chosen \in SUBSET Person,
         AskPreview(g, chosen), ~crossed'
  PROVE  PreviewInv'
<1>1. Busy = {}
  BY DEF AskPreview
<1>2. CASE chosen = {}
  BY <1>1, <1>2 DEF AskPreview, PreviewInv, Busy
<1>3. CASE chosen # {}
  <2>1. PICK p \in chosen : requested' = [who |-> p, says |-> draft]
    BY <1>3 DEF AskPreview
  <2>2. requested' # NoPreview
    BY <2>1, APreview DEF ComposeTypeOK
  <2>3. glimpses' = [glimpses EXCEPT ![g] = requested']
    BY <1>3 DEF AskPreview
  <2>4. Busy' = {g} /\ glimpses'[g] = requested'
    BY <1>1, <2>2, <2>3 DEF Busy, ComposeTypeOK
  <2>5. QED
    BY <2>4 DEF PreviewInv
<1>4. QED
  BY <1>2, <1>3

Additions == [on : BOOLEAN, todo : SUBSET Person, next : SUBSET Person]

\* The recipients that are being added, when the next address is dealt with.
LEMMA AddNextAdding ==
  ASSUME ComposeTypeOK, NEW s \in Adding, NEW p \in Person, NEW o \in {"added", "failed", "aborted"},
         AddNext(s, p, o)
  PROVE  /\ adding' \in [Adding -> Additions]
         /\ Adds' \subseteq Adds
         /\ \A k \in Adds' : adding'[k].next \cup adding'[k].todo \subseteq adding[k].next \cup adding[k].todo
<1>0. p \in adding[s].todo /\ adding \in [Adding -> Additions]
  BY DEF AddNext, ComposeTypeOK, Additions
<1>1. PICK x \in Additions :
        /\ adding' = [adding EXCEPT ![s] = x]
        /\ x.on => adding[s].on /\ x.next \cup x.todo \subseteq adding[s].next \cup adding[s].todo
  <2>1. CASE o = "added"
    <3> DEFINE x == [adding[s] EXCEPT !.todo = @ \ {p}, !.next = @ \cup {p}]
    <3>1. adding' = [adding EXCEPT ![s] = x]
      BY <1>0, <2>1 DEF AddNext, Additions
    <3>2. x \in Additions /\ x.on = adding[s].on /\ x.next = adding[s].next \cup {p} /\ x.todo = adding[s].todo \ {p}
      BY <1>0 DEF Additions
    <3>3. QED
      BY <1>0, <3>1, <3>2
  <2>2. CASE o = "failed"
    <3> DEFINE x == [adding[s] EXCEPT !.todo = @ \ {p}]
    <3>1. adding' = [adding EXCEPT ![s] = x]
      BY <1>0, <2>2 DEF AddNext, Additions
    <3>2. x \in Additions /\ x.on = adding[s].on /\ x.next = adding[s].next /\ x.todo = adding[s].todo \ {p}
      BY <1>0 DEF Additions
    <3>3. QED
      BY <1>0, <3>1, <3>2
  <2>3. CASE o = "aborted"
    <3>1. adding' = [adding EXCEPT ![s] = NotAdding]
      BY <2>3 DEF AddNext
    <3>2. NotAdding \in Additions /\ ~NotAdding.on
      BY DEF NotAdding, Additions
    <3>3. QED
      BY <3>1, <3>2
  <2>4. QED
    BY <2>1, <2>2, <2>3
<1>2. adding' \in [Adding -> Additions]
  BY <1>0, <1>1
<1>3. \A k \in Adding : k # s => adding'[k] = adding[k]
  BY <1>0, <1>1
<1>4. adding'[s] = x
  BY <1>0, <1>1
<1>5. QED
  BY <1>1, <1>2, <1>3, <1>4 DEF Adds

LEMMA ComposeTypeStep ==
  ASSUME ComposeTypeOK, ComposeNext
  PROVE  ComposeTypeOK'
<1> USE DEF ComposeTypeOK
<1>0. NoPreview \in PreviewOf
  BY DEF PreviewOf
<1>1. ASSUME NEW o \in {"ready", "error"}, NEW f \in BOOLEAN, LoadComposer(o, f) PROVE ComposeTypeOK'
  BY <1>1 DEF LoadComposer
<1>2. ASSUME NEW p \in Person, NEW d \in Draft, ApplyFollowUp(p, d) PROVE ComposeTypeOK'
  BY <1>2, ChooseType DEF ApplyFollowUp
<1>3. ASSUME NEW s \in SUBSET Person, Select(s) PROVE ComposeTypeOK'
  BY <1>3, ChooseType DEF Select
<1>4. ASSUME NEW s \in Adding, NEW people \in SUBSET Person, AddRecipients(s, people) PROVE ComposeTypeOK'
  <2>1. [on |-> TRUE, todo |-> people \ contacts, next |-> selected \cup (people \cap contacts)] \in
          [on : BOOLEAN, todo : SUBSET Person, next : SUBSET Person]
    OBVIOUS
  <2>2. adding' \in [Adding -> [on : BOOLEAN, todo : SUBSET Person, next : SUBSET Person]]
    BY <1>4, <2>1 DEF AddRecipients
  <2>3. picked' \subseteq Person /\ raced' \in BOOLEAN
    BY <1>4 DEF AddRecipients
  <2>4. QED
    BY <1>4, <2>2, <2>3 DEF AddRecipients
<1>5. ASSUME NEW d \in Draft, Write(d) PROVE ComposeTypeOK'
  BY <1>5 DEF Write
<1>6. ASSUME NEW g \in Glimpse, RefreshPreview(g) PROVE ComposeTypeOK'
  <2>1. selected \cap contacts \in SUBSET Person
    OBVIOUS
  <2>2. QED
    BY <1>6, <2>1, AskPreviewType DEF RefreshPreview
<1>7. ASSUME NEW g \in Glimpse, PreviewAnswered(g) PROVE ComposeTypeOK'
  BY <1>0, <1>7 DEF PreviewAnswered
<1>8. ASSUME NEW s \in Adding, NEW g \in Glimpse, AddDone(s, g) PROVE ComposeTypeOK'
  <2>1. adding[s].next \cap contacts \in SUBSET Person /\ adding[s].next \in SUBSET Person
    OBVIOUS
  <2>2. /\ preview' \in PreviewOf /\ requested' \in PreviewOf /\ crossed' \in BOOLEAN
        /\ glimpses' \in [Glimpse -> PreviewOf]
    BY <1>8, <2>1, AskPreviewType DEF AddDone
  <2>3. QED
    BY <1>8, <2>1, <2>2 DEF AddDone, NotAdding
<1>9. ASSUME NEW s \in Adding, NEW p \in Person, NEW o \in {"added", "failed", "aborted"}, AddNext(s, p, o)
      PROVE ComposeTypeOK'
  <2>1. stored' \subseteq Person /\ contacts' \subseteq Person
    BY <1>9 DEF AddNext
  <2>2. adding' \in [Adding -> [on : BOOLEAN, todo : SUBSET Person, next : SUBSET Person]]
    BY <1>9, AddNextAdding DEF Additions
  <2>3. QED
    BY <1>9, <2>1, <2>2 DEF AddNext
<1>10. CASE Send
  BY <1>10 DEF Send
<1>11. CASE Compose
  BY <1>11 DEF Compose
<1>12. CASE Sent
  BY <1>0, <1>12 DEF Sent
<1>13. CASE SendFails
  BY <1>13 DEF SendFails
<1>14. QED
  BY <1>1, <1>2, <1>3, <1>4, <1>5, <1>6, <1>7, <1>8, <1>9, <1>10, <1>11, <1>12, <1>13 DEF ComposeNext

\* A selection from which only the page's other state changes.
LEMMA SameSelection ==
  ASSUME SelectionInv, selected' = selected, picked' = picked, unheard' = unheard, sending' = sending,
         payload' = payload, adding' = adding
  PROVE  SelectionInv'
BY DEF SelectionInv, Choosable, Adds

LEMMA SelectionStep ==
  ASSUME ComposeTypeOK, SelectionInv, ComposeNext, ~raced'
  PROVE  SelectionInv'
<1>1. ASSUME NEW o \in {"ready", "error"}, NEW f \in BOOLEAN, LoadComposer(o, f) PROVE SelectionInv'
  BY <1>1, SameSelection DEF LoadComposer
<1>2. ASSUME NEW p \in Person, NEW d \in Draft, ApplyFollowUp(p, d) PROVE SelectionInv'
  <2>1. sending' = sending /\ payload' = payload /\ adding' = adding
    BY <1>2 DEF ApplyFollowUp
  <2>2. CASE Choose({p})
    BY <2>1, <2>2, ChooseSelection
  <2>3. CASE UNCHANGED <<selected, picked, unheard>>
    BY <2>1, <2>3, SameSelection
  <2>4. QED
    BY <1>2, <2>2, <2>3 DEF ApplyFollowUp
<1>3. ASSUME NEW s \in SUBSET Person, Select(s) PROVE SelectionInv'
  BY <1>3, ChooseSelection DEF Select
<1>4. ASSUME NEW s \in Adding, NEW people \in SUBSET Person, AddRecipients(s, people) PROVE SelectionInv'
  <2> DEFINE x == [on |-> TRUE, todo |-> people \ contacts, next |-> selected \cup (people \cap contacts)]
  <2>1. adding' = [adding EXCEPT ![s] = x] /\ sending = "no" /\ sending' = sending /\ selected' = selected
    BY <1>4 DEF AddRecipients
  <2>2. Choosable \subseteq Choosable' /\ x.next \cup x.todo \subseteq Choosable'
    BY <1>4, <2>1 DEF AddRecipients, SelectionInv, Choosable
  <2>3. adding'[s] = x /\ \A k \in Adding \ {s} : adding'[k] = adding[k]
    BY <2>1 DEF ComposeTypeOK
  <2>4. \A k \in Adds' : k = s \/ (k \in Adds /\ adding'[k] = adding[k])
    BY <2>3 DEF Adds
  <2>5. QED
    BY <2>1, <2>2, <2>3, <2>4 DEF SelectionInv
<1>5. ASSUME NEW d \in Draft, Write(d) PROVE SelectionInv'
  BY <1>5, SameSelection DEF Write
<1>6. ASSUME NEW g \in Glimpse, RefreshPreview(g) PROVE SelectionInv'
  BY <1>6, SameSelection DEF RefreshPreview
<1>7. ASSUME NEW g \in Glimpse, PreviewAnswered(g) PROVE SelectionInv'
  BY <1>7, SameSelection DEF PreviewAnswered
<1>8. ASSUME NEW s \in Adding, NEW g \in Glimpse, AddDone(s, g) PROVE SelectionInv'
  <2>1. /\ s \in Adds /\ selected' = adding[s].next /\ adding' = [adding EXCEPT ![s] = NotAdding]
        /\ sending' = sending /\ Choosable' = Choosable
    BY <1>8 DEF AddDone, Adds, Choosable
  <2>2. adding'[s] = NotAdding /\ \A k \in Adding \ {s} : adding'[k] = adding[k]
    BY <2>1 DEF ComposeTypeOK
  <2>3. \A k \in Adds' : k \in Adds /\ adding'[k] = adding[k]
    BY <2>2 DEF Adds, NotAdding
  <2>4. QED
    BY <2>1, <2>3 DEF SelectionInv
<1>9. ASSUME NEW s \in Adding, NEW p \in Person, NEW o \in {"added", "failed", "aborted"}, AddNext(s, p, o)
      PROVE SelectionInv'
  <2>1. selected' = selected /\ Choosable' = Choosable /\ sending' = sending /\ payload' = payload
    BY <1>9 DEF AddNext, Choosable
  <2>2. /\ Adds' \subseteq Adds
        /\ \A k \in Adds' : adding'[k].next \cup adding'[k].todo \subseteq adding[k].next \cup adding[k].todo
    BY <1>9, AddNextAdding
  <2>3. QED
    BY <2>1, <2>2 DEF SelectionInv
<1>10. CASE Send
  <2>1. Adds = {} /\ Adds' = {}
    BY <1>10 DEF Send, Adds
  <2>2. selected' = selected /\ Choosable' = Choosable /\ sending = "no" /\ sending' = "sent"
    BY <1>10 DEF Send, Choosable, CanSend
  <2>3. QED
    BY <2>1, <2>2 DEF SelectionInv
<1>11. CASE Compose
  <2>1. Adds = {} /\ Adds' = {} /\ selected' = selected /\ payload' = payload /\ selected \subseteq Choosable
    BY <1>11 DEF Compose, Adds, SelectionInv
  <2>2. CASE sending' = "served" /\ picked' = picked \ payload /\ UNCHANGED unheard
    BY <2>1, <2>2 DEF SelectionInv, Choosable
  <2>3. CASE \E reached \in SUBSET payload :
               /\ sending' = "refused" /\ picked' = picked \ reached
               /\ unheard' = unheard \cup (reached \cap selected)
    BY <2>1, <2>3 DEF SelectionInv, Choosable
  <2>4. QED
    BY <1>11, <2>2, <2>3 DEF Compose
<1>12. CASE Sent
  BY <1>12 DEF Sent, SelectionInv, Adds
<1>13. CASE SendFails
  <2>1. Adds = {} /\ Adds' = {} /\ selected' = selected /\ picked' = picked /\ sending' = "no"
    BY <1>13 DEF SendFails, Adds, SelectionInv
  <2>2. selected \subseteq Choosable'
    BY <1>13 DEF SendFails, SelectionInv, Choosable
  <2>3. QED
    BY <2>1, <2>2 DEF SelectionInv
<1>14. QED
  BY <1>1, <1>2, <1>3, <1>4, <1>5, <1>6, <1>7, <1>8, <1>9, <1>10, <1>11, <1>12, <1>13 DEF ComposeNext

LEMMA SamePreview ==
  ASSUME PreviewInv, preview' = preview, requested' = requested, glimpses' = glimpses
  PROVE  PreviewInv'
BY DEF PreviewInv, Busy

LEMMA PreviewStep ==
  ASSUME ComposeTypeOK, PreviewInv, ComposeNext, ~crossed'
  PROVE  PreviewInv'
<1>1. ASSUME NEW o \in {"ready", "error"}, NEW f \in BOOLEAN, LoadComposer(o, f) PROVE PreviewInv'
  BY <1>1, SamePreview DEF LoadComposer
<1>2. ASSUME NEW p \in Person, NEW d \in Draft, ApplyFollowUp(p, d) PROVE PreviewInv'
  BY <1>2, SamePreview DEF ApplyFollowUp
<1>3. ASSUME NEW s \in SUBSET Person, Select(s) PROVE PreviewInv'
  BY <1>3, SamePreview DEF Select
<1>4. ASSUME NEW s \in Adding, NEW people \in SUBSET Person, AddRecipients(s, people) PROVE PreviewInv'
  BY <1>4, SamePreview DEF AddRecipients
<1>5. ASSUME NEW d \in Draft, Write(d) PROVE PreviewInv'
  BY <1>5, SamePreview DEF Write
<1>6. ASSUME NEW g \in Glimpse, RefreshPreview(g) PROVE PreviewInv'
  <2>1. selected \cap contacts \in SUBSET Person
    BY DEF ComposeTypeOK
  <2>2. QED
    BY <1>6, <2>1, AskPreviewStep DEF RefreshPreview
<1>7. ASSUME NEW g \in Glimpse, PreviewAnswered(g) PROVE PreviewInv'
  <2>1. g \in Busy /\ glimpses' = [glimpses EXCEPT ![g] = NoPreview]
    BY <1>7 DEF PreviewAnswered, Busy
  <2>2. glimpses[g] = requested /\ \A f \in Busy : f = g
    BY <2>1 DEF PreviewInv
  <2>3. Busy' = {}
    BY <2>1, <2>2 DEF Busy, ComposeTypeOK
  <2>4. preview' = requested'
    BY <1>7, <2>2 DEF PreviewAnswered
  <2>5. QED
    BY <2>3, <2>4 DEF PreviewInv
<1>8. ASSUME NEW s \in Adding, NEW g \in Glimpse, AddDone(s, g) PROVE PreviewInv'
  <2>1. adding[s].next \cap contacts \in SUBSET Person
    BY DEF ComposeTypeOK
  <2>2. QED
    BY <1>8, <2>1, AskPreviewStep, SamePreview DEF AddDone
<1>9. ASSUME NEW s \in Adding, NEW p \in Person, NEW o \in {"added", "failed", "aborted"}, AddNext(s, p, o)
      PROVE PreviewInv'
  BY <1>9, SamePreview DEF AddNext
<1>10. CASE Send
  BY <1>10, SamePreview DEF Send
<1>11. CASE Compose
  BY <1>11, SamePreview DEF Compose
<1>12. CASE Sent
  BY <1>12 DEF Sent, PreviewInv, Busy
<1>13. CASE SendFails
  BY <1>13, SamePreview DEF SendFails
<1>14. QED
  BY <1>1, <1>2, <1>3, <1>4, <1>5, <1>6, <1>7, <1>8, <1>9, <1>10, <1>11, <1>12, <1>13 DEF ComposeNext

\* What the composer once did is not forgotten.
LEMMA ComposeHistory ==
  ASSUME ComposeTypeOK, ComposeNext
  PROVE  (raced => raced') /\ (crossed => crossed')
<1> DEFINE Kept == (raced => raced') /\ (crossed => crossed')
<1> USE DEF ComposeTypeOK
<1>1. ASSUME NEW o \in {"ready", "error"}, NEW f \in BOOLEAN, LoadComposer(o, f) PROVE Kept
  BY <1>1 DEF LoadComposer
<1>2. ASSUME NEW p \in Person, NEW d \in Draft, ApplyFollowUp(p, d) PROVE Kept
  BY <1>2 DEF ApplyFollowUp, Choose
<1>3. ASSUME NEW s \in SUBSET Person, Select(s) PROVE Kept
  BY <1>3 DEF Select, Choose
<1>4. ASSUME NEW s \in Adding, NEW people \in SUBSET Person, AddRecipients(s, people) PROVE Kept
  BY <1>4 DEF AddRecipients
<1>5. ASSUME NEW d \in Draft, Write(d) PROVE Kept
  BY <1>5 DEF Write
<1>6. ASSUME NEW g \in Glimpse, RefreshPreview(g) PROVE Kept
  BY <1>6 DEF RefreshPreview, AskPreview
<1>7. ASSUME NEW g \in Glimpse, PreviewAnswered(g) PROVE Kept
  BY <1>7 DEF PreviewAnswered
<1>8. ASSUME NEW s \in Adding, NEW g \in Glimpse, AddDone(s, g) PROVE Kept
  BY <1>8 DEF AddDone, AskPreview
<1>9. ASSUME NEW s \in Adding, NEW p \in Person, NEW o \in {"added", "failed", "aborted"}, AddNext(s, p, o) PROVE Kept
  BY <1>9 DEF AddNext
<1>10. CASE Send \/ Compose \/ Sent \/ SendFails
  BY <1>10 DEF Send, Compose, Sent, SendFails
<1>11. QED
  BY <1>1, <1>2, <1>3, <1>4, <1>5, <1>6, <1>7, <1>8, <1>9, <1>10 DEF ComposeNext

LEMMA ComposeInitInv == ComposeInit => ComposeInv
<1> SUFFICES ASSUME ComposeInit PROVE ComposeInv
  OBVIOUS
<1>1. ComposeTypeOK
  BY ComposeAssumption DEF ComposeInit, ComposeTypeOK, NotAdding, PreviewOf
<1>2. SelectionInv
  BY DEF ComposeInit, SelectionInv, NotAdding, Adds
<1>3. PreviewInv
  BY DEF ComposeInit, PreviewInv, Busy
<1>4. QED
  BY <1>1, <1>2, <1>3 DEF ComposeInv

LEMMA ComposeStep == ComposeInv /\ [ComposeNext]_composeVars => ComposeInv'
<1> SUFFICES ASSUME ComposeInv, [ComposeNext]_composeVars PROVE ComposeInv'
  OBVIOUS
<1>1. CASE ComposeNext
  BY <1>1, ComposeTypeStep, SelectionStep, PreviewStep, ComposeHistory DEF ComposeInv
<1>2. CASE UNCHANGED composeVars
  <2>1. ComposeTypeOK'
    BY <1>2 DEF composeVars, ComposeInv, ComposeTypeOK
  <2>2. ~raced' => SelectionInv'
    BY <1>2, SameSelection DEF composeVars, ComposeInv
  <2>3. ~crossed' => PreviewInv'
    BY <1>2 DEF composeVars, ComposeInv, PreviewInv, Busy
  <2>4. QED
    BY <2>1, <2>2, <2>3 DEF ComposeInv
<1>3. QED
  BY <1>1, <1>2

(***************************************************************************)
(* The composer leaves nobody selected who was written to, but for those   *)
(* written to by a send it believes to have failed, and shows the preview  *)
(* asked for last, for any people, drafts, previews and additions under    *)
(* way, but for the crossings the two properties except.                   *)
(***************************************************************************)
THEOREM TheComposerIsTrue == ComposeSpec => []ComposerIsTrue
<1>1. ComposeInv => ComposerIsTrue
  BY DEF ComposeInv, ComposerIsTrue, NobodyIsLeftSelected, PreviewIsTheLast, SelectionInv, PreviewInv, Choosable
<1>2. QED
  BY <1>1, ComposeInitInv, ComposeStep, PTL DEF ComposeSpec

-----------------------------------------------------------------------------
(***************************************************************************)
(* Proofs: the contact list.                                               *)
(***************************************************************************)
Saving == {"no", "sent", "saved", "refused"}
Deletions == [Contact -> {"no", "sent", "gone", "failed"}]

\* A page says which query it answers, and depends on it and on the contacts.
LEMMA FindPagedOf == ASSUME NEW q PROVE FindPaged(q).of = q
BY DEF FindPaged

LEMMA SamePage == ASSUME list' = list, query' = query PROVE FindPaged(query)' = FindPaged(query)
BY DEF FindPaged, Matching

\* Asking again is enough, whatever was changed.
LEMMA ReloadStep ==
  ASSUME ListInv, NEW q, Reload(q), alive' = alive, saving' \in Saving, deleting' \in Deletions
  PROVE  ListInv'
<1>1. CASE alive
  <2>1. /\ query' = q /\ status' = "loading" /\ alive'
        /\ fetch' = [stage |-> "sent", page |-> [NoPage EXCEPT !.of = q]]
    BY <1>1 DEF Reload
  <2>2. fetch'.stage = "sent" /\ fetch'.page.of = q
    BY <2>1 DEF NoPage
  <2>3. QED
    BY <2>1, <2>2 DEF ListInv, Saving, Deletions
<1>2. CASE ~alive
  <2>1. fetch' = fetch /\ status' = status /\ ~alive' /\ fetch = NoFetch
    BY <1>2 DEF Reload, ListInv
  <2>2. fetch'.stage = "none"
    BY <2>1 DEF NoFetch
  <2>3. QED
    BY <2>1, <2>2 DEF ListInv, Saving, Deletions
<1>3. QED
  BY <1>1, <1>2

\* The rest of the page may change, and a change of ours begin, or end unheard of.
LEMMA SameList ==
  ASSUME ListInv, list' = list, query' = query, fetch' = fetch, alive' = alive, status' = status,
         resultPage' = resultPage, saving' \in Saving, deleting' \in Deletions,
         missed \/ ChangeUnderWay => missed' \/ ChangeUnderWay'
  PROVE  ListInv'
BY SamePage DEF ListInv, Saving, Deletions

\* The contacts change, and a change of ours is to be answered.
LEMMA ChangedList ==
  ASSUME ListInv, query' = query, fetch' = fetch, alive' = alive, status' = status,
         resultPage' = resultPage, saving' \in Saving, deleting' \in Deletions, ChangeUnderWay'
  PROVE  ListInv'
BY DEF ListInv, Saving, Deletions

LEMMA ListActions ==
  ASSUME ListInv, ListNext
  PROVE  ListInv'
<1>0. saving \in Saving /\ deleting \in Deletions
  BY DEF ListInv, Saving, Deletions
<1>1. CASE LoadList
  BY <1>0, <1>1, ReloadStep DEF LoadList
<1>2. CASE Debounced
  <2>1. CASE typed = emitted
    BY <1>0, <1>2, <2>1, SameList DEF Debounced, ChangeUnderWay
  <2>2. CASE typed # emitted
    <3>1. Reload([query EXCEPT !.search = typed, !.page = 1])
      BY <1>2, <2>2 DEF Debounced
    <3>2. alive' = alive /\ saving' = saving /\ deleting' = deleting
      BY <1>2 DEF Debounced
    <3>3. QED
      BY <1>0, <3>1, <3>2, ReloadStep
  <2>3. QED
    BY <2>1, <2>2
<1>3. CASE ResetFilters
  BY <1>0, <1>3, ReloadStep DEF ResetFilters
<1>4. CASE ServeList
  <2>1. /\ fetch' = [stage |-> "served", page |-> FindPaged(query)]
        /\ alive' = alive /\ status' = status /\ query' = query /\ list' = list /\ fetch.stage = "sent"
    BY <1>4 DEF ServeList, ListInv
  <2>2. fetch'.stage = "served" /\ fetch'.page = FindPaged(query)' /\ fetch'.page.of = query'
    <3>1. fetch'.page = FindPaged(query)
      BY <2>1
    <3>2. FindPaged(query)' = FindPaged(query)
      BY <2>1, SamePage
    <3>3. QED
      BY <2>1, <3>1, <3>2, FindPagedOf
  <2>3. alive /\ status # "idle"
    BY <2>1 DEF ListInv, NoFetch
  <2>4. saving' = saving /\ deleting' = deleting
    BY <1>4 DEF ServeList
  <2>5. QED
    BY <1>0, <2>1, <2>2, <2>3, <2>4 DEF ListInv, Saving, Deletions
<1>5. CASE Listed
  <2>1. /\ fetch.stage = "served" /\ fetch' = NoFetch /\ resultPage' = fetch.page /\ status' = "loaded"
        /\ alive' = alive /\ query' = query /\ list' = list /\ saving' = saving /\ deleting' = deleting
        /\ missed' = missed
    BY <1>5 DEF Listed
  <2>2. fetch'.stage = "none"
    BY <2>1 DEF NoFetch
  <2>3. ChangeUnderWay' = ChangeUnderWay /\ FindPaged(query)' = FindPaged(query)
    BY <2>1, SamePage DEF ChangeUnderWay
  <2>4. QED
    BY <1>0, <2>1, <2>2, <2>3 DEF ListInv, Saving, Deletions
<1>6. CASE ListFails
  <2>1. fetch' = NoFetch /\ ~alive' /\ saving' = saving /\ deleting' = deleting
    BY <1>6 DEF ListFails
  <2>2. fetch'.stage = "none"
    BY <2>1 DEF NoFetch
  <2>3. QED
    BY <1>0, <2>1, <2>2 DEF ListInv, Saving, Deletions
<1>7. CASE OpenDialog \/ CancelDialog
  BY <1>0, <1>7, SameList DEF OpenDialog, CancelDialog, ChangeUnderWay
<1>8. CASE Save
  BY <1>0, <1>8, SameList DEF Save, ChangeUnderWay, Saving
<1>9. CASE Saved
  <2>1. CASE dialog
    BY <1>0, <1>9, <2>1, ReloadStep DEF Saved, Saving
  <2>2. CASE ~dialog
    BY <1>0, <1>9, <2>2, SameList DEF Saved, Saving
  <2>3. QED
    BY <2>1, <2>2
<1>10. CASE SaveFails
  BY <1>0, <1>10, SameList DEF SaveFails, ChangeUnderWay, Saving
<1>11. ASSUME NEW s \in Search, Type(s) PROVE ListInv'
  BY <1>0, <1>11, SameList DEF Type, ChangeUnderWay
<1>12. ASSUME NEW f \in BOOLEAN, SetFilter(f) PROVE ListInv'
  <2>1. /\ Reload([query EXCEPT !.filter = f, !.page = 1])
        /\ alive' = alive /\ saving' = saving /\ deleting' = deleting
    BY <1>12 DEF SetFilter
  <2>2. QED
    BY <1>0, <2>1, ReloadStep
<1>13. ASSUME NEW p \in Pages, GoToPage(p) PROVE ListInv'
  <2>1. /\ Reload([query EXCEPT !.page = p])
        /\ alive' = alive /\ saving' = saving /\ deleting' = deleting
    BY <1>13 DEF GoToPage
  <2>2. QED
    BY <1>0, <2>1, ReloadStep
<1>14. ASSUME NEW c \in Contact, Delete(c) PROVE ListInv'
  <2>1. deleting' = [deleting EXCEPT ![c] = "sent"] /\ deleting[c] = "no"
    BY <1>14 DEF Delete
  <2>2. deleting' \in Deletions /\ \A d \in Contact : deleting[d] = "gone" => deleting'[d] = "gone"
    BY <1>0, <2>1 DEF Deletions
  <2>3. ChangeUnderWay => ChangeUnderWay'
    BY <1>14, <2>2 DEF Delete, ChangeUnderWay
  <2>4. QED
    BY <1>0, <1>14, <2>2, <2>3, SameList DEF Delete
<1>15. ASSUME NEW c \in Contact, ServeDelete(c) PROVE ListInv'
  <2>1. deleting' \in Deletions /\ \A d \in Contact : deleting[d] = "gone" => deleting'[d] = "gone"
    BY <1>0, <1>15 DEF ServeDelete, Deletions
  <2>2. ChangeUnderWay => ChangeUnderWay'
    BY <1>15, <2>1 DEF ServeDelete, ChangeUnderWay
  <2>3. CASE list' = list
    BY <1>0, <1>15, <2>1, <2>2, <2>3, SameList DEF ServeDelete
  <2>4. CASE list' # list
    <3>1. deleting'[c] = "gone"
      BY <1>0, <1>15, <2>4 DEF ServeDelete, Deletions
    <3>2. ChangeUnderWay'
      BY <3>1 DEF ChangeUnderWay
    <3>3. QED
      BY <1>0, <1>15, <2>1, <3>2, ChangedList DEF ServeDelete
  <2>5. QED
    BY <2>3, <2>4
<1>16. ASSUME NEW c \in Contact, Deleted(c) PROVE ListInv'
  <2>1. deleting' \in Deletions
    BY <1>0, <1>16 DEF Deleted, Deletions
  <2>2. PICK q : Reload(q)
    BY <1>16 DEF Deleted, AfterMutation
  <2>3. QED
    BY <1>0, <1>16, <2>1, <2>2, ReloadStep DEF Deleted
<1>17. ASSUME NEW c \in Contact, DeleteFails(c) PROVE ListInv'
  <2>1. deleting' \in Deletions
    BY <1>0, <1>17 DEF DeleteFails, Deletions
  <2>2. missed \/ ChangeUnderWay => missed' \/ ChangeUnderWay'
    BY <1>0, <1>17 DEF DeleteFails, ChangeUnderWay, Deletions
  <2>3. QED
    BY <1>0, <1>17, <2>1, <2>2, SameList DEF DeleteFails
<1>18. ASSUME NEW c \in Contact, ServeSave(c) PROVE ListInv'
  <2>1. saving' \in Saving /\ deleting' = deleting /\ saving = "sent"
    BY <1>18 DEF ServeSave, Saving
  <2>2. CASE saving' = "saved"
    BY <1>0, <1>18, <2>1, <2>2, ChangedList DEF ServeSave, ChangeUnderWay
  <2>3. CASE saving' # "saved"
    BY <1>0, <1>18, <2>1, <2>3, SameList DEF ServeSave, ChangeUnderWay
  <2>4. QED
    BY <2>2, <2>3
<1>19. QED
  BY <1>1, <1>2, <1>3, <1>4, <1>5, <1>6, <1>7, <1>8, <1>9, <1>10, <1>11, <1>12, <1>13, <1>14, <1>15,
     <1>16, <1>17, <1>18 DEF ListNext

LEMMA ListInitInv == ListInit => ListInv
BY DEF ListInit, ListInv, NoFetch

LEMMA ListStep == ListInv /\ [ListNext]_listVars => ListInv'
<1> SUFFICES ASSUME ListInv, [ListNext]_listVars PROVE ListInv'
  OBVIOUS
<1>1. CASE ListNext
  BY <1>1, ListActions
<1>2. CASE UNCHANGED listVars
  BY <1>2, SameList DEF listVars, ListInv, ChangeUnderWay, Saving, Deletions
<1>3. QED
  BY <1>1, <1>2

(***************************************************************************)
(* Once everything is answered the list is the page asked for last as the  *)
(* server has it, for any contacts, searches, filters and page size.       *)
(***************************************************************************)
THEOREM TheListIsCurrent == ListSpec => []ListIsCurrent
<1>1. ListInv => ListIsCurrent
  <2> SUFFICES ASSUME ListInv, Settled, alive, ~missed
               PROVE  status = "loaded" /\ resultPage = FindPaged(query)
    BY DEF ListIsCurrent
  <2>1. fetch.stage = "none" /\ status # "idle" /\ ~ChangeUnderWay
    BY DEF Settled, NoFetch, ChangeUnderWay
  <2>2. QED
    BY <2>1 DEF ListInv
<1>2. QED
  BY <1>1, ListInitInv, ListStep, PTL DEF ListSpec

-----------------------------------------------------------------------------
(***************************************************************************)
(* Proofs: the page of the e-mail accounts.                                *)
(***************************************************************************)

\* A request for the list is under way as soon as it says where it stands.
LEMMA ListingUnderWay ==
  ASSUME NEW items
  PROVE  /\ [pc |-> "sent"] # NoListing /\ [pc |-> "served", items |-> items] # NoListing
         /\ NoListing.pc = "none"
<1>1. NoListing.pc = "none" /\ [pc |-> "sent"].pc = "sent" /\ [pc |-> "served", items |-> items].pc = "served"
  BY DEF NoListing
<1>2. QED
  BY <1>1

\* What is under way is shown to be, and is of its type.
WaitingInv ==
  /\ acting \subseteq Acting /\ started \in Nat
  /\ busy # NoOne => \E a \in Waiting : a.kind # "connect"
  /\ isConnecting => \E a \in Waiting : a.kind = "connect"

\* The list is asked for again: it was not under way before, or may be shown late.
LEMMA ReloadAccountsStep ==
  ASSUME AccountsInv, NEW l \in Listing, ReloadAccounts(l), WaitingInv'
  PROVE  AccountsInv'
<1>1. listing' = [listing EXCEPT ![l] = [pc |-> "sent"]] /\ listing = [k \in Listing |-> listing[k]]
  BY DEF ReloadAccounts, AccountsInv
<1>2. listing' = [k \in Listing |-> listing'[k]] /\ listing'[l] = [pc |-> "sent"]
  BY <1>1
<1>3. l \in Listings' /\ listing'[l].pc # "served"
  BY <1>2, ListingUnderWay DEF Listings
<1>4. ASSUME ~unaware' PROVE CurrentInv'
  <2>1. Listings = {}
    BY <1>4 DEF ReloadAccounts
  <2>2. \A k \in Listing \ {l} : listing'[k] = NoListing
    BY <1>1, <2>1 DEF Listings
  <2>3. Listings' = {l}
    BY <1>3, <2>2 DEF Listings
  <2>4. QED
    BY <1>3, <2>3 DEF CurrentInv
<1>5. QED
  BY <1>2, <1>3, <1>4 DEF AccountsInv, WaitingInv

\* The list is not asked for: nothing changed, or an action is to be answered that
\* will ask, or a list is about to be read, or a change is missed.
LEMMA SameAccounts ==
  ASSUME AccountsInv, WaitingInv', accounts' = accounts, isLoading' = isLoading, hasError' = hasError,
         listing' = listing,
         ~unaware' => /\ ~unaware
                      /\ \/ account' = account /\ (Unanswered' = {} => Unanswered = {})
                         \/ Unanswered' # {}
                         \/ \E l \in Listing : listing[l].pc = "sent"
  PROVE  AccountsInv'
<1>1. Listings' = Listings
  BY DEF Listings
<1>2. ASSUME ~unaware' PROVE CurrentInv'
  <2>1. CurrentInv
    BY <1>2 DEF AccountsInv
  <2>2. CASE account' = account /\ (Unanswered' = {} => Unanswered = {})
    BY <1>1, <2>1, <2>2 DEF CurrentInv
  <2>3. CASE Unanswered' # {}
    BY <1>1, <2>1, <2>3 DEF CurrentInv
  <2>4. ASSUME NEW l \in Listing, listing[l].pc = "sent" PROVE CurrentInv'
    <3>1. l \in Listings
      BY <2>4, ListingUnderWay DEF Listings
    <3>2. \A k \in Listings : k = l
      BY <2>1, <3>1 DEF CurrentInv
    <3>3. QED
      BY <1>1, <2>1, <2>4, <3>1, <3>2 DEF CurrentInv
  <2>5. QED
    BY <1>2, <2>2, <2>3, <2>4
<1>3. QED
  BY <1>1, <1>2 DEF AccountsInv, WaitingInv

\* An action is started, and waited for.
LEMMA SubmitStep ==
  ASSUME AccountsInv, NEW b \in Acting, b.pc = "sent", Submit(b)
  PROVE  /\ acting' \subseteq Acting /\ started' \in Nat /\ b \in Waiting' /\ Waiting \subseteq Waiting'
         /\ Unanswered' = {} => Unanswered = {}
BY DEF AccountsInv, Submit, Waiting, Unanswered, Changing

\* An action is given up, and no longer waited for.
LEMMA GiveUpStep ==
  ASSUME AccountsInv, NEW a \in acting, GiveUp(a)
  PROVE  /\ acting' \subseteq Acting
         /\ \A c \in Waiting : c # a => c \in Waiting'
         /\ ~Changing(a) => (Unanswered' = {} => Unanswered = {})
<1> DEFINE b == [a EXCEPT !.pc = "abandoned"]
<1>1. a \in Acting
  BY DEF AccountsInv
<1>2. b \in Acting
  BY <1>1 DEF Acting, Stage
<1> HIDE DEF b
<1>3. acting' \subseteq Acting /\ \A c \in acting : c # a => c \in acting'
  BY <1>2 DEF GiveUp, AccountsInv, b
<1>4. QED
  BY <1>3 DEF Waiting, Unanswered

\* The server serves an action, waited for or not.
LEMMA ServeActionStep ==
  ASSUME AccountsInv, NEW a \in acting, NEW ok \in BOOLEAN, ServeAction(a, ok)
  PROVE  AccountsInv'
<1>1. /\ accounts' = accounts /\ isLoading' = isLoading /\ hasError' = hasError /\ busy' = busy
      /\ isConnecting' = isConnecting /\ listing' = listing /\ started' = started
  BY DEF ServeAction, screen
<1>2. /\ acting \subseteq Acting /\ started \in Nat
      /\ busy # NoOne => \E c \in Waiting : c.kind # "connect"
      /\ isConnecting => \E c \in Waiting : c.kind = "connect"
  BY DEF AccountsInv
<1>3. CASE a.pc = "sent"
  <2> DEFINE pc == IF ok THEN "done" ELSE IF account' = account THEN "refused" ELSE "torn"
             b == [a EXCEPT !.pc = pc]
  <2>1. acting' = (acting \ {a}) \cup {b} /\ unaware' = unaware
    BY <1>3 DEF ServeAction
  <2>2. pc \in {"done", "refused", "torn"} /\ (account' # account => pc \in {"done", "torn"})
        /\ (pc = "refused" => account' = account)
    OBVIOUS
  <2> HIDE DEF pc
  <2>3. b \in Acting /\ b.kind = a.kind /\ b.pc = pc
    BY <1>2, <2>2 DEF Acting, Stage
  <2> HIDE DEF b
  <2>4. b \in acting' /\ acting' \subseteq Acting /\ \A c \in acting : c # a => c \in acting'
    BY <1>2, <2>1, <2>3
  <2>5. b \in Waiting' /\ \A c \in Waiting : c # a => c \in Waiting'
    BY <2>2, <2>3, <2>4 DEF Waiting
  <2>6. WaitingInv'
    BY <1>1, <1>2, <2>3, <2>4, <2>5 DEF WaitingInv
  <2>7. Unanswered' # {} \/ (account' = account /\ (Unanswered' = {} => Unanswered = {}))
    BY <1>3, <2>2, <2>3, <2>4 DEF Unanswered, Changing
  <2>8. QED
    BY <1>1, <2>1, <2>6, <2>7, SameAccounts
<1>4. CASE a.pc = "abandoned"
  <2>1. acting' = acting \ {a} /\ Unasked(account' # account)
    BY <1>4 DEF ServeAction
  <2>2. \A c \in Waiting : c \in Waiting'
    BY <1>4, <2>1 DEF Waiting
  <2>3. WaitingInv'
    BY <1>1, <1>2, <2>1, <2>2 DEF WaitingInv
  <2>4. Unanswered' = {} => Unanswered = {}
    BY <1>4, <2>1 DEF Unanswered, Changing
  <2>5. QED
    BY <1>1, <2>1, <2>3, <2>4, SameAccounts DEF Unasked
<1>5. QED
  BY <1>3, <1>4 DEF ServeAction

LEMMA AccountsActions ==
  ASSUME AccountsInv, AccountsNext
  PROVE  AccountsInv'
<1>0. /\ acting \subseteq Acting /\ started \in Nat /\ listing = [k \in Listing |-> listing[k]]
      /\ busy # NoOne => \E a \in Waiting : a.kind # "connect"
      /\ isConnecting => \E a \in Waiting : a.kind = "connect"
      /\ Listings = {} => ~isLoading
  BY DEF AccountsInv
<1>1. ASSUME NEW l \in Listing, ServeListing(l) PROVE AccountsInv'
  <2>1. /\ listing[l].pc = "sent" /\ account' = account /\ acting' = acting /\ unaware' = unaware
        /\ listing' = [listing EXCEPT ![l] = [pc |-> "served", items |-> account]]
        /\ accounts' = accounts /\ isLoading' = isLoading /\ hasError' = hasError /\ busy' = busy
        /\ isConnecting' = isConnecting /\ started' = started
    BY <1>1 DEF ServeListing, screen
  <2>2. /\ listing' = [k \in Listing |-> listing'[k]] /\ listing'[l] = [pc |-> "served", items |-> account]
        /\ \A k \in Listing \ {l} : listing'[k] = listing[k]
    BY <1>0, <2>1
  <2>3. listing[l] # NoListing /\ listing'[l] # NoListing
    BY <2>1, <2>2, ListingUnderWay
  <2>4. Listings' = Listings /\ l \in Listings
    BY <2>2, <2>3 DEF Listings
  <2>5. Unanswered' = Unanswered /\ Waiting' = Waiting
    BY <2>1 DEF Unanswered, Waiting
  <2>6. listing'[l].items = account
    BY <2>2
  <2>7. ~unaware' => CurrentInv'
    BY <2>1, <2>2, <2>4, <2>5, <2>6 DEF AccountsInv, CurrentInv
  <2>8. QED
    BY <1>0, <2>1, <2>2, <2>4, <2>5, <2>7 DEF AccountsInv
<1>2. ASSUME NEW l \in Listing, Retry(l) PROVE AccountsInv'
  <2>1. WaitingInv'
    BY <1>0, <1>2 DEF Retry, WaitingInv, Waiting
  <2>2. QED
    BY <1>2, <2>1, ReloadAccountsStep DEF Retry
<1>3. ASSUME NEW l \in Listing, AccountsListed(l) PROVE AccountsInv'
  <2>1. /\ listing[l].pc = "served" /\ account' = account /\ acting' = acting /\ unaware' = unaware
        /\ listing' = [listing EXCEPT ![l] = NoListing] /\ accounts' = listing[l].items
        /\ isLoading' = FALSE /\ hasError' = hasError /\ busy' = busy
        /\ isConnecting' = isConnecting /\ started' = started
    BY <1>3 DEF AccountsListed
  <2>2. l \in Listings
    BY <2>1, ListingUnderWay DEF Listings
  <2>3. listing' = [k \in Listing |-> listing'[k]] /\ Listings' = Listings \ {l}
    BY <1>0, <2>1 DEF Listings
  <2>4. Unanswered' = Unanswered /\ Waiting' = Waiting
    BY <2>1 DEF Unanswered, Waiting
  <2>5. ASSUME ~unaware' PROVE CurrentInv'
    <3>1. CurrentInv
      BY <2>1, <2>5 DEF AccountsInv
    <3>2. Listings' = {}
      BY <2>2, <2>3, <3>1 DEF CurrentInv
    <3>3. QED
      BY <2>1, <2>2, <2>4, <3>1, <3>2 DEF CurrentInv
  <2>6. QED
    BY <1>0, <2>1, <2>3, <2>4, <2>5 DEF AccountsInv
<1>4. ASSUME NEW l \in Listing, AccountsFail(l) PROVE AccountsInv'
  <2>1. /\ listing[l] # NoListing /\ acting' = acting /\ unaware' = unaware /\ busy' = busy
        /\ listing' = [listing EXCEPT ![l] = NoListing] /\ isLoading' = FALSE /\ hasError'
        /\ isConnecting' = isConnecting /\ started' = started
    BY <1>4 DEF AccountsFail
  <2>2. listing' = [k \in Listing |-> listing'[k]] /\ Listings' = Listings \ {l}
    BY <1>0, <2>1 DEF Listings
  <2>3. Waiting' = Waiting
    BY <2>1 DEF Waiting
  <2>4. ~unaware' => CurrentInv'
    BY <2>1, <2>2 DEF AccountsInv, CurrentInv
  <2>5. QED
    BY <1>0, <2>1, <2>2, <2>3, <2>4 DEF AccountsInv
<1>5. ASSUME NEW l \in Listing, NEW a \in acting, Connected(a, l) PROVE AccountsInv'
  <2>1. /\ acting' = acting \ {a} /\ a.kind = "connect" /\ busy' = busy /\ ReloadAccounts(l)
        /\ ~isConnecting' /\ started' = started
    BY <1>5 DEF Connected
  <2>2. \A c \in Waiting : c # a => c \in Waiting'
    BY <2>1 DEF Waiting
  <2>3. WaitingInv'
    BY <1>0, <2>1, <2>2 DEF WaitingInv
  <2>4. QED
    BY <2>1, <2>3, ReloadAccountsStep
<1>6. ASSUME NEW l \in Listing, NEW a \in acting, Acted(a, l) PROVE AccountsInv'
  <2>1. /\ acting' = acting \ {a} /\ a.kind # "connect" /\ busy' = NoOne /\ ReloadAccounts(l)
        /\ isConnecting' = isConnecting /\ started' = started
    BY <1>6 DEF Acted
  <2>2. \A c \in Waiting : c # a => c \in Waiting'
    BY <2>1 DEF Waiting
  <2>3. WaitingInv'
    BY <1>0, <2>1, <2>2 DEF WaitingInv
  <2>4. QED
    BY <2>1, <2>3, ReloadAccountsStep
<1>7. ASSUME NEW l \in Listing, NEW a \in acting, ActFails(a, l) PROVE AccountsInv'
  <2>1. /\ a.kind # "connect" /\ GiveUp(a) /\ busy' = NoOne /\ account' = account /\ accounts' = accounts
        /\ isConnecting' = isConnecting /\ started' = started
    BY <1>7 DEF ActFails
  <2>2. WaitingInv'
    BY <1>0, <2>1, GiveUpStep DEF WaitingInv
  <2>3. CASE a.kind = "disconnect"
    <3>1. /\ Unasked(Changing(a)) /\ isLoading' = isLoading /\ hasError' = hasError /\ listing' = listing
      BY <1>7, <2>3 DEF ActFails
    <3>2. QED
      BY <2>1, <2>2, <3>1, GiveUpStep, SameAccounts DEF Unasked
  <2>4. CASE a.kind # "disconnect"
    BY <1>7, <2>2, <2>4, ReloadAccountsStep DEF ActFails
  <2>5. QED
    BY <2>3, <2>4
<1>8. ASSUME NEW a \in acting, ConnectFails(a) PROVE AccountsInv'
  <2>1. /\ a.kind = "connect" /\ GiveUp(a) /\ Unasked(Changing(a)) /\ ~isConnecting' /\ busy' = busy
        /\ account' = account /\ accounts' = accounts /\ isLoading' = isLoading
        /\ hasError' = hasError /\ listing' = listing /\ started' = started
    BY <1>8 DEF ConnectFails
  <2>2. WaitingInv'
    BY <1>0, <2>1, GiveUpStep DEF WaitingInv
  <2>3. QED
    BY <2>1, <2>2, GiveUpStep, SameAccounts DEF Unasked
<1>9. ASSUME NEW a \in acting, NEW ok \in BOOLEAN, ServeAction(a, ok) PROVE AccountsInv'
  BY <1>9, ServeActionStep
<1>10. CASE ToggleForm
  <2>1. WaitingInv' /\ Unanswered' = Unanswered
    BY <1>0, <1>10 DEF ToggleForm, WaitingInv, Waiting, Unanswered
  <2>2. QED
    BY <1>10, <2>1, SameAccounts DEF ToggleForm
<1>11. CASE Unusable
  <2>1. WaitingInv' /\ Unasked(TRUE)
    BY <1>0, <1>11 DEF Unusable, screen, WaitingInv, Waiting
  <2>2. QED
    BY <1>11, <2>1, SameAccounts DEF Unusable, screen, Unasked
<1>12. ASSUME NEW i \in Account, NEW makeDefault \in BOOLEAN, Connect(i, makeDefault) PROVE AccountsInv'
  <2> DEFINE b == [pc |-> "sent", number |-> started, kind |-> "connect", id |-> i, makeDefault |-> makeDefault]
  <2>1. b \in Acting /\ b.pc = "sent" /\ b.kind = "connect"
    BY <1>0 DEF Acting, Stage
  <2>2. Submit(b)
    BY <1>12 DEF Connect
  <2> HIDE DEF b
  <2>3. WaitingInv'
    BY <1>0, <1>12, <2>1, <2>2, SubmitStep DEF Connect, WaitingInv
  <2>4. QED
    BY <1>12, <2>1, <2>2, <2>3, SubmitStep, SameAccounts DEF Connect
<1>13. ASSUME NEW i \in Account, NEW kind \in {"check", "default", "disconnect"}, Act(kind, i)
       PROVE  AccountsInv'
  <2> DEFINE b == [pc |-> "sent", number |-> started, kind |-> kind, id |-> i]
  <2>1. b \in Acting /\ b.pc = "sent" /\ b.kind # "connect"
    BY <1>0 DEF Acting, Stage
  <2>2. Submit(b)
    BY <1>13 DEF Act
  <2> HIDE DEF b
  <2>3. WaitingInv'
    BY <1>0, <1>13, <2>1, <2>2, SubmitStep DEF Act, WaitingInv
  <2>4. QED
    BY <1>13, <2>1, <2>2, <2>3, SubmitStep, SameAccounts DEF Act
<1>14. QED
  BY <1>1, <1>2, <1>3, <1>4, <1>5, <1>6, <1>7, <1>8, <1>9, <1>10, <1>11, <1>12, <1>13 DEF AccountsNext

LEMMA AccountsInitInv == AccountsInit => AccountsInv
<1> SUFFICES ASSUME AccountsInit PROVE AccountsInv
  OBVIOUS
<1>1. PICK l \in Listing : listing = [k \in Listing |-> IF k = l THEN [pc |-> "sent"] ELSE NoListing]
  BY DEF AccountsInit
<1>2. listing[l] = [pc |-> "sent"] /\ listing = [k \in Listing |-> listing[k]]
  BY <1>1
<1>3. Listings = {l} /\ listing[l].pc # "served"
  BY <1>1, <1>2, ListingUnderWay DEF Listings
<1>4. acting = {} /\ busy = NoOne /\ started = 0 /\ ~isConnecting
  BY DEF AccountsInit
<1>5. QED
  BY <1>2, <1>3, <1>4 DEF AccountsInv, CurrentInv

LEMMA AccountsStep == AccountsInv /\ [AccountsNext]_accountsVars => AccountsInv'
<1> SUFFICES ASSUME AccountsInv, [AccountsNext]_accountsVars PROVE AccountsInv'
  OBVIOUS
<1>1. CASE AccountsNext
  BY <1>1, AccountsActions
<1>2. CASE UNCHANGED accountsVars
  BY <1>2 DEF accountsVars, AccountsInv, CurrentInv, Listings, Unanswered, Waiting
<1>3. QED
  BY <1>1, <1>2

(***************************************************************************)
(* The page shows as under way only what is, and with nothing under way    *)
(* the accounts as they are on the server, but for the changes it does not *)
(* ask about: for any accounts and any number of requests, whatever the    *)
(* server does of an action that fails.                                    *)
(***************************************************************************)
THEOREM TheAccountsAreCurrent == AccountsSpec => []AccountsAreCurrent
<1>1. AccountsInv => AccountsAreCurrent
  <2> SUFFICES ASSUME AccountsInv PROVE AccountsAreCurrent
    OBVIOUS
  <2>1. NothingSpins
    BY DEF AccountsInv, NothingSpins
  <2>2. Waiting = {} => Unanswered = {}
    BY DEF Waiting, Unanswered, Changing
  <2>3. QED
    BY <2>1, <2>2 DEF AccountsInv, CurrentInv, AccountsAreCurrent
<1>2. QED
  BY <1>1, AccountsInitInv, AccountsStep, PTL DEF AccountsSpec

-----------------------------------------------------------------------------
(***************************************************************************)
(* Proofs: the library.                                                    *)
(***************************************************************************)

LEMMA StepFacts ==
  ASSUME ShapeInv, NEW h \in Handler, NEW from, NEW to, Step(h, from, to)
  PROVE  /\ served[h].pc = from /\ served'[h] = to /\ served' = [g \in Handler |-> served'[g]]
         /\ \A g \in Handler : g # h => served'[g] = served[g]
BY DEF ShapeInv, Step

\* A request whose state alone is changed keeps the rest.
LEMMA FileShape ==
  ASSUME NEW r, NEW to, DOMAIN r = {"pc", "bytes", "key"}
  PROVE  /\ [r EXCEPT !.pc = to].pc = to /\ [r EXCEPT !.pc = to].key = r.key
         /\ DOMAIN [r EXCEPT !.pc = to] = {"pc", "bytes", "key"}
OBVIOUS

LEMMA SignShape ==
  ASSUME NEW r, NEW to, DOMAIN r = {"pc", "id", "isDefault"}
  PROVE  /\ [r EXCEPT !.pc = to].pc = to /\ [r EXCEPT !.pc = to].isDefault = r.isDefault
         /\ DOMAIN [r EXCEPT !.pc = to] = {"pc", "id", "isDefault"}
OBVIOUS

LEMMA SignatureShape ==
  ASSUME NEW s, DOMAIN s = {"id", "isDefault"}
  PROVE  ~[s EXCEPT !.isDefault = FALSE].isDefault /\ DOMAIN [s EXCEPT !.isDefault = FALSE] = {"id", "isDefault"}
OBVIOUS

LEMMA MessageShape ==
  ASSUME NEW m, NEW to, DOMAIN m = {"state", "attached", "signed", "found"}
  PROVE  /\ [m EXCEPT !.state = to].state = to /\ [m EXCEPT !.state = to].attached = m.attached
         /\ [m EXCEPT !.state = to].found = m.found
OBVIOUS

LEMMA RecordShapes ==
  ASSUME NEW p, NEW x, NEW y, NEW z
  PROVE  /\ DOMAIN [pc |-> p, bytes |-> x, key |-> y] = {"pc", "bytes", "key"}
         /\ DOMAIN [pc |-> p, id |-> x, isDefault |-> y] = {"pc", "id", "isDefault"}
         /\ DOMAIN [id |-> x, isDefault |-> y] = {"id", "isDefault"}
         /\ DOMAIN [state |-> p, attached |-> x, signed |-> y, found |-> z]
              = {"state", "attached", "signed", "found"}
OBVIOUS

LEMMA LibraryShapes ==
  ASSUME ShapeInv, LibraryNext
  PROVE  ShapeInv'
<1> DEFINE Rest == signature' = signature /\ message' = message
<1>0. ASSUME NEW h \in Handler, NEW from, NEW to, Step(h, from, to), Rest,
             to.pc \in {"look", "unrecord"} => DOMAIN to = {"pc", "bytes", "key"},
             to.pc = "clear" => DOMAIN to = {"pc", "id", "isDefault"}
      PROVE  ShapeInv'
  <2>1. /\ served'[h] = to /\ served' = [g \in Handler |-> served'[g]]
        /\ \A g \in Handler : g # h => served'[g] = served[g]
    BY <1>0, StepFacts
  <2>2. QED
    BY <1>0, <2>1 DEF ShapeInv
<1>1. ASSUME NEW h \in Handler, NEW b \in Bytes, Upload(h, b) PROVE ShapeInv'
  <2>1. Step(h, "idle", [pc |-> "put", bytes |-> b]) /\ Rest
    BY <1>1 DEF Upload
  <2>2. QED
    BY <2>1, <1>0
<1>2. ASSUME NEW h \in Handler, NEW k \in Blob, Put(h, k) PROVE ShapeInv'
  <2>1. Step(h, "put", [pc |-> "look", bytes |-> served[h].bytes, key |-> k]) /\ Rest
    BY <1>2 DEF Put
  <2>2. QED
    BY <2>1, <1>0, RecordShapes
<1>3. ASSUME NEW h \in Handler, Look(h) PROVE ShapeInv'
  <2>1. PICK p \in {"drop", "create"} : Step(h, "look", [served[h] EXCEPT !.pc = p]) /\ Rest
    BY <1>3 DEF Look
  <2>2. served[h].pc = "look"
    BY <2>1, StepFacts
  <2>3. DOMAIN served[h] = {"pc", "bytes", "key"}
    BY <2>2 DEF ShapeInv
  <2>4. [served[h] EXCEPT !.pc = p].pc = p
    BY <2>3, FileShape
  <2>5. QED
    BY <2>1, <2>4, <1>0
<1>4. ASSUME NEW h \in Handler, DropCopy(h) \/ CreateAttachment(h) \/ DeleteFile(h) PROVE ShapeInv'
  <2>1. PICK from : Step(h, from, AtRest) /\ Rest
    BY <1>4 DEF DropCopy, CreateAttachment, DeleteFile
  <2>2. AtRest.pc = "idle"
    BY DEF AtRest
  <2>3. QED
    BY <2>1, <2>2, <1>0
<1>5. ASSUME NEW h \in Handler, NEW a \in attachment, FindAttachment(h, a) PROVE ShapeInv'
  <2>1. Step(h, "idle", [pc |-> "unrecord", bytes |-> a.bytes, key |-> a.key]) /\ Rest
    BY <1>5 DEF FindAttachment
  <2>2. QED
    BY <2>1, <1>0, RecordShapes
<1>6. ASSUME NEW h \in Handler, DeleteRecord(h) PROVE ShapeInv'
  <2>1. Step(h, "unrecord", [served[h] EXCEPT !.pc = "unfile"]) /\ Rest
    BY <1>6 DEF DeleteRecord
  <2>2. served[h].pc = "unrecord"
    BY <2>1, StepFacts
  <2>3. DOMAIN served[h] = {"pc", "bytes", "key"}
    BY <2>2 DEF ShapeInv
  <2>4. [served[h] EXCEPT !.pc = "unfile"].pc = "unfile"
    BY <2>3, FileShape
  <2>5. QED
    BY <2>1, <2>4, <1>0
<1>7. ASSUME NEW h \in Handler, NEW s \in Signature, NEW d \in BOOLEAN, ListSignatures(h, s, d) PROVE ShapeInv'
  <2>1. PICK p, e : Step(h, "idle", [pc |-> p, id |-> s, isDefault |-> e]) /\ Rest /\ p \in {"clear", "sign"}
    BY <1>7 DEF ListSignatures
  <2>2. QED
    BY <2>1, <1>0, RecordShapes
<1>8. ASSUME NEW h \in Handler, ClearDefault(h) PROVE ShapeInv'
  <2>1. /\ Step(h, "clear", [served[h] EXCEPT !.pc = "sign"])
        /\ signature' = NoneDefault /\ message' = message
    BY <1>8 DEF ClearDefault
  <2>2. /\ served[h].pc = "clear" /\ served'[h] = [served[h] EXCEPT !.pc = "sign"]
        /\ served' = [g \in Handler |-> served'[g]]
        /\ \A g \in Handler : g # h => served'[g] = served[g]
    BY <2>1, StepFacts
  <2>3. DOMAIN served[h] = {"pc", "id", "isDefault"}
    BY <2>2 DEF ShapeInv
  <2>4. served'[h].pc = "sign"
    BY <2>2, <2>3, SignShape
  <2>5. \A s \in signature' : DOMAIN s = {"id", "isDefault"}
    BY <2>1, SignatureShape DEF NoneDefault, ShapeInv
  <2>6. QED
    BY <2>1, <2>2, <2>4, <2>5 DEF ShapeInv
<1>9. ASSUME NEW h \in Handler, CreateSignature(h) PROVE ShapeInv'
  <2>1. PICK x, y : signature' \subseteq signature \cup {[id |-> x, isDefault |-> y]}
    BY <1>9 DEF CreateSignature
  <2>2. \A s \in signature' : DOMAIN s = {"id", "isDefault"}
    BY <2>1, RecordShapes DEF ShapeInv
  <2>3. Step(h, "sign", AtRest) /\ message' = message
    BY <1>9 DEF CreateSignature
  <2>4. /\ served'[h] = AtRest /\ served' = [g \in Handler |-> served'[g]]
        /\ \A g \in Handler : g # h => served'[g] = served[g]
    BY <2>3, StepFacts
  <2>5. AtRest.pc = "idle"
    BY DEF AtRest
  <2>6. QED
    BY <2>2, <2>3, <2>4, <2>5 DEF ShapeInv
<1>10. ASSUME NEW s \in signature, DeleteSignature(s) PROVE ShapeInv'
  BY <1>10 DEF DeleteSignature, ShapeInv
<1>11. ASSUME NEW h \in Handler, NEW wanted \in SUBSET attachment, ResolveAttachments(h, wanted) PROVE ShapeInv'
  <2>1. Step(h, "idle", [pc |-> "signature", attached |-> wanted]) /\ Rest
    BY <1>11 DEF ResolveAttachments
  <2>2. QED
    BY <2>1, <1>0
<1>12. ASSUME NEW h \in Handler, ResolveSignature(h) PROVE ShapeInv'
  <2>1. PICK x, y : Step(h, "signature", [pc |-> "insert", attached |-> x, signed |-> y]) /\ Rest
    BY <1>12 DEF ResolveSignature
  <2>2. QED
    BY <2>1, <1>0
<1>13. ASSUME NEW h \in Handler, CreateMessage(h) PROVE ShapeInv'
  <2>1. Step(h, "insert", AtRest) /\ signature' = signature
    BY <1>13 DEF CreateMessage
  <2>2. message'.state = "queued"
    BY <1>13 DEF CreateMessage
  <2>3. /\ served'[h] = AtRest /\ served' = [g \in Handler |-> served'[g]]
        /\ \A g \in Handler : g # h => served'[g] = served[g]
    BY <2>1, StepFacts
  <2>4. AtRest.pc = "idle"
    BY DEF AtRest
  <2>5. QED
    BY <2>1, <2>2, <2>3, <2>4 DEF ShapeInv
<1>14. CASE LoadRecords
  <2>1. PICK x, y, z : message' = [state |-> "loading", attached |-> x, signed |-> y, found |-> z]
    BY <1>14 DEF LoadRecords
  <2>2. DOMAIN message' = {"state", "attached", "signed", "found"}
    BY <2>1, RecordShapes
  <2>3. served' = served /\ signature' = signature
    BY <1>14 DEF LoadRecords
  <2>4. QED
    BY <2>2, <2>3 DEF ShapeInv
<1>15. CASE LoadFiles
  <2>1. PICK p \in {"sent", "stuck"} : message' = [message EXCEPT !.state = p]
    BY <1>15 DEF LoadFiles
  <2>2. message'.state = p
    BY <1>15, <2>1, MessageShape DEF LoadFiles, ShapeInv
  <2>3. served' = served /\ signature' = signature
    BY <1>15 DEF LoadFiles
  <2>4. QED
    BY <2>2, <2>3 DEF ShapeInv
<1>16. ASSUME NEW h \in Handler, EndEarly(h) PROVE ShapeInv'
  <2>1. Step(h, served[h].pc, AtRest) /\ Rest
    BY <1>16 DEF EndEarly, Step
  <2>2. AtRest.pc = "idle"
    BY DEF AtRest
  <2>3. QED
    BY <2>1, <2>2, <1>0
<1>17. QED
  BY <1>1, <1>2, <1>3, <1>4, <1>5, <1>6, <1>7, <1>8, <1>9, <1>10, <1>11, <1>12, <1>13, <1>14, <1>15, <1>16
     DEF LibraryNext

\* The states of a request that holds no file.
LEMMA Calmed ==
  ASSUME NEW h \in Handler, served'[h].pc \in {"idle", "put", "clear", "sign", "signature", "insert"},
         \A g \in Handler : g # h => served'[g] = served[g]
  PROVE  /\ Uploading' = Uploading \ {h} /\ Deleting' = Deleting \ {h} /\ Owing' = Owing \ {h}
         /\ \A g \in Uploading' \cup Deleting' : served'[g] = served[g]
BY DEF Uploading, Deleting, Owing

\* Requests that go on with what they hold, or with nothing.
LEMMA SameKeys ==
  ASSUME KeysInv, attachment' = attachment, file' = file, given' = given,
         Uploading' \subseteq Uploading, Deleting' \subseteq Deleting,
         \A g \in Uploading' \cup Deleting' : served'[g].key = served[g].key,
         \A g \in Deleting' : served'[g].pc = "unfile" => served[g].pc = "unfile"
  PROVE  KeysInv'
BY DEF KeysInv, Keys

\* A step of a request that holds no file then, or of none.
LEMMA CalmKeys ==
  ASSUME KeysInv, attachment' = attachment, file' = file, given' = given, NEW h \in Handler,
         served'[h].pc \in {"idle", "put", "clear", "sign", "signature", "insert"},
         \A g \in Handler : g # h => served'[g] = served[g]
  PROVE  KeysInv'
<1>1. /\ Uploading' \subseteq Uploading /\ Deleting' \subseteq Deleting
      /\ \A g \in Uploading' \cup Deleting' : served'[g] = served[g]
  BY Calmed
<1>2. QED
  BY <1>1, SameKeys

\* What each step does to the files, the requests and the records.
LEMMA PutEffect ==
  ASSUME ShapeInv, NEW h \in Handler, NEW k, Put(h, k)
  PROVE  /\ h \notin Uploading /\ h \notin Deleting /\ h \notin Owing
         /\ Uploading' = Uploading \cup {h} /\ Deleting' = Deleting /\ Owing' = Owing \cup {h}
         /\ served'[h].key = k /\ \A g \in Handler : g # h => served'[g] = served[g]
<1>1. Step(h, "put", [pc |-> "look", bytes |-> served[h].bytes, key |-> k])
  BY DEF Put
<1>2. /\ served[h].pc = "put" /\ served'[h] = [pc |-> "look", bytes |-> served[h].bytes, key |-> k]
      /\ \A g \in Handler : g # h => served'[g] = served[g]
  BY <1>1, StepFacts
<1>3. served'[h].pc = "look" /\ served'[h].key = k
  BY <1>2
<1>4. QED
  BY <1>2, <1>3 DEF Uploading, Deleting, Owing

LEMMA LookEffect ==
  ASSUME ShapeInv, NEW h \in Handler, Look(h)
  PROVE  /\ h \in Uploading /\ Uploading' = Uploading /\ Deleting' = Deleting /\ Owing' = Owing
         /\ served[h].pc = "look" /\ served'[h].pc \in {"drop", "create"} /\ served'[h].key = served[h].key
         /\ \A g \in Handler : g # h => served'[g] = served[g]
<1>1. PICK p \in {"drop", "create"} : Step(h, "look", [served[h] EXCEPT !.pc = p])
  BY DEF Look
<1>2. /\ served[h].pc = "look" /\ served'[h] = [served[h] EXCEPT !.pc = p]
      /\ \A g \in Handler : g # h => served'[g] = served[g]
  BY <1>1, StepFacts
<1>3. served'[h].pc = p /\ served'[h].key = served[h].key
  BY <1>2, FileShape DEF ShapeInv
<1>4. QED
  BY <1>2, <1>3 DEF Uploading, Deleting, Owing

LEMMA DeleteRecordEffect ==
  ASSUME ShapeInv, NEW h \in Handler, DeleteRecord(h)
  PROVE  /\ h \in Deleting /\ h \notin Owing
         /\ Uploading' = Uploading /\ Deleting' = Deleting /\ Owing' = Owing \cup {h}
         /\ served[h].pc = "unrecord" /\ served'[h].pc = "unfile" /\ served'[h].key = served[h].key
         /\ \A g \in Handler : g # h => served'[g] = served[g]
         /\ Keys' = Keys \ {served[h].key} /\ attachment' \subseteq attachment
<1>1. Step(h, "unrecord", [served[h] EXCEPT !.pc = "unfile"])
  BY DEF DeleteRecord
<1>2. /\ served[h].pc = "unrecord" /\ served'[h] = [served[h] EXCEPT !.pc = "unfile"]
      /\ \A g \in Handler : g # h => served'[g] = served[g]
  BY <1>1, StepFacts
<1>3. served'[h].pc = "unfile" /\ served'[h].key = served[h].key
  BY <1>2, FileShape DEF ShapeInv
<1>4. Keys' = Keys \ {served[h].key} /\ attachment' \subseteq attachment
  BY DEF DeleteRecord, Keys
<1>5. QED
  BY <1>2, <1>3, <1>4 DEF Uploading, Deleting, Owing

LEMMA FindEffect ==
  ASSUME ShapeInv, NEW h \in Handler, NEW a \in attachment, FindAttachment(h, a)
  PROVE  /\ h \notin Uploading /\ h \notin Deleting /\ h \notin Owing
         /\ Uploading' = Uploading /\ Deleting' = Deleting \cup {h} /\ Owing' = Owing
         /\ served'[h].pc = "unrecord" /\ served'[h].key = a.key
         /\ \A g \in Handler : g # h => served'[g] = served[g]
<1>1. Step(h, "idle", [pc |-> "unrecord", bytes |-> a.bytes, key |-> a.key])
  BY DEF FindAttachment
<1>2. /\ served[h].pc = "idle" /\ served'[h] = [pc |-> "unrecord", bytes |-> a.bytes, key |-> a.key]
      /\ \A g \in Handler : g # h => served'[g] = served[g]
  BY <1>1, StepFacts
<1>3. served'[h].pc = "unrecord" /\ served'[h].key = a.key
  BY <1>2
<1>4. QED
  BY <1>2, <1>3 DEF Uploading, Deleting, Owing

\* A request that ends, of those that hold a file.
LEMMA EndEffect ==
  ASSUME ShapeInv, NEW h \in Handler, NEW from, Step(h, from, AtRest)
  PROVE  /\ served[h].pc = from /\ served'[h].pc = "idle"
         /\ \A g \in Handler : g # h => served'[g] = served[g]
         /\ Uploading' = Uploading \ {h} /\ Deleting' = Deleting \ {h} /\ Owing' = Owing \ {h}
         /\ \A g \in Uploading' \cup Deleting' : served'[g] = served[g]
<1>1. /\ served[h].pc = from /\ served'[h] = AtRest
      /\ \A g \in Handler : g # h => served'[g] = served[g]
  BY StepFacts
<1>2. served'[h].pc = "idle"
  BY <1>1 DEF AtRest
<1>3. QED
  BY <1>1, <1>2, Calmed

LEMMA CreateEffect ==
  ASSUME ShapeInv, NEW h \in Handler, CreateAttachment(h)
  PROVE  /\ h \in Uploading /\ h \in Owing /\ Uploading' = Uploading \ {h} /\ Deleting' = Deleting /\ Owing' = Owing \ {h}
         /\ \A g \in Uploading' \cup Deleting' : served'[g] = served[g]
         /\ Keys' = Keys \cup {served[h].key}
         /\ \E r : attachment' = attachment \cup {r} /\ r.key = served[h].key
<1>1. Step(h, "create", AtRest) /\ attachment' = attachment \cup {RecordOf(served[h].key, served[h].bytes)}
  BY DEF CreateAttachment
<1>2. RecordOf(served[h].key, served[h].bytes).key = served[h].key
  BY DEF RecordOf
<1>3. Keys' = Keys \cup {served[h].key}
  BY <1>1, <1>2 DEF Keys
<1>4. served[h].pc = "create"
  BY <1>1, EndEffect
<1>5. h \in Uploading /\ h \in Owing /\ h \notin Deleting
  BY <1>4 DEF Uploading, Owing, Deleting
<1>6. QED
  BY <1>1, <1>2, <1>3, <1>5, EndEffect

LEMMA KeysStep ==
  ASSUME ShapeInv, KeysInv, LibraryNext
  PROVE  KeysInv'
<1> DEFINE Rest == attachment' = attachment /\ file' = file /\ given' = given
<1>0. ASSUME NEW h \in Handler, NEW from, NEW to, Step(h, from, to), Rest,
             to.pc \in {"idle", "put", "clear", "sign", "signature", "insert"}
      PROVE  KeysInv'
  <2>1. served'[h] = to /\ \A g \in Handler : g # h => served'[g] = served[g]
    BY <1>0, StepFacts
  <2>2. QED
    BY <1>0, <2>1, CalmKeys
<1>1. ASSUME NEW h \in Handler, NEW b \in Bytes, Upload(h, b) PROVE KeysInv'
  <2>1. Step(h, "idle", [pc |-> "put", bytes |-> b]) /\ Rest
    BY <1>1 DEF Upload
  <2>2. QED
    BY <2>1, <1>0
<1>2. ASSUME NEW h \in Handler, NEW k \in Blob, Put(h, k) PROVE KeysInv'
  <2>1. /\ k \notin given /\ given' = given \cup {k} /\ file' = file \cup {k} /\ attachment' = attachment
        /\ Keys' = Keys
    BY <1>2 DEF Put, Keys
  <2>2. /\ h \notin Uploading /\ h \notin Deleting
        /\ Uploading' = Uploading \cup {h} /\ Deleting' = Deleting
        /\ served'[h].key = k /\ \A g \in Handler : g # h => served'[g] = served[g]
    BY <1>2, PutEffect
  <2>3. \A g \in Uploading \cup Deleting : g \in Handler /\ g # h /\ served'[g] = served[g] /\ served[g].key # k
    BY <2>1, <2>2 DEF KeysInv, Uploading, Deleting
  <2>4. QED
    BY <2>1, <2>2, <2>3 DEF KeysInv
<1>3. ASSUME NEW h \in Handler, Look(h) PROVE KeysInv'
  <2>1. Rest
    BY <1>3 DEF Look
  <2>2. \A g \in Uploading \cup Deleting : g \in Handler
    BY DEF Uploading, Deleting
  <2>3. QED
    BY <1>3, <2>1, <2>2, LookEffect, SameKeys
<1>4. ASSUME NEW h \in Handler, DropCopy(h) PROVE KeysInv'
  <2>1. /\ Step(h, "drop", AtRest) /\ file' = file \ {served[h].key} /\ given' = given
        /\ attachment' = attachment /\ Keys' = Keys
    BY <1>4 DEF DropCopy, Keys
  <2>2. /\ served[h].pc = "drop" /\ Uploading' = Uploading \ {h} /\ Deleting' = Deleting \ {h}
        /\ \A g \in Uploading' \cup Deleting' : served'[g] = served[g]
    BY <2>1, EndEffect
  <2>3. h \in Uploading
    BY <2>2 DEF Uploading
  <2>4. QED
    BY <2>1, <2>2, <2>3 DEF KeysInv
<1>5. ASSUME NEW h \in Handler, CreateAttachment(h) PROVE KeysInv'
  <2>1. file' = file /\ given' = given
    BY <1>5 DEF CreateAttachment
  <2>2. /\ h \in Uploading /\ Uploading' = Uploading \ {h} /\ Deleting' = Deleting
        /\ \A g \in Uploading' \cup Deleting' : served'[g] = served[g]
        /\ Keys' = Keys \cup {served[h].key}
    BY <1>5, CreateEffect
  <2>3. PICK r : attachment' = attachment \cup {r} /\ r.key = served[h].key
    BY <1>5, CreateEffect
  <2>4. \A a, b \in attachment' : a.key = b.key => a = b
    BY <2>2, <2>3 DEF KeysInv, Keys
  <2>5. h \notin Deleting
    BY <2>2 DEF Uploading, Deleting
  <2>6. \A g \in Uploading' \cup Deleting' : served[g].key # served[h].key
    BY <2>2, <2>5 DEF KeysInv
  <2>7. QED
    BY <2>1, <2>2, <2>4, <2>6 DEF KeysInv
<1>6. ASSUME NEW h \in Handler, DeleteRecord(h) PROVE KeysInv'
  <2>1. file' = file /\ given' = given
    BY <1>6 DEF DeleteRecord
  <2>2. /\ h \in Deleting /\ Uploading' = Uploading /\ Deleting' = Deleting
        /\ served'[h].key = served[h].key
        /\ \A g \in Handler : g # h => served'[g] = served[g]
        /\ Keys' = Keys \ {served[h].key} /\ attachment' \subseteq attachment
    BY <1>6, DeleteRecordEffect
  <2>3. \A g \in Uploading \cup Deleting : served'[g].key = served[g].key
    BY <2>2 DEF Uploading, Deleting
  <2>4. \A g \in Deleting' : served'[g].pc = "unfile" => served'[g].key \notin Keys'
    BY <2>2, <2>3 DEF KeysInv, Deleting
  <2>5. QED
    BY <2>1, <2>2, <2>3, <2>4 DEF KeysInv
<1>7. ASSUME NEW h \in Handler, DeleteFile(h) PROVE KeysInv'
  <2>1. /\ Step(h, "unfile", AtRest) /\ file' = file \ {served[h].key} /\ given' = given
        /\ attachment' = attachment /\ Keys' = Keys
    BY <1>7 DEF DeleteFile, Keys
  <2>2. /\ served[h].pc = "unfile" /\ Uploading' = Uploading \ {h} /\ Deleting' = Deleting \ {h}
        /\ \A g \in Uploading' \cup Deleting' : served'[g] = served[g]
    BY <2>1, EndEffect
  <2>3. h \in Deleting /\ h \notin Uploading
    BY <2>2 DEF Deleting, Uploading
  <2>4. QED
    BY <2>1, <2>2, <2>3 DEF KeysInv
<1>8. ASSUME NEW h \in Handler, NEW a \in attachment, FindAttachment(h, a) PROVE KeysInv'
  <2>1. Rest /\ Keys' = Keys /\ a.key \in Keys
    BY <1>8 DEF FindAttachment, Keys
  <2>2. /\ h \notin Uploading /\ Uploading' = Uploading /\ Deleting' = Deleting \cup {h} /\ h \notin Deleting
        /\ served'[h].pc = "unrecord" /\ served'[h].key = a.key
        /\ \A g \in Handler : g # h => served'[g] = served[g]
    BY <1>8, FindEffect
  <2>3. \A g \in Uploading \cup Deleting : served'[g] = served[g]
    BY <2>2 DEF Uploading, Deleting
  <2>4. QED
    BY <2>1, <2>2, <2>3 DEF KeysInv
<1>9. ASSUME NEW h \in Handler, NEW s \in Signature, NEW d \in BOOLEAN, ListSignatures(h, s, d) PROVE KeysInv'
  <2>1. PICK p, e : Step(h, "idle", [pc |-> p, id |-> s, isDefault |-> e]) /\ Rest /\ p \in {"clear", "sign"}
    BY <1>9 DEF ListSignatures
  <2>2. QED
    BY <2>1, <1>0
<1>10. ASSUME NEW h \in Handler, ClearDefault(h) PROVE KeysInv'
  <2>1. Step(h, "clear", [served[h] EXCEPT !.pc = "sign"]) /\ Rest
    BY <1>10 DEF ClearDefault
  <2>2. served[h].pc = "clear"
    BY <2>1, StepFacts
  <2>3. [served[h] EXCEPT !.pc = "sign"].pc = "sign"
    BY <2>2, SignShape DEF ShapeInv
  <2>4. QED
    BY <2>1, <2>3, <1>0
<1>11. ASSUME NEW h \in Handler, CreateSignature(h) PROVE KeysInv'
  <2>1. Step(h, "sign", AtRest) /\ Rest
    BY <1>11 DEF CreateSignature
  <2>2. AtRest.pc = "idle"
    BY DEF AtRest
  <2>3. QED
    BY <2>1, <2>2, <1>0
<1>12. ASSUME NEW h \in Handler, NEW wanted \in SUBSET attachment, ResolveAttachments(h, wanted) PROVE KeysInv'
  <2>1. Step(h, "idle", [pc |-> "signature", attached |-> wanted]) /\ Rest
    BY <1>12 DEF ResolveAttachments
  <2>2. QED
    BY <2>1, <1>0
<1>13. ASSUME NEW h \in Handler, ResolveSignature(h) PROVE KeysInv'
  <2>1. PICK x, y : Step(h, "signature", [pc |-> "insert", attached |-> x, signed |-> y]) /\ Rest
    BY <1>13 DEF ResolveSignature
  <2>2. QED
    BY <2>1, <1>0
<1>14. ASSUME NEW h \in Handler, CreateMessage(h) \/ EndEarly(h) PROVE KeysInv'
  <2>1. PICK from : Step(h, from, AtRest) /\ Rest
    BY <1>14 DEF CreateMessage, EndEarly, Step
  <2>2. AtRest.pc = "idle"
    BY DEF AtRest
  <2>3. QED
    BY <2>1, <2>2, <1>0
<1>15. ASSUME served' = served, Rest PROVE KeysInv'
  BY <1>15 DEF KeysInv, Keys, Uploading, Deleting
<1>16. QED
  BY <1>1, <1>2, <1>3, <1>4, <1>5, <1>6, <1>7, <1>8, <1>9, <1>10, <1>11, <1>12, <1>13, <1>14, <1>15
     DEF LibraryNext, DeleteSignature, LoadRecords, LoadFiles

\* No file is lost sight of by requests that keep what they owe.
LEMMA SameOwed ==
  ASSUME OwedInv, attachment' = attachment, file' = file, "file" \notin faulty' => "file" \notin faulty,
         "file" \notin faulty' => Owing \subseteq Owing' /\ \A g \in Owing : served'[g].key = served[g].key
  PROVE  OwedInv'
BY DEF OwedInv, Keys

\* The request that ends a file's being owed also ends the file, or records it.
LEMMA PaidOwed ==
  ASSUME OwedInv, faulty' = faulty, NEW h \in Owing, Owing' = Owing \ {h},
         \A g \in Owing' : served'[g] = served[g],
         file' \ Keys' \subseteq (file \ Keys) \ {served[h].key}
  PROVE  OwedInv'
BY DEF OwedInv

LEMMA OwedStep ==
  ASSUME ShapeInv, OwedInv, LibraryNext
  PROVE  OwedInv'
<1> DEFINE Rest == attachment' = attachment /\ file' = file /\ faulty' = faulty
<1>0. ASSUME NEW h \in Handler, NEW from, NEW to, Step(h, from, to), Rest,
             from \in {"idle", "put", "clear", "sign", "signature", "insert"},
             to.pc \in {"idle", "put", "clear", "sign", "signature", "insert"}
      PROVE  OwedInv'
  <2>1. served[h].pc = from /\ served'[h] = to /\ \A g \in Handler : g # h => served'[g] = served[g]
    BY <1>0, StepFacts
  <2>2. h \notin Owing /\ Owing \subseteq Handler
    BY <1>0, <2>1 DEF Owing
  <2>3. Owing' = Owing \ {h}
    BY <1>0, <2>1, Calmed
  <2>4. QED
    BY <1>0, <2>1, <2>2, <2>3, SameOwed
<1>1. ASSUME NEW h \in Handler, NEW b \in Bytes, Upload(h, b) PROVE OwedInv'
  <2>1. Step(h, "idle", [pc |-> "put", bytes |-> b]) /\ Rest
    BY <1>1 DEF Upload
  <2>2. QED
    BY <2>1, <1>0
<1>2. ASSUME NEW h \in Handler, NEW k \in Blob, Put(h, k) PROVE OwedInv'
  <2>1. file' = file \cup {k} /\ faulty' = faulty /\ Keys' = Keys
    BY <1>2 DEF Put, Keys
  <2>2. /\ h \notin Owing /\ Owing' = Owing \cup {h}
        /\ served'[h].key = k /\ \A g \in Handler : g # h => served'[g] = served[g]
    BY <1>2, PutEffect
  <2>3. \A g \in Owing : served'[g] = served[g]
    BY <2>2 DEF Owing
  <2>4. QED
    BY <2>1, <2>2, <2>3 DEF OwedInv
<1>3. ASSUME NEW h \in Handler, Look(h) PROVE OwedInv'
  <2>1. Rest
    BY <1>3 DEF Look
  <2>2. /\ Owing' = Owing /\ served'[h].key = served[h].key
        /\ \A g \in Handler : g # h => served'[g] = served[g]
    BY <1>3, LookEffect
  <2>3. \A g \in Owing : served'[g].key = served[g].key
    BY <2>2 DEF Owing
  <2>4. QED
    BY <2>1, <2>2, <2>3, SameOwed
<1>4. ASSUME NEW h \in Handler, DropCopy(h) \/ DeleteFile(h) PROVE OwedInv'
  <2>1. PICK from \in {"drop", "unfile"} :
          /\ Step(h, from, AtRest) /\ file' = file \ {served[h].key} /\ faulty' = faulty /\ Keys' = Keys
    BY <1>4 DEF DropCopy, DeleteFile, Keys
  <2>2. /\ served[h].pc = from /\ Owing' = Owing \ {h}
        /\ \A g \in Handler : g # h => served'[g] = served[g]
    BY <2>1, EndEffect
  <2>3. h \in Owing
    BY <2>2 DEF Owing
  <2>4. \A g \in Owing' : served'[g] = served[g]
    BY <2>2 DEF Owing
  <2>5. QED
    BY <2>1, <2>2, <2>3, <2>4, PaidOwed
<1>5. ASSUME NEW h \in Handler, CreateAttachment(h) PROVE OwedInv'
  <2>1. file' = file /\ faulty' = faulty
    BY <1>5 DEF CreateAttachment
  <2>2. h \in Owing /\ Owing' = Owing \ {h} /\ Keys' = Keys \cup {served[h].key}
    BY <1>5, CreateEffect
  <2>3. \A g \in Owing' : served'[g] = served[g]
    <3>1. Step(h, "create", AtRest)
      BY <1>5 DEF CreateAttachment
    <3>2. \A g \in Handler : g # h => served'[g] = served[g]
      BY <3>1, EndEffect
    <3>3. QED
      BY <2>2, <3>2 DEF Owing
  <2>4. QED
    BY <2>1, <2>2, <2>3, PaidOwed
<1>6. ASSUME NEW h \in Handler, DeleteRecord(h) PROVE OwedInv'
  <2>1. file' = file /\ faulty' = faulty
    BY <1>6 DEF DeleteRecord
  <2>2. /\ h \notin Owing /\ Owing' = Owing \cup {h} /\ served'[h].key = served[h].key
        /\ \A g \in Handler : g # h => served'[g] = served[g]
        /\ Keys' = Keys \ {served[h].key}
    BY <1>6, DeleteRecordEffect
  <2>3. \A g \in Owing : served'[g] = served[g]
    BY <2>2 DEF Owing
  <2>4. QED
    BY <2>1, <2>2, <2>3 DEF OwedInv
<1>7. ASSUME NEW h \in Handler, NEW a \in attachment, FindAttachment(h, a) PROVE OwedInv'
  <2>1. Rest
    BY <1>7 DEF FindAttachment
  <2>2. /\ h \notin Owing /\ Owing' = Owing
        /\ \A g \in Handler : g # h => served'[g] = served[g]
    BY <1>7, FindEffect
  <2>3. \A g \in Owing : served'[g] = served[g]
    BY <2>2 DEF Owing
  <2>4. QED
    BY <2>1, <2>2, <2>3, SameOwed
<1>8. ASSUME NEW h \in Handler, NEW s \in Signature, NEW d \in BOOLEAN, ListSignatures(h, s, d) PROVE OwedInv'
  <2>1. PICK p, e : Step(h, "idle", [pc |-> p, id |-> s, isDefault |-> e]) /\ Rest /\ p \in {"clear", "sign"}
    BY <1>8 DEF ListSignatures
  <2>2. QED
    BY <2>1, <1>0
<1>9. ASSUME NEW h \in Handler, ClearDefault(h) PROVE OwedInv'
  <2>1. Step(h, "clear", [served[h] EXCEPT !.pc = "sign"]) /\ Rest
    BY <1>9 DEF ClearDefault
  <2>2. served[h].pc = "clear"
    BY <2>1, StepFacts
  <2>3. [served[h] EXCEPT !.pc = "sign"].pc = "sign"
    BY <2>2, SignShape DEF ShapeInv
  <2>4. QED
    BY <2>1, <2>3, <1>0
<1>10. ASSUME NEW h \in Handler, CreateSignature(h) \/ CreateMessage(h) PROVE OwedInv'
  <2>1. PICK from \in {"sign", "insert"} : Step(h, from, AtRest) /\ Rest
    BY <1>10 DEF CreateSignature, CreateMessage
  <2>2. AtRest.pc = "idle"
    BY DEF AtRest
  <2>3. QED
    BY <2>1, <2>2, <1>0
<1>11. ASSUME NEW h \in Handler, NEW wanted \in SUBSET attachment, ResolveAttachments(h, wanted) PROVE OwedInv'
  <2>1. Step(h, "idle", [pc |-> "signature", attached |-> wanted]) /\ Rest
    BY <1>11 DEF ResolveAttachments
  <2>2. QED
    BY <2>1, <1>0
<1>12. ASSUME NEW h \in Handler, ResolveSignature(h) PROVE OwedInv'
  <2>1. PICK x, y : Step(h, "signature", [pc |-> "insert", attached |-> x, signed |-> y]) /\ Rest
    BY <1>12 DEF ResolveSignature
  <2>2. QED
    BY <2>1, <1>0
<1>13. ASSUME NEW h \in Handler, EndEarly(h) PROVE OwedInv'
  <2>1. Step(h, served[h].pc, AtRest) /\ attachment' = attachment /\ file' = file /\ faulty \subseteq faulty'
    BY <1>13 DEF EndEarly, Step
  <2>2. /\ Owing' = Owing \ {h}
        /\ \A g \in Handler : g # h => served'[g] = served[g]
    BY <2>1, EndEffect
  <2>3. "file" \notin faulty' => h \notin Owing
    BY <1>13 DEF EndEarly, Owing
  <2>4. "file" \notin faulty' => \A g \in Owing : served'[g] = served[g]
    BY <2>2, <2>3 DEF Owing
  <2>5. QED
    BY <2>1, <2>2, <2>3, <2>4, SameOwed
<1>14. ASSUME served' = served, Rest PROVE OwedInv'
  BY <1>14 DEF OwedInv, Keys, Owing
<1>15. QED
  BY <1>1, <1>2, <1>3, <1>4, <1>5, <1>6, <1>7, <1>8, <1>9, <1>10, <1>11, <1>12, <1>13, <1>14
     DEF LibraryNext, DeleteSignature, LoadRecords, LoadFiles

-----------------------------------------------------------------------------

\* Requests that sign as they did, and others that do not sign.
LEMMA SameSignature ==
  ASSUME SignatureInv, signature' = signature, bereft' = bereft,
         "signature" \notin faulty' => "signature" \notin faulty,
         \A h \in Handler : served'[h].pc \in {"clear", "sign"} => served'[h] = served[h],
         "signature" \notin faulty' => \A h \in Handler : served[h].pc = "sign" => served'[h] = served[h]
  PROVE  SignatureInv'
<1>1. DefaultSignature' = DefaultSignature
  BY DEF DefaultSignature
<1>2. \A h \in Handler : served'[h].pc = "clear" => served'[h].isDefault
  BY DEF SignatureInv
<1>3. \A h \in Signing' : h \in Signing /\ served'[h] = served[h]
  BY DEF Signing
<1>4. "signature" \notin faulty' => \A h \in Signing : h \in Signing' /\ served'[h] = served[h]
  BY DEF Signing
<1>5. QED
  BY <1>1, <1>2, <1>3, <1>4 DEF SignatureInv

LEMMA SignatureStep ==
  ASSUME ShapeInv, SignatureInv, LibraryNext
  PROVE  SignatureInv'
<1> DEFINE Rest == signature' = signature /\ bereft' = bereft /\ faulty' = faulty
<1>0. ASSUME NEW h \in Handler, Rest, served[h].pc \notin {"clear", "sign"},
             served'[h].pc \notin {"clear", "sign"},
             \A g \in Handler : g # h => served'[g] = served[g]
      PROVE  SignatureInv'
  BY <1>0, SameSignature
<1>1. ASSUME NEW h \in Handler, NEW from, NEW to, Step(h, from, to), Rest,
             from \notin {"clear", "sign"}, to.pc \notin {"clear", "sign"}
      PROVE  SignatureInv'
  <2>1. served[h].pc = from /\ served'[h] = to /\ \A g \in Handler : g # h => served'[g] = served[g]
    BY <1>1, StepFacts
  <2>2. QED
    BY <1>0, <1>1, <2>1
<1>2. AtRest.pc = "idle"
  BY DEF AtRest
<1>3. ASSUME NEW h \in Handler, NEW b \in Bytes, Upload(h, b) PROVE SignatureInv'
  <2>1. Step(h, "idle", [pc |-> "put", bytes |-> b]) /\ Rest
    BY <1>3 DEF Upload
  <2>2. QED
    BY <2>1, <1>1
<1>4. ASSUME NEW h \in Handler, NEW k \in Blob, Put(h, k) PROVE SignatureInv'
  <2>1. Step(h, "put", [pc |-> "look", bytes |-> served[h].bytes, key |-> k]) /\ Rest
    BY <1>4 DEF Put
  <2>2. QED
    BY <2>1, <1>1
<1>5. ASSUME NEW h \in Handler, Look(h) PROVE SignatureInv'
  <2>1. Rest
    BY <1>5 DEF Look
  <2>2. QED
    BY <1>5, <2>1, <1>0, LookEffect
<1>6. ASSUME NEW h \in Handler, DropCopy(h) \/ CreateAttachment(h) \/ DeleteFile(h) \/ CreateMessage(h)
      PROVE  SignatureInv'
  <2>1. PICK from \in {"drop", "create", "unfile", "insert"} : Step(h, from, AtRest) /\ Rest
    BY <1>6 DEF DropCopy, CreateAttachment, DeleteFile, CreateMessage
  <2>2. QED
    BY <2>1, <1>1, <1>2
<1>7. ASSUME NEW h \in Handler, DeleteRecord(h) PROVE SignatureInv'
  <2>1. Rest
    BY <1>7 DEF DeleteRecord
  <2>2. QED
    BY <1>7, <2>1, <1>0, DeleteRecordEffect
<1>8. ASSUME NEW h \in Handler, NEW a \in attachment, FindAttachment(h, a) PROVE SignatureInv'
  <2>1. Step(h, "idle", [pc |-> "unrecord", bytes |-> a.bytes, key |-> a.key]) /\ Rest
    BY <1>8 DEF FindAttachment
  <2>2. QED
    BY <2>1, <1>1
<1>9. ASSUME NEW h \in Handler, NEW s \in Signature, NEW d \in BOOLEAN, ListSignatures(h, s, d)
      PROVE  SignatureInv'
  <2> DEFINE default == d \/ signature = {}
  <2>1. /\ Step(h, "idle", [pc |-> IF default THEN "clear" ELSE "sign", id |-> s, isDefault |-> default])
        /\ Rest
    BY <1>9 DEF ListSignatures
  <2>2. /\ served[h].pc = "idle"
        /\ served'[h] = [pc |-> IF default THEN "clear" ELSE "sign", id |-> s, isDefault |-> default]
        /\ \A g \in Handler : g # h => served'[g] = served[g]
    BY <2>1, StepFacts
  <2>3. /\ served'[h].pc = IF default THEN "clear" ELSE "sign"
        /\ served'[h].isDefault = default
    BY <2>2
  <2>4. DefaultSignature' = DefaultSignature
    BY <2>1 DEF DefaultSignature
  <2>5. \A g \in Handler : served'[g].pc = "clear" => served'[g].isDefault
    BY <2>2, <2>3 DEF SignatureInv
  <2>6. \A g \in Signing : g \in Signing' /\ served'[g] = served[g]
    BY <2>2 DEF Signing
  <2>7. CASE default
    <3>1. Signing' \subseteq Signing
      BY <2>2, <2>3, <2>7 DEF Signing
    <3>2. QED
      BY <2>1, <2>4, <2>5, <2>6, <3>1 DEF SignatureInv
  <2>8. CASE ~default
    <3>1. signature # {}
      BY <2>8
    <3>2. QED
      BY <2>1, <2>4, <2>5, <2>6, <3>1 DEF SignatureInv
  <2>9. QED
    BY <2>7, <2>8
<1>10. ASSUME NEW h \in Handler, ClearDefault(h) PROVE SignatureInv'
  <2>1. /\ Step(h, "clear", [served[h] EXCEPT !.pc = "sign"]) /\ signature' = NoneDefault
        /\ bereft' = bereft /\ faulty' = faulty
    BY <1>10 DEF ClearDefault
  <2>2. /\ served[h].pc = "clear" /\ served'[h] = [served[h] EXCEPT !.pc = "sign"]
        /\ \A g \in Handler : g # h => served'[g] = served[g]
    BY <2>1, StepFacts
  <2>3. served'[h].pc = "sign" /\ served'[h].isDefault = served[h].isDefault
    BY <2>2, SignShape DEF ShapeInv
  <2>4. h \in Signing' /\ served'[h].isDefault
    BY <2>2, <2>3 DEF Signing, SignatureInv
  <2>5. DefaultSignature' = {}
    BY <2>1, SignatureShape DEF DefaultSignature, NoneDefault, ShapeInv
  <2>6. \A g \in Handler : served'[g].pc = "clear" => served'[g].isDefault
    BY <2>2, <2>3 DEF SignatureInv
  <2>7. QED
    BY <2>4, <2>5, <2>6 DEF SignatureInv
<1>11. ASSUME NEW h \in Handler, CreateSignature(h) PROVE SignatureInv'
  <2> DEFINE s == [id |-> served[h].id, isDefault |-> served[h].isDefault]
  <2>1. /\ Step(h, "sign", AtRest) /\ bereft' = bereft /\ faulty' = faulty
        /\ signature' = IF s.isDefault /\ DefaultSignature # {} THEN signature ELSE signature \cup {s}
    BY <1>11 DEF CreateSignature
  <2>2. s.isDefault = served[h].isDefault
    OBVIOUS
  <2> HIDE DEF s
  <2>3. /\ served[h].pc = "sign" /\ served'[h] = AtRest
        /\ \A g \in Handler : g # h => served'[g] = served[g]
    BY <2>1, StepFacts
  <2>4. Signing' = Signing \ {h} /\ h \in Signing /\ \A g \in Signing' : served'[g] = served[g]
    BY <2>3, <1>2 DEF Signing
  <2>5. \A g \in Handler : served'[g].pc = "clear" => served'[g].isDefault
    BY <2>3, <1>2 DEF SignatureInv
  <2>6. CASE s.isDefault /\ DefaultSignature # {}
    <3>1. DefaultSignature' = DefaultSignature
      BY <2>1, <2>6 DEF DefaultSignature
    <3>2. QED
      BY <2>5, <2>6, <3>1 DEF SignatureInv
  <2>7. CASE s.isDefault /\ DefaultSignature = {}
    <3>1. DefaultSignature' = {s}
      BY <2>1, <2>7 DEF DefaultSignature
    <3>2. QED
      BY <2>5, <3>1 DEF SignatureInv
  <2>8. CASE ~s.isDefault
    <3>1. DefaultSignature' = DefaultSignature
      BY <2>1, <2>8 DEF DefaultSignature
    <3>2. ASSUME ~bereft, "signature" \notin faulty
          PROVE  DefaultSignature # {} \/ \E g \in Signing' : served'[g].isDefault
      <4>1. DefaultSignature # {} \/ \E g \in Signing : served[g].isDefault
        BY <2>4, <3>2 DEF SignatureInv
      <4>2. ~served[h].isDefault
        BY <2>2, <2>8
      <4>3. QED
        BY <2>4, <4>1, <4>2
    <3>3. QED
      BY <2>1, <2>5, <3>1, <3>2 DEF SignatureInv
  <2>9. QED
    BY <2>6, <2>7, <2>8
<1>12. ASSUME NEW s \in signature, DeleteSignature(s) PROVE SignatureInv'
  <2>1. /\ signature' = signature \ {s} /\ bereft' = (bereft \/ s.isDefault)
        /\ served' = served /\ faulty' = faulty
    BY <1>12 DEF DeleteSignature
  <2>2. DefaultSignature' \subseteq DefaultSignature /\ (~s.isDefault => DefaultSignature' = DefaultSignature)
    BY <2>1 DEF DefaultSignature
  <2>3. Signing' = Signing
    BY <2>1 DEF Signing
  <2>4. QED
    BY <2>1, <2>2, <2>3 DEF SignatureInv
<1>13. ASSUME NEW h \in Handler, NEW wanted \in SUBSET attachment, ResolveAttachments(h, wanted)
       PROVE  SignatureInv'
  <2>1. Step(h, "idle", [pc |-> "signature", attached |-> wanted]) /\ Rest
    BY <1>13 DEF ResolveAttachments
  <2>2. QED
    BY <2>1, <1>1
<1>14. ASSUME NEW h \in Handler, ResolveSignature(h) PROVE SignatureInv'
  <2>1. PICK x, y : Step(h, "signature", [pc |-> "insert", attached |-> x, signed |-> y]) /\ Rest
    BY <1>14 DEF ResolveSignature
  <2>2. QED
    BY <2>1, <1>1
<1>15. ASSUME NEW h \in Handler, EndEarly(h) PROVE SignatureInv'
  <2>1. /\ Step(h, served[h].pc, AtRest) /\ signature' = signature /\ bereft' = bereft
        /\ faulty \subseteq faulty' /\ (served[h].pc = "sign" => "signature" \in faulty')
    BY <1>15 DEF EndEarly, Step
  <2>2. served'[h].pc = "idle" /\ \A g \in Handler : g # h => served'[g] = served[g]
    BY <2>1, EndEffect
  <2>3. QED
    BY <2>1, <2>2, SameSignature
<1>16. ASSUME served' = served, Rest PROVE SignatureInv'
  BY <1>16, SameSignature
<1>17. QED
  BY <1>3, <1>4, <1>5, <1>6, <1>7, <1>8, <1>9, <1>10, <1>11, <1>12, <1>13, <1>14, <1>15, <1>16
     DEF LibraryNext, LoadRecords, LoadFiles

-----------------------------------------------------------------------------

\* Nothing looked up comes back: what is under way has other keys, or new ones.
LEMMA StaleStays ==
  ASSUME NEW wanted, Stale(wanted), given \subseteq given',
         \A g \in Uploading' : (g \in Uploading /\ served'[g].key = served[g].key) \/ served'[g].key \notin given
  PROVE  \A a \in wanted : a.key \in given' /\ \A g \in Uploading' : served'[g].key # a.key
BY DEF Stale

\* What the library has may be looked up.
LEMMA HeldIsStale ==
  ASSUME KeysInv, NEW wanted \in SUBSET attachment
  PROVE  Stale(wanted)
<1>1. \A a \in wanted : a.key \in Keys
  BY DEF Keys
<1>2. QED
  BY <1>1 DEF KeysInv, Stale

\* The message stays as it is, and what the requests look up is not to come back.
LEMMA SameMessage ==
  ASSUME MessageInv, message' = message, given \subseteq given',
         \A g \in Uploading' : (g \in Uploading /\ served'[g].key = served[g].key) \/ served'[g].key \notin given,
         \A a \in attachment' : a \in attachment \/ \E h \in Uploading : served[h].key = a.key,
         \A h \in Handler : served'[h].pc \in {"signature", "insert"} => Stale(served'[h].attached)
  PROVE  MessageInv'
<1>1. \A h \in Handler : served'[h].pc \in {"signature", "insert"} =>
        \A a \in served'[h].attached : a.key \in given' /\ \A g \in Uploading' : served'[g].key # a.key
  BY StaleStays
<1>2. ASSUME message.state # "none"
      PROVE  /\ \A a \in message.attached : a.key \in given' /\ \A g \in Uploading' : served'[g].key # a.key
             /\ message.attached \cap attachment' \subseteq attachment
  <2>1. Stale(message.attached)
    BY <1>2 DEF MessageInv
  <2>2. message.attached \cap attachment' \subseteq attachment
    BY <2>1 DEF Stale
  <2>3. QED
    BY <2>1, <2>2, StaleStays
<1>3. QED
  BY <1>1, <1>2 DEF MessageInv, Stale

\* The message goes on; the requests do not, and nothing is uploaded or deleted.
LEMMA MessageGoesOn ==
  ASSUME MessageInv, served' = served, given' = given, attachment' = attachment,
         message.state # "none", message'.attached = message.attached,
         message'.state \in {"loading", "sent", "stuck"},
         message'.found \subseteq message.attached, message.attached \cap attachment \subseteq message'.found,
         message'.state = "stuck" => ~(message.attached \subseteq attachment)
  PROVE  MessageInv'
<1>1. Uploading' = Uploading
  BY DEF Uploading
<1>2. QED
  BY <1>1 DEF MessageInv, Stale

LEMMA MessageStep ==
  ASSUME ShapeInv, KeysInv, MessageInv, LibraryNext
  PROVE  MessageInv'
<1> DEFINE Rest == attachment' = attachment /\ given' = given /\ message' = message
<1>0. ASSUME NEW h \in Handler, NEW from, NEW to, Step(h, from, to), Rest,
             to.pc \in {"idle", "put", "clear", "sign", "signature", "insert"},
             to.pc \in {"signature", "insert"} => Stale(to.attached)
      PROVE  MessageInv'
  <2>1. served'[h] = to /\ \A g \in Handler : g # h => served'[g] = served[g]
    BY <1>0, StepFacts
  <2>2. Uploading' = Uploading \ {h} /\ \A g \in Uploading' : served'[g] = served[g]
    BY <1>0, <2>1, Calmed
  <2>3. \A g \in Handler : served'[g].pc \in {"signature", "insert"} => Stale(served'[g].attached)
    BY <1>0, <2>1 DEF MessageInv
  <2>4. QED
    BY <1>0, <2>2, <2>3, SameMessage
<1>1. ASSUME NEW h \in Handler, served'[h].pc \notin {"signature", "insert"},
             \A g \in Handler : g # h => served'[g] = served[g]
      PROVE  \A g \in Handler : served'[g].pc \in {"signature", "insert"} => Stale(served'[g].attached)
  BY <1>1 DEF MessageInv
<1>2. AtRest.pc = "idle"
  BY DEF AtRest
<1>3. ASSUME NEW h \in Handler, NEW b \in Bytes, Upload(h, b) PROVE MessageInv'
  <2>1. Step(h, "idle", [pc |-> "put", bytes |-> b]) /\ Rest
    BY <1>3 DEF Upload
  <2>2. QED
    BY <2>1, <1>0
<1>4. ASSUME NEW h \in Handler, NEW k \in Blob, Put(h, k) PROVE MessageInv'
  <2>1. k \notin given /\ given \subseteq given' /\ attachment' = attachment /\ message' = message
    BY <1>4 DEF Put
  <2>2. Step(h, "put", [pc |-> "look", bytes |-> served[h].bytes, key |-> k])
    BY <1>4 DEF Put
  <2>3. served'[h].pc = "look"
    BY <2>2, StepFacts
  <2>4. /\ Uploading' = Uploading \cup {h}
        /\ served'[h].key = k /\ \A g \in Handler : g # h => served'[g] = served[g]
    BY <1>4, PutEffect
  <2>5. \A g \in Uploading' : (g \in Uploading /\ served'[g].key = served[g].key) \/ served'[g].key \notin given
    BY <2>1, <2>4 DEF Uploading
  <2>6. QED
    BY <2>1, <2>3, <2>4, <2>5, <1>1, SameMessage
<1>5. ASSUME NEW h \in Handler, Look(h) PROVE MessageInv'
  <2>1. Rest
    BY <1>5 DEF Look
  <2>2. /\ Uploading' = Uploading /\ served'[h].pc \in {"drop", "create"} /\ served'[h].key = served[h].key
        /\ \A g \in Handler : g # h => served'[g] = served[g]
    BY <1>5, LookEffect
  <2>3. \A g \in Uploading' : g \in Uploading /\ served'[g].key = served[g].key
    BY <2>2 DEF Uploading
  <2>4. QED
    BY <2>1, <2>2, <2>3, <1>1, SameMessage
<1>6. ASSUME NEW h \in Handler, CreateAttachment(h) PROVE MessageInv'
  <2>1. Step(h, "create", AtRest) /\ given' = given /\ message' = message
    BY <1>6 DEF CreateAttachment
  <2>2. served'[h].pc = "idle" /\ \A g \in Handler : g # h => served'[g] = served[g]
    BY <2>1, EndEffect
  <2>3. /\ h \in Uploading /\ Uploading' = Uploading \ {h}
        /\ \A g \in Uploading' : served'[g] = served[g]
    BY <1>6, CreateEffect
  <2>4. \A a \in attachment' : a \in attachment \/ \E g \in Uploading : served[g].key = a.key
    BY <1>6, <2>3, CreateEffect
  <2>5. QED
    BY <2>1, <2>2, <2>3, <2>4, <1>1, SameMessage
<1>7. ASSUME NEW h \in Handler, DeleteRecord(h) PROVE MessageInv'
  <2>1. given' = given /\ message' = message
    BY <1>7 DEF DeleteRecord
  <2>2. /\ Uploading' = Uploading /\ served'[h].pc = "unfile" /\ served'[h].key = served[h].key
        /\ \A g \in Handler : g # h => served'[g] = served[g]
        /\ attachment' \subseteq attachment
    BY <1>7, DeleteRecordEffect
  <2>3. \A g \in Uploading' : g \in Uploading /\ served'[g].key = served[g].key
    BY <2>2 DEF Uploading
  <2>4. QED
    BY <2>1, <2>2, <2>3, <1>1, SameMessage
<1>8. ASSUME NEW h \in Handler, NEW a \in attachment, FindAttachment(h, a) PROVE MessageInv'
  <2>1. Rest
    BY <1>8 DEF FindAttachment
  <2>2. /\ Uploading' = Uploading /\ h \notin Uploading /\ served'[h].pc = "unrecord"
        /\ \A g \in Handler : g # h => served'[g] = served[g]
    BY <1>8, FindEffect
  <2>3. \A g \in Uploading' : g \in Uploading /\ served'[g] = served[g]
    BY <2>2 DEF Uploading
  <2>4. QED
    BY <2>1, <2>2, <2>3, <1>1, SameMessage
<1>9. ASSUME NEW h \in Handler, NEW s \in Signature, NEW d \in BOOLEAN, ListSignatures(h, s, d)
      PROVE  MessageInv'
  <2>1. PICK p, e : Step(h, "idle", [pc |-> p, id |-> s, isDefault |-> e]) /\ Rest /\ p \in {"clear", "sign"}
    BY <1>9 DEF ListSignatures
  <2>2. QED
    BY <2>1, <1>0
<1>10. ASSUME NEW h \in Handler, ClearDefault(h) PROVE MessageInv'
  <2>1. Step(h, "clear", [served[h] EXCEPT !.pc = "sign"]) /\ Rest
    BY <1>10 DEF ClearDefault
  <2>2. served[h].pc = "clear"
    BY <2>1, StepFacts
  <2>3. [served[h] EXCEPT !.pc = "sign"].pc = "sign"
    BY <2>2, SignShape DEF ShapeInv
  <2>4. QED
    BY <2>1, <2>3, <1>0
<1>11. ASSUME NEW h \in Handler, DropCopy(h) \/ DeleteFile(h) \/ CreateSignature(h) \/ EndEarly(h) PROVE MessageInv'
  <2>1. PICK from : Step(h, from, AtRest) /\ Rest
    BY <1>11 DEF DropCopy, DeleteFile, CreateSignature, EndEarly, Step
  <2>2. QED
    BY <2>1, <1>0, <1>2
<1>12. ASSUME NEW h \in Handler, NEW wanted \in SUBSET attachment, ResolveAttachments(h, wanted)
       PROVE  MessageInv'
  <2>1. Step(h, "idle", [pc |-> "signature", attached |-> wanted]) /\ Rest
    BY <1>12 DEF ResolveAttachments
  <2>2. Stale(wanted)
    BY HeldIsStale
  <2>3. QED
    BY <2>1, <2>2, <1>0
<1>13. ASSUME NEW h \in Handler, ResolveSignature(h) PROVE MessageInv'
  <2>1. PICK y : Step(h, "signature", [pc |-> "insert", attached |-> served[h].attached, signed |-> y]) /\ Rest
    BY <1>13 DEF ResolveSignature
  <2>2. served[h].pc = "signature"
    BY <2>1, StepFacts
  <2>3. Stale(served[h].attached)
    BY <2>2 DEF MessageInv
  <2>4. QED
    BY <2>1, <2>3, <1>0
<1>14. ASSUME NEW h \in Handler, CreateMessage(h) PROVE MessageInv'
  <2>1. Step(h, "insert", AtRest) /\ given' = given /\ attachment' = attachment
    BY <1>14 DEF CreateMessage
  <2>2. message'.state = "queued" /\ message'.attached = served[h].attached
    BY <1>14 DEF CreateMessage
  <2>3. /\ served[h].pc = "insert" /\ served'[h].pc = "idle"
        /\ \A g \in Handler : g # h => served'[g] = served[g]
        /\ Uploading' = Uploading \ {h} /\ \A g \in Uploading' : served'[g] = served[g]
    BY <2>1, EndEffect
  <2>4. Stale(served[h].attached)
    BY <2>3 DEF MessageInv
  <2>5. \A a \in message'.attached : a.key \in given' /\ \A g \in Uploading' : served'[g].key # a.key
    BY <2>1, <2>2, <2>3, <2>4, StaleStays
  <2>6. \A g \in Handler : served'[g].pc \in {"signature", "insert"} => Stale(served'[g].attached)
    BY <2>3, <1>1
  <2>7. \A g \in Handler : served'[g].pc \in {"signature", "insert"} =>
          \A a \in served'[g].attached : a.key \in given' /\ \A f \in Uploading' : served'[f].key # a.key
    BY <2>1, <2>3, <2>6, StaleStays
  <2>8. QED
    BY <2>2, <2>5, <2>7 DEF MessageInv, Stale
<1>15. CASE LoadRecords
  <2>1. /\ message.state = "queued"
        /\ message' = [state |-> "loading", attached |-> message.attached, signed |-> message.signed,
                       found |-> Found(message.attached)]
        /\ served' = served /\ given' = given /\ attachment' = attachment
    BY <1>15 DEF LoadRecords
  <2>2. message'.state = "loading" /\ message'.attached = message.attached
    BY <2>1
  <2>3. message'.found = message.attached \cap attachment
    BY <2>1 DEF Found
  <2>4. QED
    BY <2>1, <2>2, <2>3, MessageGoesOn
<1>16. CASE LoadFiles
  <2> DEFINE keys == {a.key : a \in message.found}
  <2>1. /\ message.state = "loading"
        /\ message' = [message EXCEPT !.state = IF keys \subseteq file THEN "sent" ELSE "stuck"]
        /\ served' = served /\ given' = given /\ attachment' = attachment
    BY <1>16 DEF LoadFiles
  <2>2. /\ message'.state = IF keys \subseteq file THEN "sent" ELSE "stuck"
        /\ message'.attached = message.attached /\ message'.found = message.found
    BY <2>1, MessageShape DEF ShapeInv
  <2>3. message.found \subseteq message.attached /\ message.attached \cap attachment \subseteq message.found
    BY <2>1 DEF MessageInv
  <2>4. ASSUME message.attached \subseteq attachment PROVE keys \subseteq file
    <3>1. keys \subseteq Keys
      BY <2>3, <2>4 DEF Keys
    <3>2. QED
      BY <3>1 DEF KeysInv
  <2>5. message'.state = "stuck" => ~(message.attached \subseteq attachment)
    BY <2>2, <2>4
  <2>6. QED
    BY <2>1, <2>2, <2>3, <2>5, MessageGoesOn
<1>17. ASSUME served' = served, Rest PROVE MessageInv'
  <2>1. Uploading' = Uploading
    BY <1>17 DEF Uploading
  <2>2. QED
    BY <1>17, <2>1 DEF MessageInv, Stale
<1>18. QED
  BY <1>3, <1>4, <1>5, <1>6, <1>7, <1>8, <1>9, <1>10, <1>11, <1>12, <1>13, <1>14, <1>15, <1>16, <1>17
     DEF LibraryNext, DeleteSignature

-----------------------------------------------------------------------------

LEMMA LibraryInitInv ==
  ASSUME LibraryInit
  PROVE  LibraryInv
<1>1. /\ attachment = {} /\ file = {} /\ given = {} /\ signature = {}
      /\ message.state = "none" /\ served = [h \in Handler |-> served[h]]
      /\ \A h \in Handler : served[h].pc = "idle"
  BY DEF LibraryInit, NoMessage, AtRest
<1>2. Keys = {} /\ Uploading = {} /\ Deleting = {} /\ Signing = {} /\ DefaultSignature = {}
  BY <1>1 DEF Keys, Uploading, Deleting, Signing, DefaultSignature
<1>3. ShapeInv
  BY <1>1 DEF ShapeInv
<1>4. KeysInv /\ OwedInv
  BY <1>1, <1>2 DEF KeysInv, OwedInv
<1>5. SignatureInv
  BY <1>1, <1>2 DEF SignatureInv
<1>6. MessageInv
  BY <1>1 DEF MessageInv
<1>7. QED
  BY <1>3, <1>4, <1>5, <1>6 DEF LibraryInv

LEMMA LibraryStep ==
  ASSUME LibraryInv, [LibraryNext]_libraryVars
  PROVE  LibraryInv'
<1>1. CASE LibraryNext
  BY <1>1, LibraryShapes, KeysStep, OwedStep, SignatureStep, MessageStep DEF LibraryInv
<1>2. CASE UNCHANGED libraryVars
  <2>1. ShapeInv'
    BY <1>2 DEF LibraryInv, ShapeInv, libraryVars
  <2>2. KeysInv' /\ OwedInv'
    BY <1>2 DEF LibraryInv, KeysInv, OwedInv, Keys, Uploading, Deleting, Owing, libraryVars
  <2>3. SignatureInv'
    BY <1>2 DEF LibraryInv, SignatureInv, DefaultSignature, Signing, libraryVars
  <2>4. MessageInv'
    BY <1>2 DEF LibraryInv, MessageInv, Stale, Uploading, libraryVars
  <2>5. QED
    BY <2>1, <2>2, <2>3, <2>4 DEF LibraryInv
<1>3. QED
  BY <1>1, <1>2

(***************************************************************************)
(* However uploads of the same bytes, deletions, creations of signatures   *)
(* and a message interleave at the awaits of email.service.ts, for any     *)
(* numbers of them and wherever requests end: every attachment keeps its   *)
(* file and no file is left without a record, whoever has signatures has   *)
(* one default, and a message goes with each attachment that is still in   *)
(* the library.                                                            *)
(***************************************************************************)
THEOREM TheLibraryIsWhole == LibrarySpec => []LibraryIsWhole
<1>1. LibraryInv => LibraryIsWhole
  <2> SUFFICES ASSUME LibraryInv PROVE LibraryIsWhole
    OBVIOUS
  <2>1. FilesMatchRecords
    <3>1. Working = {} => Owing = {}
      <4>1. AtRest.pc = "idle"
        BY DEF AtRest
      <4>2. QED
        BY <4>1 DEF Working, Owing
    <3>2. QED
      BY <3>1 DEF FilesMatchRecords, LibraryInv, KeysInv, OwedInv, Keys
  <2>2. ComposingHasASignature
    <3> SUFFICES ASSUME ~bereft, "signature" \notin faulty, signature # {},
                        Standing = {}
                 PROVE  Cardinality(DefaultSignature) = 1
      BY DEF ComposingHasASignature
    <3>1. \A h \in Signing : ~served[h].isDefault
      BY DEF Signing, Standing
    <3>2. PICK s : s \in DefaultSignature
      BY <3>1 DEF LibraryInv, SignatureInv
    <3>3. DefaultSignature = {s}
      BY <3>2 DEF LibraryInv, SignatureInv
    <3>4. QED
      BY <3>3, FS_Singleton
  <2>3. KeptIsSent
    BY DEF KeptIsSent, LibraryInv, MessageInv
  <2>4. QED
    BY <2>1, <2>2, <2>3 DEF LibraryIsWhole
<1>2. QED
  BY <1>1, LibraryInitInv, LibraryStep, PTL DEF LibrarySpec

-----------------------------------------------------------------------------
(***************************************************************************)
(* The timeline of a contact.  Its entries are in an order, so it is shown *)
(* first what InOrder makes of one.                                        *)
(***************************************************************************)

\* The elements of S are ordered: ahead[x] are those before x.
Orders(ahead, S) ==
  /\ \A x \in S : ahead[x] \subseteq S /\ x \notin ahead[x]
  /\ \A x, y \in S : x \in ahead[y] => ahead[x] \subseteq ahead[y]
  /\ \A x, y \in S : x # y => x \in ahead[y] \/ y \in ahead[x]

\* Each place is taken by one element, that of its rank.
LEMMA RanksTell ==
  ASSUME NEW S, IsFiniteSet(S), NEW ahead, Orders(ahead, S)
  PROVE  /\ \A x \in S : Cardinality(ahead[x]) \in 0 .. Cardinality(S) - 1
         /\ \A x, y \in S : x \in ahead[y] => Cardinality(ahead[x]) < Cardinality(ahead[y])
         /\ \A x, y \in S : Cardinality(ahead[x]) = Cardinality(ahead[y]) => x = y
         /\ \A k \in 1 .. Cardinality(S) : \E x \in S : Cardinality(ahead[x]) = k - 1
<1> DEFINE n == Cardinality(S)
           rank == [x \in S |-> Cardinality(ahead[x])]
<1>1. n \in Nat
  BY FS_CardinalityType
<1>2. ASSUME NEW x \in S PROVE IsFiniteSet(ahead[x]) /\ rank[x] \in 0 .. n - 1
  <2>1. ahead[x] \in SUBSET S /\ x \notin ahead[x]
    BY DEF Orders
  <2>2. IsFiniteSet(ahead[x]) /\ Cardinality(ahead[x]) <= n /\ Cardinality(ahead[x]) # n
    BY <2>1, FS_Subset
  <2>3. Cardinality(ahead[x]) \in Nat
    BY <2>2, FS_CardinalityType
  <2>4. QED
    BY <1>1, <2>2, <2>3
<1>3. ASSUME NEW x \in S, NEW y \in S, x \in ahead[y] PROVE rank[x] < rank[y]
  <2>1. ahead[x] \in SUBSET ahead[y] /\ ahead[x] # ahead[y]
    BY <1>3 DEF Orders
  <2>2. Cardinality(ahead[x]) <= Cardinality(ahead[y]) /\ Cardinality(ahead[x]) # Cardinality(ahead[y])
    BY <1>2, <2>1, FS_Subset
  <2>3. Cardinality(ahead[x]) \in Nat /\ Cardinality(ahead[y]) \in Nat
    BY <1>2, FS_CardinalityType
  <2>4. QED
    BY <2>2, <2>3
<1>4. ASSUME NEW x \in S, NEW y \in S, rank[x] = rank[y] PROVE x = y
  <2>1. rank[x] \in Nat
    BY <1>1, <1>2
  <2>2. x \notin ahead[y] /\ y \notin ahead[x]
    BY <1>3, <1>4, <2>1
  <2>3. QED
    BY <2>2 DEF Orders
<1>5. IsFiniteSet(0 .. n - 1) /\ Cardinality(0 .. n - 1) = n
  BY <1>1, FS_Interval
<1>6. rank \in Injection(S, 0 .. n - 1)
  <2>1. rank \in [S -> 0 .. n - 1]
    BY <1>2
  <2> HIDE DEF rank
  <2>2. QED
    BY <1>4, <2>1 DEF Injection, IsInjective
<1> HIDE DEF rank
<1>7. rank \in Surjection(S, 0 .. n - 1)
  <2>1. Cardinality(S) = Cardinality(0 .. n - 1) <=> rank \in Surjection(S, 0 .. n - 1)
    BY <1>5, <1>6, FS_Injection
  <2>2. QED
    BY <1>5, <2>1
<1>8. ASSUME NEW k \in 1 .. n PROVE \E x \in S : rank[x] = k - 1
  <2>1. k - 1 \in 0 .. n - 1
    BY <1>1
  <2>2. QED
    BY <1>7, <2>1 DEF Surjection
<1>9. QED
  BY <1>2, <1>3, <1>4, <1>8 DEF rank

\* So what is put in order is each element, at the place of its rank.
LEMMA InOrderIs ==
  ASSUME NEW S, IsFiniteSet(S), NEW ahead, Orders(ahead, S), NEW s, s = InOrder(S, ahead)
  PROVE  /\ Cardinality(S) \in Nat /\ s \in [1 .. Cardinality(S) -> S]
         /\ \A k \in 1 .. Cardinality(S) : Cardinality(ahead[s[k]]) = k - 1
         /\ \A j, k \in 1 .. Cardinality(S) : j < k => s[j] \in ahead[s[k]]
         /\ \A x \in S : \E k \in 1 .. Cardinality(S) : s[k] = x
<1> DEFINE n == Cardinality(S)
           Of(k) == CHOOSE x \in S : Cardinality(ahead[x]) = k - 1
<1>1. n \in Nat
  BY FS_CardinalityType
<1>2. \A k \in 1 .. n : Of(k) \in S /\ Cardinality(ahead[Of(k)]) = k - 1
  BY RanksTell
<1>3. s = [k \in 1 .. n |-> Of(k)]
  BY DEF InOrder
<1> HIDE DEF Of
<1>4. \A k \in 1 .. n : s[k] = Of(k)
  BY <1>3
<1>5. s \in [1 .. n -> S]
  BY <1>2, <1>3
<1>6. \A k \in 1 .. n : Cardinality(ahead[s[k]]) = k - 1
  BY <1>2, <1>4
<1>7. ASSUME NEW j \in 1 .. n, NEW k \in 1 .. n, j < k PROVE s[j] \in ahead[s[k]]
  <2>1. s[j] \in S /\ s[k] \in S /\ Cardinality(ahead[s[j]]) = j - 1 /\ Cardinality(ahead[s[k]]) = k - 1
    BY <1>5, <1>6
  <2>2. s[j] # s[k]
    BY <1>7, <2>1
  <2>3. ~(s[k] \in ahead[s[j]])
    <3>1. s[k] \in ahead[s[j]] => Cardinality(ahead[s[k]]) < Cardinality(ahead[s[j]])
      BY <2>1, RanksTell
    <3>2. QED
      BY <1>7, <2>1, <3>1
  <2>4. QED
    BY <2>1, <2>2, <2>3 DEF Orders
<1>8. ASSUME NEW x \in S PROVE \E k \in 1 .. n : s[k] = x
  <2>1. Cardinality(ahead[x]) \in 0 .. n - 1
    BY RanksTell
  <2> DEFINE k == Cardinality(ahead[x]) + 1
  <2>2. k \in 1 .. n /\ Cardinality(ahead[x]) = k - 1
    BY <1>1, <2>1
  <2>3. s[k] \in S /\ Cardinality(ahead[s[k]]) = Cardinality(ahead[x])
    BY <1>5, <1>6, <2>2
  <2>4. s[k] = x
    BY <2>3, RanksTell
  <2>5. QED
    BY <2>2, <2>4
<1>9. QED
  BY <1>1, <1>5, <1>6, <1>7, <1>8

\* Entries of which no two occur at once, and those later than a time.
Timed(es) == IsFiniteSet(es) /\ (\A e \in es : e.at \in Nat) /\ \A d, e \in es : d.at = e.at => d = e
Newer(es, t) == {f \in es : f.at > t}

\* What is part of such a set.
LEMMA TimedParts ==
  ASSUME NEW es, Timed(es), NEW some \in SUBSET es
  PROVE  Timed(some) /\ Cardinality(some) \in Nat /\ Cardinality(es) \in Nat /\ Cardinality(some) <= Cardinality(es)
BY FS_Subset, FS_CardinalityType DEF Timed

\* Sorting puts the newest first, each entry behind all that are newer.
LEMMA SortedIs ==
  ASSUME NEW es, Timed(es), NEW s, s = Sorted(es)
  PROVE  /\ Cardinality(es) \in Nat /\ s \in [1 .. Cardinality(es) -> es]
         /\ \A k \in 1 .. Cardinality(es) : Cardinality(Newer(es, s[k].at)) = k - 1
         /\ \A j, k \in 1 .. Cardinality(es) : j < k => s[j].at > s[k].at
         /\ \A x \in es : \E k \in 1 .. Cardinality(es) : s[k] = x
<1> DEFINE ahead == [e \in es |-> {f \in es : f.at > e.at}]
<1>1. \A e \in es : ahead[e] = Newer(es, e.at)
  BY DEF Newer
<1>2. s = InOrder(es, ahead)
  BY DEF Sorted
<1> HIDE DEF ahead
<1>3. Orders(ahead, es)
  <2>1. \A x \in es : ahead[x] \subseteq es /\ x \notin ahead[x]
    BY <1>1 DEF Newer, Timed
  <2>2. \A x, y \in es : x \in ahead[y] <=> x.at > y.at
    BY <1>1 DEF Newer
  <2>3. \A x, y \in es : x \in ahead[y] => ahead[x] \subseteq ahead[y]
    BY <2>1, <2>2 DEF Timed
  <2>4. \A x, y \in es : x # y => x \in ahead[y] \/ y \in ahead[x]
    BY <2>2 DEF Timed
  <2>5. QED
    BY <2>1, <2>3, <2>4 DEF Orders
<1>4. IsFiniteSet(es)
  BY DEF Timed
<1>5. /\ Cardinality(es) \in Nat /\ s \in [1 .. Cardinality(es) -> es]
      /\ \A k \in 1 .. Cardinality(es) : Cardinality(ahead[s[k]]) = k - 1
      /\ \A j, k \in 1 .. Cardinality(es) : j < k => s[j] \in ahead[s[k]]
      /\ \A x \in es : \E k \in 1 .. Cardinality(es) : s[k] = x
  BY <1>2, <1>3, <1>4, InOrderIs
<1>6. \A k \in 1 .. Cardinality(es) : s[k] \in es
  BY <1>5
<1>7. QED
  BY <1>1, <1>5, <1>6 DEF Newer

\* The first n of a sequence, or as many as it has.
Firsts(s, n) == SubSeq(s, 1, IF Len(s) < n THEN Len(s) ELSE n)

\* The first entries of a sorted set are those with few newer ones.
LEMMA FirstAre ==
  ASSUME NEW es, Timed(es), NEW n \in Nat, NEW first, first = Firsts(Sorted(es), n)
  PROVE  /\ first \in Seq(es)
         /\ \A j, k \in DOMAIN first : j < k => first[j].at > first[k].at
         /\ \A e : e \in Range(first) <=> e \in es /\ Cardinality(Newer(es, e.at)) < n
<1> DEFINE c == Cardinality(es)
           m == IF c < n THEN c ELSE n
           s == Sorted(es)
<1> HIDE DEF s
<1>1. /\ c \in Nat /\ s \in [1 .. c -> es]
      /\ \A k \in 1 .. c : Cardinality(Newer(es, s[k].at)) = k - 1
      /\ \A j, k \in 1 .. c : j < k => s[j].at > s[k].at
      /\ \A x \in es : \E k \in 1 .. c : s[k] = x
  BY SortedIs DEF s
<1>2. s \in Seq(es) /\ Len(s) = c
  BY <1>1
<1>3. first \in Seq(es) /\ Len(first) = m /\ \A k \in 1 .. m : first[k] = s[k]
  BY <1>1, <1>2 DEF Firsts, s
<1>4. DOMAIN first = 1 .. m /\ m \in Nat /\ m <= c /\ m <= n
  BY <1>1, <1>3
<1>5. \A j, k \in DOMAIN first : j < k => first[j].at > first[k].at
  <2>1. \A k \in DOMAIN first : k \in 1 .. c /\ first[k] = s[k]
    BY <1>1, <1>3, <1>4
  <2>2. QED
    BY <1>1, <2>1
<1>6. ASSUME NEW k \in DOMAIN first
      PROVE  first[k] \in es /\ Cardinality(Newer(es, first[k].at)) < n
  BY <1>1, <1>3, <1>4
<1>7. ASSUME NEW e \in es, Cardinality(Newer(es, e.at)) < n PROVE \E k \in DOMAIN first : first[k] = e
  <2>1. PICK k \in 1 .. c : s[k] = e
    BY <1>1
  <2>2. Cardinality(Newer(es, e.at)) = k - 1
    BY <1>1, <2>1
  <2>3. k \in 1 .. m
    BY <1>1, <1>7, <2>2
  <2>4. QED
    BY <1>3, <1>4, <2>1, <2>3
<1>8. QED
  BY <1>3, <1>5, <1>6, <1>7 DEF Range

\* If n entries or more are newer than a time, so are the n first ones.
LEMMA ManyAreNewer ==
  ASSUME NEW es, Timed(es), NEW n \in Nat, NEW t \in Nat, Cardinality(Newer(es, t)) >= n,
         NEW top, top = {e \in es : Cardinality(Newer(es, e.at)) < n}
  PROVE  (\A e \in top : e.at > t) /\ Cardinality(top) >= n
<1>1. ASSUME NEW e \in top PROVE e.at > t
  <2> SUFFICES ASSUME ~(e.at > t) PROVE FALSE
    OBVIOUS
  <2>1. e.at \in Nat /\ Cardinality(Newer(es, e.at)) < n
    BY DEF Timed
  <2>2. Newer(es, t) \subseteq Newer(es, e.at)
    BY <2>1 DEF Newer, Timed
  <2>3. Timed(Newer(es, e.at)) /\ Cardinality(Newer(es, e.at)) \in Nat
    BY TimedParts DEF Newer
  <2>4. Cardinality(Newer(es, t)) <= Cardinality(Newer(es, e.at)) /\ Cardinality(Newer(es, t)) \in Nat
    BY <2>2, <2>3, TimedParts
  <2>5. QED
    BY <2>1, <2>3, <2>4
<1>2. Cardinality(top) >= n
  <2> DEFINE c == Cardinality(es)
             s == Sorted(es)
             f == [k \in 1 .. n |-> s[k]]
  <2>1. /\ c \in Nat /\ s \in [1 .. c -> es]
        /\ \A k \in 1 .. c : Cardinality(Newer(es, s[k].at)) = k - 1
        /\ \A j, k \in 1 .. c : j < k => s[j].at > s[k].at
    BY SortedIs
  <2> HIDE DEF s
  <2>2. n <= c
    <3>1. Cardinality(Newer(es, t)) <= c /\ Cardinality(Newer(es, t)) \in Nat
      BY TimedParts DEF Newer
    <3>2. QED
      BY <2>1, <3>1
  <2>3. \A k \in 1 .. n : k \in 1 .. c
    BY <2>1, <2>2
  <2>4. \A k \in 1 .. n : s[k] \in top
    BY <2>1, <2>3
  <2>5. \A j, k \in 1 .. n : s[j] = s[k] => j = k
    <3>1. \A k \in 1 .. n : s[k].at \in Nat
      BY <2>4 DEF Timed
    <3>2. \A j, k \in 1 .. n : j < k => s[j].at > s[k].at
      BY <2>1, <2>3
    <3>3. \A j, k \in 1 .. n : j < k \/ k < j \/ j = k
      OBVIOUS
    <3>4. QED
      BY <3>1, <3>2, <3>3
  <2>6. f \in [1 .. n -> top] /\ \A k \in 1 .. n : f[k] = s[k]
    BY <2>4
  <2> HIDE DEF f
  <2>7. f \in Injection(1 .. n, top)
    BY <2>5, <2>6 DEF Injection, IsInjective
  <2>8. IsFiniteSet(top)
    BY FS_Subset DEF Timed
  <2>9. Cardinality(1 .. n) <= Cardinality(top)
    BY <2>7, <2>8, FS_Injection
  <2>10. Cardinality(1 .. n) = n
    BY FS_Interval
  <2>11. QED
    BY <2>8, <2>9, <2>10, FS_CardinalityType
<1>3. QED
  BY <1>1, <1>2

-----------------------------------------------------------------------------
Entry == [kind : Kind, contact : Visited, created : Nat, at : Nat]

\* A record is created once and occurs once; only a message occurs later than
\* it was created.
RecordInv ==
  /\ clock \in Nat /\ record \subseteq Entry
  /\ \A e \in record : e.created <= e.at /\ e.at <= clock /\ (e.kind # "email" => e.at = e.created)
  /\ \A d, e \in record : d.contact = e.contact /\ (d.created = e.created \/ d.at = e.at) => d = e
  /\ \A c \in Visited : IsFiniteSet(OfContact(c))

OfKind(kind, c) == {e \in record : e.kind = kind /\ e.contact = c}
Merged(c) == UNION {Source(kind, c) : kind \in Kind}

\* No two events of a contact occur at once.
LEMMA ContactTimed ==
  ASSUME RecordInv, NEW c \in Visited
  PROVE  Timed(OfContact(c))
BY DEF RecordInv, Timed, OfContact, Entry

\* Each record is of a kind, and merged if the source of that kind has it.
LEMMA MergedIs ==
  ASSUME RecordInv, NEW c
  PROVE  /\ Merged(c) \subseteq OfContact(c)
         /\ \A e \in OfContact(c) : e.kind \in Kind /\ e \in OfKind(e.kind, c)
         /\ \A e \in OfContact(c) : e \in Merged(c) <=> e \in Source(e.kind, c)
<1>1. \A kind : Source(kind, c) \subseteq OfKind(kind, c)
  BY DEF Source, OfKind
<1>2. \A kind : OfKind(kind, c) \subseteq OfContact(c)
  BY DEF OfKind, OfContact
<1>3. \A e \in OfContact(c) : e.kind \in Kind /\ e \in OfKind(e.kind, c)
  BY DEF OfKind, OfContact, Entry, RecordInv
<1>4. ASSUME NEW e \in Merged(c) PROVE e \in Source(e.kind, c)
  <2>1. PICK kind \in Kind : e \in Source(kind, c)
    BY DEF Merged
  <2>2. e.kind = kind
    BY <1>1, <2>1 DEF OfKind
  <2>3. QED
    BY <2>1, <2>2
<1>5. QED
  BY <1>1, <1>2, <1>3, <1>4 DEF Merged

\* The records of a kind were created in the order they occurred.
InStep(kind, c) == \A d, e \in OfKind(kind, c) : d.created < e.created => d.at < e.at

\* Then the source of the kind has the last of them; what it leaves out has
\* enough that is newer.
LEMMA SourceIs ==
  ASSUME RecordInv, NEW c \in Visited, NEW kind \in Kind, InStep(kind, c)
  PROVE  Source(kind, c) = {e \in OfKind(kind, c) : Cardinality(Newer(OfKind(kind, c), e.at)) < Limit}
<1> DEFINE all == OfKind(kind, c)
<1>1. ASSUME NEW e \in all PROVE {f \in all : f.created > e.created} = Newer(all, e.at)
  <2>1. \A f \in all : f \in Entry /\ e \in Entry /\ (f.created = e.created => f = e)
    BY DEF OfKind, RecordInv
  <2>2. \A f \in all : f.created \in Nat /\ e.created \in Nat /\ f.at \in Nat /\ e.at \in Nat
    BY <2>1 DEF Entry
  <2>3. \A f \in all : f.created > e.created => f.at > e.at
    BY <2>2 DEF InStep
  <2>4. \A f \in all : f.at > e.at => f.created > e.created
    <3> SUFFICES ASSUME NEW f \in all, f.at > e.at, ~(f.created > e.created) PROVE FALSE
      OBVIOUS
    <3>1. f # e
      BY <2>2
    <3>2. f.created < e.created
      BY <2>1, <2>2, <3>1
    <3>3. f.at < e.at
      BY <3>2 DEF InStep
    <3>4. QED
      BY <2>2, <3>3
  <2>5. QED
    BY <2>3, <2>4 DEF Newer
<1>2. Source(kind, c) = {e \in all : Cardinality({f \in all : f.created > e.created}) < Limit}
  BY DEF Source, OfKind
<1> HIDE DEF all
<1>3. QED
  BY <1>1, <1>2 DEF all

\* So a record that its source leaves out has Limit newer ones in the merge.
LEMMA LeftOutIsOld ==
  ASSUME RecordInv, NEW c \in Visited, NEW e \in OfContact(c), InStep(e.kind, c), e \notin Merged(c)
  PROVE  Cardinality(Newer(Merged(c), e.at)) >= Limit
<1> DEFINE all == OfKind(e.kind, c)
           top == Source(e.kind, c)
<1>1. e.kind \in Kind /\ e \in all /\ e \notin top
  BY MergedIs
<1>2. top = {f \in all : Cardinality(Newer(all, f.at)) < Limit}
  BY <1>1, SourceIs
<1>3. Timed(all) /\ Timed(Merged(c))
  <2>1. all \subseteq OfContact(c)
    BY DEF OfKind, OfContact
  <2>2. QED
    BY <2>1, MergedIs, ContactTimed, TimedParts
<1>4. e.at \in Nat /\ Limit \in Nat
  BY <1>1, <1>3, TimelineAssumption DEF Timed
<1>5. Cardinality(Newer(all, e.at)) \in Nat
  BY <1>3, TimedParts DEF Newer
<1>6. Cardinality(Newer(all, e.at)) >= Limit
  BY <1>1, <1>2, <1>4, <1>5
<1>7. (\A f \in top : f.at > e.at) /\ Cardinality(top) >= Limit
  BY <1>2, <1>3, <1>4, <1>6, ManyAreNewer
<1>8. top \subseteq Newer(Merged(c), e.at)
  BY <1>1, <1>7 DEF Merged, Newer
<1>9. Timed(Newer(Merged(c), e.at))
  BY <1>3, TimedParts DEF Newer
<1>10. Cardinality(top) <= Cardinality(Newer(Merged(c), e.at)) /\ Cardinality(top) \in Nat
       /\ Cardinality(Newer(Merged(c), e.at)) \in Nat
  BY <1>8, <1>9, TimedParts
<1>11. QED
  BY <1>4, <1>7, <1>10

\* The timeline is the first entries of what is merged.
LEMMA TimelineIs ==
  ASSUME RecordInv, NEW c \in Visited
  PROVE  /\ Timeline(c) \in Seq(OfContact(c))
         /\ \A j, k \in DOMAIN Timeline(c) : j < k => Timeline(c)[j].at > Timeline(c)[k].at
         /\ Range(Timeline(c)) = {e \in Merged(c) : Cardinality(Newer(Merged(c), e.at)) < Limit}
<1> DEFINE m == Merged(c)
           first == Timeline(c)
<1>1. Timed(m) /\ m \subseteq OfContact(c) /\ Limit \in Nat
  BY MergedIs, ContactTimed, TimedParts, TimelineAssumption
<1>2. first = Firsts(Sorted(m), Limit)
  BY DEF Timeline, Merged, Firsts
<1> HIDE DEF m, first
<1>4. /\ first \in Seq(m)
      /\ \A j, k \in DOMAIN first : j < k => first[j].at > first[k].at
      /\ \A e : e \in Range(first) <=> e \in m /\ Cardinality(Newer(m, e.at)) < Limit
  BY <1>1, <1>2, FirstAre
<1>5. first \in Seq(OfContact(c))
  BY <1>1, <1>4
<1>6. Range(first) = {e \in m : Cardinality(Newer(m, e.at)) < Limit}
  BY <1>4
<1>7. QED
  BY <1>4, <1>5, <1>6 DEF m, first

\* It has every note that is newer than an entry of it.
LEMMA TimelineHasNotes ==
  ASSUME RecordInv, NEW c \in Visited, NEW e \in OfContact(c), e.kind = "note",
         NEW i \in DOMAIN Timeline(c), e.at > Timeline(c)[i].at
  PROVE  e \in Range(Timeline(c))
<1> DEFINE m == Merged(c)
           x == Timeline(c)[i]
<1>1. x \in m /\ Cardinality(Newer(m, x.at)) < Limit
  BY TimelineIs DEF Range
<1>2. Timed(m) /\ Timed(OfContact(c)) /\ Limit \in Nat
  BY MergedIs, ContactTimed, TimedParts, TimelineAssumption
<1>3. e.at \in Nat /\ x.at \in Nat
  BY <1>1, <1>2 DEF Timed
<1>4. Newer(m, e.at) \subseteq Newer(m, x.at)
  BY <1>2, <1>3 DEF Newer, Timed
<1>5. Timed(Newer(m, x.at))
  BY <1>2, TimedParts DEF Newer
<1>6. Cardinality(Newer(m, e.at)) <= Cardinality(Newer(m, x.at)) /\ Cardinality(Newer(m, e.at)) \in Nat
      /\ Cardinality(Newer(m, x.at)) \in Nat
  BY <1>4, <1>5, TimedParts
<1>7. Cardinality(Newer(m, e.at)) < Limit
  BY <1>1, <1>2, <1>6
<1>8. InStep(e.kind, c)
  BY DEF InStep, OfKind, RecordInv
<1>9. e \in m
  <2>1. e \notin m => Cardinality(Newer(m, e.at)) >= Limit
    BY <1>8, LeftOutIsOld
  <2>2. QED
    BY <1>2, <1>6, <1>7, <2>1
<1>10. QED
  BY <1>7, <1>9, TimelineIs

\* The history is of the contact's last events of every kind.
LEMMA LatestFollows == RecordInv => TimelineIsTheLatest
<1> SUFFICES ASSUME RecordInv, NEW c \in Visited,
                    \A d, e \in OfContact(c) : d.kind = e.kind /\ d.created < e.created => d.at < e.at,
                    NEW e \in OfContact(c)
             PROVE  e \in Range(Timeline(c)) <=> Cardinality({f \in OfContact(c) : f.at > e.at}) < Limit
  BY DEF TimelineIsTheLatest
<1> DEFINE m == Merged(c)
           all == OfContact(c)
<1>1. \A kind : InStep(kind, c)
  BY DEF InStep, OfKind, OfContact
<1>2. Timed(m) /\ Timed(all) /\ m \subseteq all /\ Limit \in Nat
  BY MergedIs, ContactTimed, TimedParts, TimelineAssumption
<1>3. \A f \in all : f.at \in Nat
  BY <1>2 DEF Timed
<1>4. \A some \in SUBSET all : \A t : Timed(Newer(some, t)) /\ Cardinality(Newer(some, t)) \in Nat
  <2>1. \A some \in SUBSET all : \A t : Newer(some, t) \in SUBSET all
    BY DEF Newer
  <2>2. QED
    BY <1>2, <2>1, TimedParts
<1>5. Range(Timeline(c)) = {f \in m : Cardinality(Newer(m, f.at)) < Limit}
  BY TimelineIs
<1>6. ASSUME Cardinality(Newer(all, e.at)) < Limit PROVE e \in Range(Timeline(c))
  <2>1. Newer(m, e.at) \subseteq Newer(all, e.at)
    BY <1>2 DEF Newer
  <2>2. Cardinality(Newer(m, e.at)) <= Cardinality(Newer(all, e.at))
    BY <1>4, <2>1, TimedParts
  <2>3. Cardinality(Newer(m, e.at)) < Limit /\ Cardinality(Newer(m, e.at)) \in Nat
    BY <1>2, <1>4, <1>6, <2>2
  <2>4. e \in m
    <3>1. e \notin m => Cardinality(Newer(m, e.at)) >= Limit
      BY <1>1, LeftOutIsOld
    <3>2. QED
      BY <1>2, <2>3, <3>1
  <2>5. QED
    BY <1>5, <2>3, <2>4
<1>7. ASSUME e \in Range(Timeline(c)) PROVE Cardinality(Newer(all, e.at)) < Limit
  <2>1. e \in m /\ Cardinality(Newer(m, e.at)) < Limit
    BY <1>5, <1>7
  <2>2. ASSUME NEW f \in Newer(all, e.at) PROVE f \in m
    <3> SUFFICES ASSUME f \notin m PROVE FALSE
      OBVIOUS
    <3>1. f \in all /\ f.at > e.at
      BY DEF Newer
    <3>2. Cardinality(Newer(m, f.at)) >= Limit
      BY <1>1, <3>1, LeftOutIsOld
    <3>3. Newer(m, f.at) \subseteq Newer(m, e.at)
      BY <1>2, <1>3, <3>1 DEF Newer
    <3>4. Cardinality(Newer(m, f.at)) <= Cardinality(Newer(m, e.at))
      BY <1>2, <1>4, <3>3, TimedParts
    <3>5. Cardinality(Newer(m, f.at)) \in Nat /\ Cardinality(Newer(m, e.at)) \in Nat
      BY <1>2, <1>4
    <3>6. QED
      BY <1>2, <2>1, <3>2, <3>4, <3>5
  <2>3. Newer(all, e.at) = Newer(m, e.at)
    BY <1>2, <2>2 DEF Newer
  <2>4. QED
    BY <2>1, <2>3
<1>8. Newer(all, e.at) = {f \in OfContact(c) : f.at > e.at}
  BY DEF Newer
<1>9. QED
  BY <1>6, <1>7, <1>8

-----------------------------------------------------------------------------
\* The same event, though a message may have been sent since.
SameEvent(d, e) == d.kind = e.kind /\ d.contact = e.contact /\ d.created = e.created

\* Entries es show the records rec of contact c, but for notes gone that are yet
\* to be taken off and notes coming that are yet to be put in.
Follows(es, c, rec, now, gone, coming) ==
  /\ es \in Seq(Entry)
  /\ \A i, j \in DOMAIN es : i < j => es[i].at > es[j].at
  /\ \A i \in DOMAIN es :
       /\ es[i].contact = c /\ es[i].at <= now /\ (es[i].kind # "email" => es[i].at = es[i].created)
       /\ es[i] \in gone \/ \E e \in rec : SameEvent(es[i], e)
  /\ \A i \in DOMAIN es : \A n \in rec :
       n.kind = "note" /\ n.contact = c /\ n.at > es[i].at => n \in coming \/ \E j \in DOMAIN es : es[j] = n

Gone == {d.note : d \in {x \in deletingNotes : x.pc = "served"}}
Coming == IF savingNote.pc = "served" THEN {savingNote.note} ELSE {}

\* Notes that are being deleted, and one that has been created.
IsNote(n) == n \in Entry /\ n.kind = "note" /\ n.at = n.created /\ n.at <= clock

DeletingInv ==
  /\ deletingNotes \subseteq [pc : {"sent", "served"}, note : Entry]
  /\ \A d \in deletingNotes : IsNote(d.note) /\ (d.pc = "served" => d.note \notin record)

SavingInv ==
  /\ savingNote # NoNote => savingNote.contact = open
  /\ \A n \in Coming :
       /\ IsNote(n) /\ n.contact = open /\ n \in record
       /\ \A m \in record : m.kind = "note" => m.at <= n.at
       /\ \A d \in deletingNotes : d.note.at < n.at
       /\ ~error => \A i \in DOMAIN entries : entries[i].at < n.at

\* One load at most is under way, of the contact that is open and with nothing
\* else; it, or else the page, shows what there is.
PageInv ==
  /\ isLoadingTimeline <=> Loads # {}
  /\ \A l, m \in Loads : l = m
  /\ Loads # {} => savingNote = NoNote /\ deletingNotes = {} /\ ~error
  /\ error => deletingNotes = {}
  /\ \A l \in Loads :
       /\ load[l].contact = open
       /\ load[l].pc = "served" => Follows(load[l].entries, open, record, clock, {}, {})
  /\ Loads = {} /\ ~error => Follows(entries, open, record, clock, Gone, Coming)
  /\ DeletingInv /\ SavingInv

HistoryInv ==
  /\ RecordInv
  /\ open \in Visited /\ mixed \in BOOLEAN /\ error \in BOOLEAN /\ load = [l \in Loading |-> load[l]]
  /\ savingNote # NoNote => savingNote.contact \in Visited
  /\ \A l \in Loading : load[l] = NoLoad \/ load[l].pc \in {"sent", "served"}
  /\ ~mixed => PageInv

\* The records through the steps of the server.
LEMMA RecordAdded ==
  ASSUME RecordInv, NEW kind \in Kind, NEW c \in Visited, clock' = clock + 1,
         record' = record \cup {TimelineEntry(kind, c, clock + 1)}
  PROVE  RecordInv'
<1> DEFINE new == TimelineEntry(kind, c, clock + 1)
<1>1. /\ new \in Entry /\ new.created = clock + 1 /\ new.at = clock + 1 /\ new.contact = c /\ new.kind = kind
      /\ clock \in Nat /\ record' = record \cup {new}
  BY DEF TimelineEntry, Entry, RecordInv
<1> HIDE DEF new
<1>2. \A e \in record : e.created \in Nat /\ e.at \in Nat /\ e.created < clock + 1 /\ e.at < clock + 1
  BY <1>1 DEF RecordInv, Entry
<1>3. clock' \in Nat /\ record' \subseteq Entry
  BY <1>1 DEF RecordInv
<1>4. \A e \in record' : e.created <= e.at /\ e.at <= clock' /\ (e.kind # "email" => e.at = e.created)
  BY <1>1, <1>2 DEF RecordInv
<1>5. \A d, e \in record' : d.contact = e.contact /\ (d.created = e.created \/ d.at = e.at) => d = e
  BY <1>1, <1>2 DEF RecordInv
<1>6. ASSUME NEW a \in Visited PROVE IsFiniteSet(OfContact(a)')
  <2>1. OfContact(a)' \in SUBSET (OfContact(a) \cup {new})
    BY <1>1 DEF OfContact
  <2>2. IsFiniteSet(OfContact(a) \cup {new})
    BY FS_AddElement DEF RecordInv
  <2>3. QED
    BY <2>1, <2>2, FS_Subset
<1>7. QED
  BY <1>3, <1>4, <1>5, <1>6 DEF RecordInv

LEMMA RecordDropped ==
  ASSUME RecordInv, UNCHANGED clock, record' \subseteq record
  PROVE  RecordInv'
<1>1. ASSUME NEW a \in Visited PROVE IsFiniteSet(OfContact(a)')
  <2>1. OfContact(a)' \in SUBSET OfContact(a)
    BY DEF OfContact
  <2>2. QED
    BY <2>1, FS_Subset DEF RecordInv
<1>2. QED
  BY <1>1 DEF RecordInv

LEMMA RecordSent ==
  ASSUME RecordInv, NEW e \in record, SendMail(e)
  PROVE  RecordInv'
<1> DEFINE new == [e EXCEPT !.at = clock + 1]
<1>1. e \in Entry /\ clock \in Nat /\ record' = (record \ {e}) \cup {new} /\ clock' = clock + 1 /\ e.kind = "email"
  BY DEF RecordInv, SendMail
<1>2. new \in Entry /\ new.created = e.created /\ new.at = clock + 1 /\ new.contact = e.contact /\ new.kind = e.kind
  BY <1>1 DEF Entry
<1> HIDE DEF new
<1>3. \A d \in record : d.created \in Nat /\ d.at \in Nat /\ d.created < clock + 1 /\ d.at < clock + 1
  BY <1>1 DEF RecordInv, Entry
<1>4. clock' \in Nat /\ record' \subseteq Entry
  BY <1>1, <1>2 DEF RecordInv
<1>5. \A d \in record' : d.created <= d.at /\ d.at <= clock' /\ (d.kind # "email" => d.at = d.created)
  BY <1>1, <1>2, <1>3 DEF RecordInv
<1>6. \A d \in record \ {e} : ~(d.contact = new.contact /\ (d.created = new.created \/ d.at = new.at))
  BY <1>1, <1>2, <1>3 DEF RecordInv
<1>7. \A d, f \in record' : d.contact = f.contact /\ (d.created = f.created \/ d.at = f.at) => d = f
  BY <1>1, <1>6 DEF RecordInv
<1>8. ASSUME NEW a \in Visited PROVE IsFiniteSet(OfContact(a)')
  <2>1. OfContact(a)' \in SUBSET (OfContact(a) \cup {new})
    BY <1>1 DEF OfContact
  <2>2. IsFiniteSet(OfContact(a) \cup {new})
    BY FS_AddElement DEF RecordInv
  <2>3. QED
    BY <2>1, <2>2, FS_Subset
<1>9. QED
  BY <1>4, <1>5, <1>7, <1>8 DEF RecordInv

-----------------------------------------------------------------------------
\* What is shown, as the records change.
LEMMA FollowsMore ==
  ASSUME NEW es, NEW c, NEW rec, NEW now \in Nat, NEW gone, NEW coming, Follows(es, c, rec, now, gone, coming),
         NEW new, new.kind # "note"
  PROVE  Follows(es, c, rec \cup {new}, now + 1, gone, coming)
<1>1. \A i \in DOMAIN es : es[i] \in Entry
  BY DEF Follows
<1>2. \A i \in DOMAIN es : es[i].at \in Nat
  BY <1>1 DEF Entry
<1>3. \A i \in DOMAIN es : es[i].at <= now + 1
  BY <1>2 DEF Follows
<1>4. QED
  BY <1>3 DEF Follows

LEMMA FollowsNote ==
  ASSUME NEW es, NEW c, NEW rec, NEW now \in Nat, NEW gone, Follows(es, c, rec, now, gone, {}), NEW new
  PROVE  Follows(es, c, rec \cup {new}, now + 1, gone, {new})
<1>1. \A i \in DOMAIN es : es[i] \in Entry
  BY DEF Follows
<1>2. \A i \in DOMAIN es : es[i].at \in Nat
  BY <1>1 DEF Entry
<1>3. \A i \in DOMAIN es : es[i].at <= now + 1
  BY <1>2 DEF Follows
<1>4. QED
  BY <1>3 DEF Follows

LEMMA FollowsSent ==
  ASSUME NEW es, NEW c, NEW rec, NEW now \in Nat, NEW gone, NEW coming, Follows(es, c, rec, now, gone, coming),
         NEW e \in rec, NEW new, SameEvent(new, e), e.kind = "email"
  PROVE  Follows(es, c, (rec \ {e}) \cup {new}, now + 1, gone, coming)
<1>1. \A i \in DOMAIN es : es[i] \in Entry
  BY DEF Follows
<1>2. \A i \in DOMAIN es : es[i].at \in Nat
  BY <1>1 DEF Entry
<1>3. \A i \in DOMAIN es : es[i].at <= now + 1
  BY <1>2 DEF Follows
<1>4. \A i \in DOMAIN es : (\E d \in rec : SameEvent(es[i], d)) => \E d \in (rec \ {e}) \cup {new} : SameEvent(es[i], d)
  BY DEF SameEvent
<1>5. new.kind # "note"
  BY DEF SameEvent
<1>6. QED
  BY <1>3, <1>4, <1>5 DEF Follows

LEMMA FollowsGone ==
  ASSUME NEW es, NEW c, NEW rec, NEW now, NEW gone, NEW coming, Follows(es, c, rec, now, gone, coming),
         NEW n \in Entry, n.kind = "note", n.at = n.created
  PROVE  Follows(es, c, rec \ {n}, now, gone \cup {n}, coming)
<1>1. ASSUME NEW i \in DOMAIN es, SameEvent(es[i], n) PROVE es[i] = n
  <2>1. es[i] \in Entry /\ (es[i].kind # "email" => es[i].at = es[i].created)
    BY DEF Follows
  <2>2. es[i].kind = n.kind /\ es[i].contact = n.contact /\ es[i].created = n.created /\ es[i].at = n.at
    BY <1>1, <2>1 DEF SameEvent
  <2>3. QED
    BY <2>1, <2>2 DEF Entry
<1>2. \A i \in DOMAIN es : es[i] \in gone \cup {n} \/ \E e \in rec \ {n} : SameEvent(es[i], e)
  BY <1>1 DEF Follows
<1>3. QED
  BY <1>2 DEF Follows

\* What NoteAdded makes of the entries, and NoteDeleted.
WithNote(es, n) ==
  LET newer == Cardinality({i \in DOMAIN es : es[i].at > n.at})
  IN  SubSeq(es, 1, newer) \o <<n>> \o SubSeq(es, newer + 1, Len(es))

WithoutNote(es, n) ==
  LET kept == {i \in DOMAIN es : es[i] # n}
      placed == InOrder(kept, [i \in kept |-> {j \in kept : j < i}])
  IN  [k \in DOMAIN placed |-> es[placed[k]]]

\* A note that is newer than all entries goes to the front.
LEMMA FollowsPut ==
  ASSUME NEW es, NEW c, NEW rec, NEW now, NEW gone, NEW n \in Entry, Follows(es, c, rec, now, gone, {n}),
         rec \subseteq Entry, n \in rec, n.contact = c, n.at <= now, n.at = n.created,
         \A m \in rec : m.kind = "note" => m.at <= n.at, \A i \in DOMAIN es : es[i].at < n.at,
         NEW new, new = WithNote(es, n)
  PROVE  Follows(new, c, rec, now, gone, {})
<1>1. es \in Seq(Entry) /\ n.at \in Nat /\ \A i \in DOMAIN es : es[i].at \in Nat
  <2>1. es \in Seq(Entry)
    BY DEF Follows
  <2>2. \A i \in DOMAIN es : es[i] \in Entry
    BY <2>1
  <2>3. QED
    BY <2>1, <2>2 DEF Entry
<1>2. Cardinality({i \in DOMAIN es : es[i].at > n.at}) = 0
  <2>1. {i \in DOMAIN es : es[i].at > n.at} = {}
    BY <1>1
  <2>2. QED
    BY <2>1, FS_EmptySet
<1>3. new = <<n>> \o es
  <2>1. SubSeq(es, 1, 0) = << >> /\ SubSeq(es, 0 + 1, Len(es)) = es
    BY <1>1
  <2>2. << >> \o <<n>> = <<n>>
    OBVIOUS
  <2>3. QED
    BY <1>2, <2>1, <2>2 DEF WithNote
<1>4. new \in Seq(Entry) /\ Len(new) = Len(es) + 1 /\ new[1] = n /\ \A i \in 1 .. Len(es) : new[i + 1] = es[i]
  BY <1>1, <1>3
<1>5. DOMAIN es = 1 .. Len(es) /\ DOMAIN new = 1 .. Len(es) + 1 /\ Len(es) \in Nat
  BY <1>1, <1>4
<1>6. \A i \in DOMAIN new : (i = 1 /\ new[i] = n) \/ (i > 1 /\ i - 1 \in DOMAIN es /\ new[i] = es[i - 1])
  <2>1. \A i \in DOMAIN new : i = 1 \/ (i > 1 /\ i - 1 \in 1 .. Len(es) /\ (i - 1) + 1 = i)
    BY <1>5
  <2>2. \A i \in DOMAIN new : i # 1 => new[i] = es[i - 1]
    BY <1>4, <2>1
  <2>3. QED
    BY <1>4, <1>5, <2>1, <2>2
<1>7. \A j \in DOMAIN es : \E i \in DOMAIN new : new[i] = es[j]
  <2>1. \A j \in 1 .. Len(es) : j + 1 \in 1 .. Len(es) + 1
    BY <1>5
  <2>2. QED
    BY <1>4, <1>5, <2>1
<1>8. ASSUME NEW i \in DOMAIN new, NEW j \in DOMAIN new, i < j PROVE new[i].at > new[j].at
  <2>1. j > 1 /\ j - 1 \in DOMAIN es /\ new[j] = es[j - 1]
    BY <1>5, <1>6, <1>8
  <2>2. CASE i = 1
    BY <1>1, <1>4, <2>1, <2>2
  <2>3. CASE i # 1
    <3>1. i - 1 \in DOMAIN es /\ new[i] = es[i - 1] /\ i - 1 < j - 1
      BY <1>5, <1>6, <1>8, <2>1, <2>3
    <3>2. QED
      BY <2>1, <3>1 DEF Follows
  <2>4. QED
    BY <2>2, <2>3
<1>9. ASSUME NEW i \in DOMAIN new
      PROVE  /\ new[i].contact = c /\ new[i].at <= now /\ (new[i].kind # "email" => new[i].at = new[i].created)
             /\ new[i] \in gone \/ \E e \in rec : SameEvent(new[i], e)
  <2>1. SameEvent(n, n)
    BY DEF SameEvent
  <2>2. QED
    BY <1>6, <2>1 DEF Follows
<1>10. ASSUME NEW i \in DOMAIN new, NEW m \in rec, m.kind = "note", m.contact = c, m.at > new[i].at
       PROVE  \E j \in DOMAIN new : new[j] = m
  <2>1. i # 1
    <3>1. m.at \in Nat /\ m.at <= n.at
      BY <1>10 DEF Entry
    <3>2. QED
      BY <1>1, <1>4, <1>10, <3>1
  <2>2. i - 1 \in DOMAIN es /\ new[i] = es[i - 1]
    BY <1>6, <2>1
  <2>3. m = n \/ \E j \in DOMAIN es : es[j] = m
    BY <1>10, <2>2 DEF Follows
  <2>4. 1 \in DOMAIN new
    BY <1>5
  <2>5. QED
    BY <1>4, <1>7, <2>3, <2>4
<1>11. QED
  BY <1>4, <1>8, <1>9, <1>10 DEF Follows

\* A note is taken off wherever it is.
LEMMA FollowsTaken ==
  ASSUME NEW es, NEW c, NEW rec, NEW now, NEW gone, NEW coming, Follows(es, c, rec, now, gone, coming), NEW n, n \notin rec,
         NEW new, new = WithoutNote(es, n)
  PROVE  Follows(new, c, rec, now, gone \ {n}, coming) /\ \A k \in DOMAIN new : \E i \in DOMAIN es : new[k] = es[i]
<1> DEFINE kept == {i \in DOMAIN es : es[i] # n}
           m == Cardinality(kept)
           ahead == [i \in kept |-> {j \in kept : j < i}]
           placed == InOrder(kept, ahead)
<1>0. new = [k \in DOMAIN placed |-> es[placed[k]]]
  BY DEF WithoutNote
<1>1. es \in Seq(Entry) /\ kept \subseteq 1 .. Len(es) /\ DOMAIN es = 1 .. Len(es) /\ Len(es) \in Nat
  BY DEF Follows
<1>2. IsFiniteSet(kept)
  <2>1. IsFiniteSet(1 .. Len(es))
    BY <1>1, FS_Interval
  <2>2. QED
    BY <1>1, <2>1, FS_Subset
<1>3. \A i \in kept : ahead[i] = {j \in kept : j < i}
  OBVIOUS
<1>4. placed = InOrder(kept, ahead)
  OBVIOUS
<1>14. \A i : i \in kept <=> i \in DOMAIN es /\ es[i] # n
  OBVIOUS
<1> HIDE DEF kept, ahead, placed
<1>5. Orders(ahead, kept)
  <2>1. \A i, j \in kept : i \in Nat /\ j \in Nat
    BY <1>1
  <2>2. \A i \in kept : ahead[i] \subseteq kept /\ i \notin ahead[i]
    BY <1>3, <2>1
  <2>3. \A i, j \in kept : i \in ahead[j] <=> i < j
    BY <1>3
  <2>4. \A i, j \in kept : i \in ahead[j] => ahead[i] \subseteq ahead[j]
    BY <2>1, <2>2, <2>3
  <2>5. \A i, j \in kept : i # j => i \in ahead[j] \/ j \in ahead[i]
    BY <2>1, <2>3
  <2>6. QED
    BY <2>2, <2>4, <2>5 DEF Orders
<1>6. /\ m \in Nat /\ placed \in [1 .. m -> kept]
      /\ \A j, k \in 1 .. m : j < k => placed[j] \in ahead[placed[k]]
      /\ \A i \in kept : \E k \in 1 .. m : placed[k] = i
  BY <1>2, <1>4, <1>5, InOrderIs
<1>7. DOMAIN new = 1 .. m /\ \A k \in 1 .. m : new[k] = es[placed[k]] /\ placed[k] \in kept
  BY <1>0, <1>6
<1>8. new \in Seq(Entry)
  <2>1. \A k \in 1 .. m : es[placed[k]] \in Entry
    <3>1. \A i \in 1 .. Len(es) : es[i] \in Entry
      BY <1>1
    <3>2. \A k \in 1 .. m : placed[k] \in 1 .. Len(es)
      BY <1>1, <1>7
    <3>3. QED
      BY <3>1, <3>2
  <2>2. \A k \in 1 .. m : new[k] \in Entry
    BY <1>7, <2>1
  <2>3. new = [k \in 1 .. m |-> new[k]]
    BY <1>0, <1>6, <1>7
  <2>4. QED
    BY <1>6, <2>2, <2>3
<1>9. ASSUME NEW j \in DOMAIN new, NEW k \in DOMAIN new, j < k PROVE new[j].at > new[k].at
  <2>1. placed[j] \in kept /\ placed[k] \in kept /\ placed[j] < placed[k]
    BY <1>3, <1>6, <1>7, <1>9
  <2>2. placed[j] \in DOMAIN es /\ placed[k] \in DOMAIN es
    BY <2>1, <1>14
  <2>3. new[j] = es[placed[j]] /\ new[k] = es[placed[k]]
    BY <1>7
  <2>4. QED
    BY <2>1, <2>2, <2>3 DEF Follows
<1>10. ASSUME NEW k \in DOMAIN new
       PROVE  /\ new[k].contact = c /\ new[k].at <= now /\ (new[k].kind # "email" => new[k].at = new[k].created)
              /\ new[k] \in gone \ {n} \/ \E e \in rec : SameEvent(new[k], e)
  <2>1. placed[k] \in DOMAIN es /\ new[k] = es[placed[k]] /\ new[k] # n
    BY <1>7, <1>14
  <2>2. QED
    BY <2>1 DEF Follows
<1>11. ASSUME NEW k \in DOMAIN new, NEW x \in rec, x.kind = "note", x.contact = c, x.at > new[k].at
       PROVE  x \in coming \/ \E j \in DOMAIN new : new[j] = x
  <2>1. placed[k] \in DOMAIN es /\ new[k] = es[placed[k]]
    BY <1>7, <1>14
  <2>2. x \in coming \/ \E j \in DOMAIN es : es[j] = x
    BY <1>11, <2>1 DEF Follows
  <2>3. ASSUME NEW j \in DOMAIN es, es[j] = x PROVE \E i \in DOMAIN new : new[i] = x
    <3>1. j \in kept
      BY <2>3, <1>14
    <3>2. QED
      BY <1>6, <1>7, <2>3, <3>1
  <2>4. QED
    BY <2>2, <2>3
<1>12. \A k \in DOMAIN new : \E i \in DOMAIN es : new[k] = es[i]
  BY <1>7, <1>14
<1>13. QED
  BY <1>8, <1>9, <1>10, <1>11, <1>12 DEF Follows

\* What the server answers shows the records as they are.
LEMMA TimelineFollows ==
  ASSUME RecordInv, NEW c \in Visited
  PROVE  Follows(Timeline(c), c, record, clock, {}, {})
<1> DEFINE es == Timeline(c)
<1>1. /\ es \in Seq(OfContact(c))
      /\ \A j, k \in DOMAIN es : j < k => es[j].at > es[k].at
  BY TimelineIs
<1>2. \A n \in OfContact(c), i \in DOMAIN es : n.kind = "note" /\ n.at > es[i].at => n \in Range(es)
  BY TimelineHasNotes
<1>3. \A e \in OfContact(c) : e \in record /\ e.contact = c
  BY DEF OfContact
<1> HIDE DEF es
<1>4. \A i \in DOMAIN es : es[i] \in record /\ es[i].contact = c
  <2>1. \A i \in DOMAIN es : es[i] \in OfContact(c)
    BY <1>1
  <2>2. QED
    BY <1>3, <2>1
<1>5. es \in Seq(Entry)
  BY <1>1, <1>3 DEF RecordInv
<1>6. \A i \in DOMAIN es : SameEvent(es[i], es[i])
  BY DEF SameEvent
<1>7. \A n \in record, i \in DOMAIN es :
        n.kind = "note" /\ n.contact = c /\ n.at > es[i].at => \E j \in DOMAIN es : es[j] = n
  BY <1>2 DEF OfContact, Range
<1>8. QED
  BY <1>1, <1>4, <1>5, <1>6, <1>7 DEF Follows, RecordInv, es

-----------------------------------------------------------------------------
\* The last of the numbers below another.
LEMMA LastBefore ==
  ASSUME NEW S \in SUBSET Nat, S # {}, NEW b \in Nat, \A n \in S : n < b
  PROVE  \E m \in S : \A n \in S : n <= m
<1> DEFINE T == {b - n : n \in S}
           R == OpToRel(<, Nat)
<1>1. T \in SUBSET Nat /\ T # {}
  <2>1. \A n \in S : b - n \in Nat
    OBVIOUS
  <2>2. QED
    BY <2>1
<1>2. IsWellFoundedOn(R, Nat)
  BY NatLessThanWellFounded
<1>3. \A x, y \in Nat : <<x, y>> \notin R => y <= x
  BY SMT DEF OpToRel
<1> HIDE DEF R
<1>4. PICK t \in T : \A u \in T : <<u, t>> \notin R
  BY <1>1, <1>2, WFMin
<1>5. \A u \in T : t <= u
  BY <1>1, <1>3, <1>4
<1>6. PICK m \in S : t = b - m
  BY <1>4
<1>7. ASSUME NEW n \in S PROVE n <= m
  <2>1. t <= b - n
    BY <1>5
  <2>2. QED
    BY <1>6, <2>1
<1>8. QED
  BY <1>7

\* Later is on no earlier a day.
LEMMA DaysInOrder ==
  ASSUME NEW x \in Nat, NEW y \in Nat, x <= y
  PROVE  x \div Day \in Nat /\ y \div Day \in Nat /\ x \div Day <= y \div Day
BY TimelineAssumption

\* Entries in order have each day under one heading, whichever are visible.
LEMMA OneHeading ==
  ASSUME entries \in Seq(Entry), \A i, j \in DOMAIN entries : i < j => entries[i].at > entries[j].at, NEW kinds
  PROVE  IsInjective(Groups(kinds))
<1> DEFINE seen == Visible(kinds)
           day == [i \in seen |-> DayOf(entries[i])]
           g == Groups(kinds)
<1>1. seen \subseteq DOMAIN entries /\ DOMAIN entries = 1 .. Len(entries) /\ seen \subseteq Nat
  BY DEF Visible
<1>2. \A i \in seen : entries[i].at \in Nat
  <2>1. \A i \in seen : entries[i] \in Entry
    BY <1>1
  <2>2. QED
    BY <2>1 DEF Entry
<1>3. \A i, j \in seen : i <= j => day[j] \in Nat /\ day[i] \in Nat /\ day[j] <= day[i]
  <2> SUFFICES ASSUME NEW i \in seen, NEW j \in seen, i <= j
               PROVE  day[j] \in Nat /\ day[i] \in Nat /\ day[j] <= day[i]
    OBVIOUS
  <2>1. i \in Nat /\ j \in Nat /\ entries[i].at \in Nat /\ entries[j].at \in Nat
    BY <1>1, <1>2
  <2>2. entries[j].at <= entries[i].at
    <3>1. i < j \/ i = j
      BY <2>1
    <3>2. QED
      BY <1>1, <2>1, <3>1
  <2>3. QED
    BY <2>1, <2>2, DaysInOrder DEF DayOf
<1>4. /\ DOMAIN g \subseteq seen
      /\ \A i \in DOMAIN g : g[i] = day[i]
      /\ \A i \in DOMAIN g : \A j \in seen : j < i /\ day[j] = day[i] => \E k \in seen : j < k /\ k < i
  BY DEF Groups
<1> HIDE DEF seen, day, g
<1>5. ASSUME NEW i \in DOMAIN g, NEW j \in DOMAIN g, i < j, day[i] = day[j] PROVE FALSE
  <2> DEFINE S == {k \in seen : k < j}
  <2>1. i \in seen /\ j \in seen /\ i \in Nat /\ j \in Nat
    BY <1>1, <1>4
  <2>2. S \in SUBSET Nat /\ S # {} /\ \A k \in S : k < j
    BY <1>1, <1>5, <2>1
  <2>3. PICK m \in S : \A k \in S : k <= m
    BY <2>1, <2>2, LastBefore
  <2>4. m \in seen /\ m < j /\ i <= m /\ m \in Nat
    BY <1>5, <2>1, <2>2, <2>3
  <2>5. day[m] = day[j]
    <3>1. day[m] <= day[i] /\ day[m] \in Nat /\ day[i] \in Nat
      BY <1>3, <2>1, <2>4
    <3>2. m <= j
      BY <2>1, <2>4
    <3>3. day[j] <= day[m] /\ day[j] \in Nat
      BY <1>3, <2>1, <2>4, <3>2
    <3>4. QED
      BY <1>5, <3>1, <3>3
  <2>6. PICK k \in seen : m < k /\ k < j
    BY <1>4, <2>4, <2>5
  <2>7. k <= m /\ k \in Nat
    BY <1>1, <2>3, <2>6
  <2>8. QED
    BY <2>4, <2>6, <2>7
<1>6. ASSUME NEW i \in DOMAIN g, NEW j \in DOMAIN g, g[i] = g[j] PROVE i = j
  <2>1. i \in Nat /\ j \in Nat /\ day[i] = day[j]
    BY <1>1, <1>4, <1>6
  <2>2. i < j \/ j < i \/ i = j
    BY <2>1
  <2>3. QED
    BY <1>5, <2>1, <2>2
<1>7. QED
  BY <1>6 DEF IsInjective, g

\* What the page shows with nothing under way.
LEMMA CurrentFollows ==
  ASSUME HistoryInv
  PROVE  NotesAreCurrent
<1> SUFFICES ASSUME ~UnderWay, ~error, ~mixed
             PROVE  /\ \A i, j \in DOMAIN entries : i # j => entries[i] # entries[j]
                    /\ \A kinds \in SUBSET Kind : IsInjective(Groups(kinds))
                    /\ Range(entries) \subseteq {[e EXCEPT !.at = at] : e \in OfContact(open), at \in 0 .. clock}
                    /\ \A e \in OfContact(open), i \in DOMAIN entries :
                         e.kind = "note" /\ e.at > entries[i].at => e \in Range(entries)
  BY DEF NotesAreCurrent
<1>1. Follows(entries, open, record, clock, {}, {})
  <2>1. Loads = {} /\ Gone = {} /\ savingNote = NoNote
    BY DEF UnderWay, Gone
  <2>2. Coming = {}
    BY <2>1 DEF Coming, NoNote
  <2>3. QED
    BY <2>1, <2>2 DEF HistoryInv, PageInv
<1>2. entries \in Seq(Entry) /\ \A i, j \in DOMAIN entries : i < j => entries[i].at > entries[j].at
  BY <1>1 DEF Follows
<1>3. DOMAIN entries = 1 .. Len(entries) /\ Len(entries) \in Nat /\ \A i \in DOMAIN entries : entries[i] \in Entry
  BY <1>2
<1>4. ASSUME NEW i \in DOMAIN entries, NEW j \in DOMAIN entries, i # j PROVE entries[i] # entries[j]
  <2>1. entries[i].at \in Nat /\ entries[j].at \in Nat
    BY <1>3 DEF Entry
  <2>2. i < j \/ j < i
    BY <1>3, <1>4
  <2>3. QED
    BY <1>2, <2>1, <2>2
<1>5. ASSUME NEW i \in DOMAIN entries
      PROVE  entries[i] \in {[e EXCEPT !.at = at] : e \in OfContact(open), at \in 0 .. clock}
  <2>1. PICK e \in record : SameEvent(entries[i], e)
    BY <1>1 DEF Follows
  <2>2. e \in Entry /\ entries[i] \in Entry /\ clock \in Nat /\ entries[i].at <= clock /\ entries[i].contact = open
    BY <1>1, <1>3 DEF Follows, HistoryInv, RecordInv
  <2>3. e \in OfContact(open) /\ entries[i].at \in 0 .. clock
    <3>1. e.contact = open
      BY <2>1, <2>2 DEF SameEvent
    <3>2. entries[i].at \in Nat
      BY <2>2 DEF Entry
    <3>3. QED
      BY <2>2, <3>1, <3>2 DEF OfContact
  <2>4. entries[i] = [e EXCEPT !.at = entries[i].at]
    BY <2>1, <2>2 DEF SameEvent, Entry
  <2>5. QED
    BY <2>3, <2>4
<1>6. ASSUME NEW e \in OfContact(open), NEW i \in DOMAIN entries, e.kind = "note", e.at > entries[i].at
      PROVE  e \in Range(entries)
  <2>1. \E j \in DOMAIN entries : entries[j] = e
    BY <1>1, <1>6 DEF Follows, OfContact
  <2>2. QED
    BY <2>1 DEF Range
<1>7. \A kinds \in SUBSET Kind : IsInjective(Groups(kinds))
  BY <1>2, OneHeading
<1>8. QED
  BY <1>4, <1>5, <1>6, <1>7 DEF Range

-----------------------------------------------------------------------------
\* Steps of the page leave the records as they are.
LEMMA RecordSame ==
  ASSUME RecordInv, UNCHANGED <<record, clock>>
  PROVE  RecordInv'
BY RecordDropped

\* The steps, one by one: a load.
LEMMA ServeTimelineStep ==
  ASSUME HistoryInv, NEW l \in Loading, ServeTimeline(l)
  PROVE  HistoryInv'
<1> DEFINE c == load[l].contact
           done == [pc |-> "served", contact |-> c, entries |-> Timeline(c)]
<1>1. RecordInv' /\ RecordInv
  BY RecordSame DEF HistoryInv, ServeTimeline
<1>2. /\ load[l].pc = "sent" /\ load' = [load EXCEPT ![l] = done]
      /\ UNCHANGED <<record, clock, open, entries, isLoadingTimeline, error, savingNote, deletingNotes, mixed>>
  BY DEF ServeTimeline
<1>3. done.pc = "served" /\ done.contact = c /\ done.entries = Timeline(c)
  OBVIOUS
<1> HIDE DEF done
<1>4. load'[l] = done /\ (\A m \in Loading : m # l => load'[m] = load[m]) /\ load' = [m \in Loading |-> load'[m]]
  BY <1>2 DEF HistoryInv
<1>5. done # NoLoad /\ load[l] # NoLoad
  BY <1>2, <1>3 DEF NoLoad
<1>6. Loads' = Loads /\ l \in Loads
  BY <1>4, <1>5 DEF Loads
<1>7. Gone' = Gone /\ Coming' = Coming
  BY <1>2 DEF Gone, Coming
<1>8. ASSUME PageInv PROVE PageInv'
  <2>1. c = open /\ open \in Visited
    BY <1>6, <1>8 DEF PageInv, HistoryInv
  <2>2. Follows(Timeline(c), c, record, clock, {}, {})
    BY <1>1, <2>1, TimelineFollows
  <2>3. \A m \in Loads' : /\ load'[m].contact = open'
                          /\ load'[m].pc = "served" => Follows(load'[m].entries, open', record', clock', {}, {})
    <3>1. \A m \in Loads' : m \in Loading
      BY DEF Loads
    <3>2. QED
      BY <1>2, <1>3, <1>4, <1>6, <1>8, <2>1, <2>2, <3>1 DEF PageInv
  <2>4. DeletingInv' /\ SavingInv'
    BY <1>2, <1>7, <1>8 DEF PageInv, DeletingInv, SavingInv, IsNote
  <2>5. QED
    BY <1>2, <1>6, <1>7, <1>8, <2>3, <2>4 DEF PageInv
<1>9. QED
  BY <1>1, <1>2, <1>3, <1>4, <1>8 DEF HistoryInv

LEMMA LoadedStep ==
  ASSUME HistoryInv, NEW l \in Loading, Loaded(l)
  PROVE  HistoryInv'
<1>1. RecordInv' /\ RecordInv
  BY RecordSame DEF HistoryInv, Loaded
<1>2. /\ load[l].pc = "served" /\ load' = [load EXCEPT ![l] = NoLoad] /\ entries' = load[l].entries
      /\ isLoadingTimeline' = FALSE /\ UNCHANGED <<record, clock, open, error, savingNote, deletingNotes, mixed>>
  BY DEF Loaded
<1>3. load'[l] = NoLoad /\ (\A m \in Loading : m # l => load'[m] = load[m]) /\ load' = [m \in Loading |-> load'[m]]
  BY <1>2 DEF HistoryInv
<1>4. l \in Loads
  BY <1>2 DEF Loads, NoLoad
<1>5. ASSUME PageInv PROVE PageInv'
  <2>1. Loads = {l} /\ savingNote = NoNote /\ deletingNotes = {} /\ ~error
    BY <1>4, <1>5 DEF PageInv
  <2>2. Loads' = {}
    BY <1>3, <2>1 DEF Loads
  <2>3. Gone' = {} /\ Coming' = {}
    BY <1>2, <2>1 DEF Gone, Coming, NoNote
  <2>4. Follows(entries', open', record', clock', {}, {})
    BY <1>2, <1>4, <1>5 DEF PageInv
  <2>5. DeletingInv' /\ SavingInv'
    BY <1>2, <2>1, <2>3 DEF DeletingInv, SavingInv
  <2>6. QED
    BY <1>2, <2>1, <2>2, <2>3, <2>4, <2>5 DEF PageInv
<1>6. QED
  BY <1>1, <1>2, <1>3, <1>5 DEF HistoryInv

LEMMA LoadFailsStep ==
  ASSUME HistoryInv, NEW l \in Loading, LoadFails(l)
  PROVE  HistoryInv'
<1>1. RecordInv' /\ RecordInv
  BY RecordSame DEF HistoryInv, LoadFails
<1>2. /\ load[l] # NoLoad /\ load' = [load EXCEPT ![l] = NoLoad] /\ error' = TRUE
      /\ isLoadingTimeline' = FALSE /\ UNCHANGED <<record, clock, open, entries, savingNote, deletingNotes, mixed>>
  BY DEF LoadFails
<1>3. load'[l] = NoLoad /\ (\A m \in Loading : m # l => load'[m] = load[m]) /\ load' = [m \in Loading |-> load'[m]]
  BY <1>2 DEF HistoryInv
<1>4. l \in Loads
  BY <1>2 DEF Loads
<1>5. ASSUME PageInv PROVE PageInv'
  <2>1. Loads = {l} /\ savingNote = NoNote /\ deletingNotes = {}
    BY <1>4, <1>5 DEF PageInv
  <2>2. Loads' = {}
    BY <1>3, <2>1 DEF Loads
  <2>3. Coming' = {}
    BY <1>2, <2>1 DEF Coming, NoNote
  <2>4. DeletingInv' /\ SavingInv'
    BY <1>2, <2>1, <2>3 DEF DeletingInv, SavingInv
  <2>5. QED
    BY <1>2, <2>1, <2>2, <2>4 DEF PageInv
<1>6. QED
  BY <1>1, <1>2, <1>3, <1>5 DEF HistoryInv

LEMMA LoadTimelineStep ==
  ASSUME HistoryInv, NEW l \in Loading, NEW c \in Visited, LoadTimeline(l, c)
  PROVE  HistoryInv'
<1> DEFINE sent == [pc |-> "sent", contact |-> c]
<1>1. RecordInv' /\ RecordInv
  BY RecordSame DEF HistoryInv, LoadTimeline
<1>2. /\ load[l] = NoLoad /\ load' = [load EXCEPT ![l] = sent] /\ open' = c /\ error' = FALSE
      /\ isLoadingTimeline' = TRUE /\ mixed' = (mixed \/ UnderWay)
      /\ UNCHANGED <<record, clock, entries, savingNote, deletingNotes>>
  BY DEF LoadTimeline
<1>3. sent.pc = "sent" /\ sent.contact = c /\ sent # NoLoad
  BY DEF NoLoad
<1> HIDE DEF sent
<1>4. load'[l] = sent /\ (\A m \in Loading : m # l => load'[m] = load[m]) /\ load' = [m \in Loading |-> load'[m]]
  BY <1>2 DEF HistoryInv
<1>5. ASSUME PageInv, ~UnderWay PROVE PageInv'
  <2>1. Loads = {} /\ savingNote = NoNote /\ deletingNotes = {}
    BY <1>5 DEF UnderWay
  <2>2. Loads' = {l}
    BY <1>3, <1>4, <2>1 DEF Loads
  <2>3. Coming' = {}
    BY <1>2, <2>1 DEF Coming, NoNote
  <2>4. DeletingInv' /\ SavingInv'
    BY <1>2, <2>1, <2>3 DEF DeletingInv, SavingInv
  <2>5. QED
    BY <1>2, <1>3, <1>4, <2>1, <2>2, <2>4 DEF PageInv
<1>6. mixed' \in BOOLEAN /\ (~mixed' => ~mixed /\ ~UnderWay)
  BY <1>2 DEF HistoryInv
<1>7. QED
  BY <1>1, <1>2, <1>3, <1>4, <1>5, <1>6 DEF HistoryInv

\* The steps of a note.
LEMMA ServeNoteStep ==
  ASSUME HistoryInv, ServeNote
  PROVE  HistoryInv'
<1> DEFINE n == TimelineEntry("note", savingNote.contact, clock + 1)
<1>1. /\ savingNote.pc = "sent" /\ clock' = clock + 1 /\ record' = record \cup {n}
      /\ savingNote' = [pc |-> "served", contact |-> savingNote.contact, note |-> n]
      /\ UNCHANGED <<open, entries, isLoadingTimeline, error, load, deletingNotes, mixed>>
  BY DEF ServeNote
<1>2. savingNote # NoNote /\ savingNote.contact \in Visited /\ clock \in Nat /\ record \subseteq Entry
  BY <1>1 DEF NoNote, HistoryInv, RecordInv
<1>3. RecordInv'
  BY <1>1, <1>2, RecordAdded DEF HistoryInv, Kind
<1>4. n \in Entry /\ n.kind = "note" /\ n.contact = savingNote.contact /\ n.created = clock + 1 /\ n.at = clock + 1
  BY <1>2 DEF TimelineEntry, Entry, Kind
<1> HIDE DEF n
<1>5. savingNote'.contact = savingNote.contact /\ Coming' = {n} /\ Coming = {} /\ Gone' = Gone /\ Loads' = Loads
  BY <1>1 DEF Coming, Gone, Loads
<1>6. ASSUME PageInv PROVE PageInv'
  <2>1. Loads = {} /\ savingNote.contact = open
    BY <1>2, <1>6 DEF PageInv, SavingInv
  <2>2. ~error => Follows(entries, open, record, clock, Gone, {})
    BY <1>5, <1>6, <2>1 DEF PageInv
  <2>3. ~error' => Follows(entries', open', record', clock', Gone', Coming')
    BY <1>1, <1>2, <1>5, <2>2, FollowsNote
  <2>4. \A m \in Entry : IsNote(m) => IsNote(m)' /\ m.at < n.at /\ m \notin record' \ record
    BY <1>1, <1>2, <1>4 DEF IsNote, Entry
  <2>5. DeletingInv'
    <3>1. \A d \in deletingNotes : d.note \in Entry
      BY <1>6 DEF PageInv, DeletingInv
    <3>2. QED
      BY <1>1, <1>6, <2>4, <3>1 DEF PageInv, DeletingInv
  <2>6. SavingInv'
    <3>1. n \in record' /\ n \in Entry /\ n.kind = "note" /\ n.at = n.created /\ n.at <= clock'
      BY <1>1, <1>2, <1>4
    <3>2. \A m \in record' : m.kind = "note" => m.at <= n.at
      <4>1. \A m \in record : m.at \in Nat /\ m.at <= clock
        BY <1>2 DEF HistoryInv, RecordInv, Entry
      <4>2. QED
        BY <1>1, <1>2, <1>4, <4>1
    <3>3. \A d \in deletingNotes' : d.note.at < n.at
      BY <1>1, <1>6, <2>4 DEF PageInv, DeletingInv
    <3>4. ~error => \A i \in DOMAIN entries : entries[i].at < n.at
      <4> SUFFICES ASSUME ~error, NEW i \in DOMAIN entries PROVE entries[i].at < n.at
        OBVIOUS
      <4>1. entries \in Seq(Entry) /\ entries[i].at <= clock
        BY <2>2 DEF Follows
      <4>2. entries[i] \in Entry
        BY <4>1
      <4>3. QED
        BY <1>2, <1>4, <4>1, <4>2 DEF Entry
    <3>5. savingNote'.contact = open' /\ n.contact = open'
      BY <1>1, <1>4, <1>5, <2>1
    <3>6. ASSUME NEW m, m = n
          PROVE  /\ m \in Entry /\ m.kind = "note" /\ m.at = m.created /\ m.at <= clock'
                 /\ m.contact = open' /\ m \in record'
                 /\ \A o \in record' : o.kind = "note" => o.at <= m.at
                 /\ \A d \in deletingNotes' : d.note.at < m.at
                 /\ ~error' => \A i \in DOMAIN entries' : entries'[i].at < m.at
      BY <1>1, <3>1, <3>2, <3>3, <3>4, <3>5, <3>6
    <3>7. \A m \in Coming' : m = n
      BY <1>5
    <3>8. QED
      BY <3>5, <3>6, <3>7 DEF SavingInv, IsNote
  <2>7. QED
    BY <1>1, <1>5, <1>6, <2>1, <2>3, <2>5, <2>6 DEF PageInv
<1>7. QED
  BY <1>1, <1>2, <1>3, <1>5, <1>6 DEF HistoryInv

LEMMA AddNoteStep ==
  ASSUME HistoryInv, AddNote
  PROVE  HistoryInv'
<1>1. RecordInv' /\ RecordInv
  BY RecordSame DEF HistoryInv, AddNote
<1>2. /\ savingNote = NoNote /\ savingNote' = [pc |-> "sent", contact |-> open] /\ mixed' = (mixed \/ Loads # {})
      /\ UNCHANGED <<record, clock, open, entries, isLoadingTimeline, error, load, deletingNotes>>
  BY DEF AddNote
<1>3. savingNote'.contact = open /\ Coming' = {} /\ Coming = {} /\ Gone' = Gone /\ Loads' = Loads
  BY <1>2 DEF Coming, NoNote, Gone, Loads
<1>4. ASSUME PageInv, Loads = {} PROVE PageInv'
  <2>1. DeletingInv' /\ SavingInv'
    BY <1>2, <1>3, <1>4 DEF PageInv, DeletingInv, SavingInv, IsNote
  <2>2. QED
    BY <1>2, <1>3, <1>4, <2>1 DEF PageInv
<1>5. mixed' \in BOOLEAN /\ (~mixed' => ~mixed /\ Loads = {})
  BY <1>2 DEF HistoryInv
<1>6. QED
  BY <1>1, <1>2, <1>3, <1>4, <1>5 DEF HistoryInv

LEMMA NoteAddedStep ==
  ASSUME HistoryInv, NoteAdded
  PROVE  HistoryInv'
<1> DEFINE n == savingNote.note
<1>1. RecordInv' /\ RecordInv
  BY RecordSame DEF HistoryInv, NoteAdded
<1>2. /\ savingNote.pc = "served" /\ savingNote' = NoNote
      /\ UNCHANGED <<record, clock, open, isLoadingTimeline, error, load, deletingNotes, mixed>>
  BY DEF NoteAdded
<1>3. entries' = WithNote(entries, n)
  BY DEF NoteAdded, WithNote
<1>4. Coming' = {} /\ Coming = {n} /\ Gone' = Gone /\ Loads' = Loads /\ savingNote # NoNote
  BY <1>2 DEF Coming, NoNote, Gone, Loads
<1>5. ASSUME PageInv PROVE PageInv'
  <2>1. /\ Loads = {} /\ IsNote(n) /\ n.contact = open /\ n \in record
        /\ \A m \in record : m.kind = "note" => m.at <= n.at
        /\ ~error => \A i \in DOMAIN entries : entries[i].at < n.at
    BY <1>4, <1>5 DEF PageInv, SavingInv
  <2>2. n \in Entry /\ n.at <= clock /\ n.at = n.created /\ record \subseteq Entry
    BY <1>1, <2>1 DEF IsNote, RecordInv
  <2>3. ~error => Follows(entries, open, record, clock, Gone, {n})
    BY <1>4, <1>5, <2>1 DEF PageInv
  <2>4. ~error => Follows(entries', open, record, clock, Gone, {})
    BY <1>3, <2>1, <2>2, <2>3, FollowsPut
  <2>5. DeletingInv' /\ SavingInv'
    BY <1>2, <1>4, <1>5 DEF PageInv, DeletingInv, SavingInv, IsNote
  <2>6. QED
    BY <1>2, <1>4, <1>5, <2>1, <2>4, <2>5 DEF PageInv
<1>6. QED
  BY <1>1, <1>2, <1>5 DEF HistoryInv

LEMMA NoteFailsStep ==
  ASSUME HistoryInv, NoteFails
  PROVE  HistoryInv'
<1>1. RecordInv' /\ RecordInv
  BY RecordSame DEF HistoryInv, NoteFails
<1>2. /\ savingNote # NoNote /\ savingNote' = NoNote /\ mixed' = (mixed \/ savingNote.pc = "served")
      /\ UNCHANGED <<record, clock, open, entries, isLoadingTimeline, error, load, deletingNotes>>
  BY DEF NoteFails
<1>3. Coming' = {} /\ Gone' = Gone /\ Loads' = Loads
  BY <1>2 DEF Coming, NoNote, Gone, Loads
<1>4. ASSUME PageInv, savingNote.pc # "served" PROVE PageInv'
  <2>1. Coming = {} /\ Loads = {}
    BY <1>2, <1>4 DEF Coming, PageInv
  <2>2. DeletingInv' /\ SavingInv'
    BY <1>2, <1>3, <1>4 DEF PageInv, DeletingInv, SavingInv, IsNote
  <2>3. QED
    BY <1>2, <1>3, <1>4, <2>1, <2>2 DEF PageInv
<1>5. mixed' \in BOOLEAN /\ (~mixed' => ~mixed /\ savingNote.pc # "served")
  BY <1>2 DEF HistoryInv
<1>6. QED
  BY <1>1, <1>2, <1>4, <1>5 DEF HistoryInv

LEMMA DeleteNoteStep ==
  ASSUME HistoryInv, NEW e \in Range(entries), DeleteNote(e)
  PROVE  HistoryInv'
<1> DEFINE d == [pc |-> "sent", note |-> e]
<1>1. RecordInv' /\ RecordInv
  BY RecordSame DEF HistoryInv, DeleteNote
<1>2. /\ e.kind = "note" /\ ~isLoadingTimeline /\ ~error /\ deletingNotes' = deletingNotes \cup {d}
      /\ UNCHANGED <<record, clock, open, entries, isLoadingTimeline, error, load, savingNote, mixed>>
  BY DEF DeleteNote
<1>3. d.pc = "sent" /\ d.note = e
  OBVIOUS
<1>4. Coming' = Coming /\ Gone' = Gone /\ Loads' = Loads
  BY <1>2, <1>3 DEF Coming, Gone, Loads
<1>5. ASSUME PageInv PROVE PageInv'
  <2>1. Loads = {} /\ Follows(entries, open, record, clock, Gone, Coming)
    BY <1>2, <1>5 DEF PageInv
  <2>2. PICK i \in DOMAIN entries : entries[i] = e
    BY DEF Range
  <2>3. entries \in Seq(Entry) /\ e.at <= clock /\ e.at = e.created
    BY <1>2, <2>1, <2>2 DEF Follows
  <2>4. e \in Entry
    BY <2>2, <2>3
  <2>5. IsNote(e)' /\ d \in [pc : {"sent", "served"}, note : Entry]
    BY <1>2, <2>3, <2>4 DEF IsNote
  <2> HIDE DEF d
  <2>6. DeletingInv'
    BY <1>2, <1>3, <1>5, <2>5 DEF PageInv, DeletingInv, IsNote
  <2>7. \A n \in Coming : e.at < n.at
    BY <1>2, <1>5, <2>2 DEF PageInv, SavingInv
  <2>8. SavingInv'
    BY <1>2, <1>3, <1>4, <1>5, <2>7 DEF PageInv, SavingInv, IsNote
  <2>9. QED
    BY <1>2, <1>4, <1>5, <2>1, <2>6, <2>8 DEF PageInv
<1>6. QED
  BY <1>1, <1>2, <1>5 DEF HistoryInv

LEMMA ServeDeleteNoteStep ==
  ASSUME HistoryInv, NEW d \in deletingNotes, ServeDeleteNote(d)
  PROVE  HistoryInv'
<1> DEFINE done == [d EXCEPT !.pc = "served"]
<1>1. /\ d.pc = "sent" /\ record' = record \ {d.note} /\ deletingNotes' = (deletingNotes \ {d}) \cup {done}
      /\ UNCHANGED <<clock, open, entries, isLoadingTimeline, error, load, savingNote, mixed>>
  BY DEF ServeDeleteNote
<1>2. RecordInv' /\ RecordInv
  BY <1>1, RecordDropped DEF HistoryInv
<1>3. Coming' = Coming /\ Loads' = Loads
  BY <1>1 DEF Coming, Loads
<1>4. ASSUME PageInv PROVE PageInv'
  <2>1. Loads = {} /\ ~error /\ Follows(entries, open, record, clock, Gone, Coming)
    BY <1>4 DEF PageInv
  <2>2. d \in [pc : {"sent", "served"}, note : Entry] /\ IsNote(d.note)
    BY <1>4 DEF PageInv, DeletingInv
  <2>3. done.pc = "served" /\ done.note = d.note /\ done \in [pc : {"sent", "served"}, note : Entry]
    BY <2>2
  <2> HIDE DEF done
  <2>4. Gone' = Gone \cup {d.note}
    BY <1>1, <2>3 DEF Gone
  <2>5. Follows(entries', open', record', clock', Gone', Coming')
    BY <1>1, <1>3, <2>1, <2>2, <2>4, FollowsGone DEF IsNote
  <2>6. DeletingInv'
    BY <1>1, <1>4, <2>2, <2>3 DEF PageInv, DeletingInv, IsNote
  <2>7. \A n \in Coming : n # d.note
    <3>1. \A n \in Coming : d.note.at < n.at /\ IsNote(n)
      BY <1>4 DEF PageInv, SavingInv
    <3>2. QED
      BY <3>1 DEF IsNote, Entry
  <2>8. SavingInv'
    BY <1>1, <1>3, <1>4, <2>3, <2>7 DEF PageInv, SavingInv, IsNote
  <2>9. QED
    BY <1>1, <1>3, <1>4, <2>1, <2>5, <2>6, <2>8 DEF PageInv
<1>5. QED
  BY <1>1, <1>2, <1>4 DEF HistoryInv

LEMMA NoteDeletedStep ==
  ASSUME HistoryInv, NEW d \in deletingNotes, NoteDeleted(d)
  PROVE  HistoryInv'
<1>1. RecordInv' /\ RecordInv
  BY RecordSame DEF HistoryInv, NoteDeleted
<1>2. /\ d.pc = "served" /\ deletingNotes' = deletingNotes \ {d}
      /\ UNCHANGED <<record, clock, open, isLoadingTimeline, error, load, savingNote, mixed>>
  BY DEF NoteDeleted
<1>3. entries' = WithoutNote(entries, d.note)
  BY DEF NoteDeleted, WithoutNote
<1>4. Coming' = Coming /\ Loads' = Loads
  BY <1>2 DEF Coming, Loads
<1>5. ASSUME PageInv PROVE PageInv'
  <2>1. Loads = {} /\ ~error /\ Follows(entries, open, record, clock, Gone, Coming)
    BY <1>5 DEF PageInv
  <2>2. d.note \notin record
    BY <1>2, <1>5 DEF PageInv, DeletingInv
  <2>3. /\ Follows(entries', open, record, clock, Gone \ {d.note}, Coming)
        /\ \A k \in DOMAIN entries' : \E i \in DOMAIN entries : entries'[k] = entries[i]
    BY <1>3, <2>1, <2>2, FollowsTaken
  <2>4. Gone' = Gone \ {d.note}
    <3>1. \A x \in deletingNotes : x = [pc |-> x.pc, note |-> x.note]
      BY <1>5 DEF PageInv, DeletingInv
    <3>2. \A x \in deletingNotes : x.pc = "served" /\ x.note = d.note => x = d
      BY <1>2, <3>1
    <3>3. QED
      BY <1>2, <3>2 DEF Gone
  <2>5. DeletingInv'
    BY <1>2, <1>5 DEF PageInv, DeletingInv, IsNote
  <2>6. SavingInv'
    BY <1>2, <1>4, <1>5, <2>1, <2>3 DEF PageInv, SavingInv, IsNote
  <2>7. QED
    BY <1>2, <1>4, <1>5, <2>1, <2>3, <2>4, <2>5, <2>6 DEF PageInv
<1>6. QED
  BY <1>1, <1>2, <1>5 DEF HistoryInv

LEMMA DeleteNoteFailsStep ==
  ASSUME HistoryInv, NEW d \in deletingNotes, DeleteNoteFails(d)
  PROVE  HistoryInv'
<1>1. RecordInv' /\ RecordInv
  BY RecordSame DEF HistoryInv, DeleteNoteFails
<1>2. /\ deletingNotes' = deletingNotes \ {d} /\ mixed' = (mixed \/ d.pc = "served")
      /\ UNCHANGED <<record, clock, open, entries, isLoadingTimeline, error, load, savingNote>>
  BY DEF DeleteNoteFails
<1>3. Coming' = Coming /\ Loads' = Loads
  BY <1>2 DEF Coming, Loads
<1>4. ASSUME PageInv, d.pc # "served" PROVE PageInv'
  <2>1. Gone' = Gone
    BY <1>2, <1>4 DEF Gone
  <2>2. DeletingInv' /\ SavingInv'
    BY <1>2, <1>3, <1>4 DEF PageInv, DeletingInv, SavingInv, IsNote
  <2>3. QED
    BY <1>2, <1>3, <1>4, <2>1, <2>2 DEF PageInv
<1>5. mixed' \in BOOLEAN /\ (~mixed' => ~mixed /\ d.pc # "served")
  BY <1>2 DEF HistoryInv
<1>6. QED
  BY <1>1, <1>2, <1>4, <1>5 DEF HistoryInv

\* The steps elsewhere.
LEMMA HappenStep ==
  ASSUME HistoryInv, NEW kind \in {"call", "email"}, NEW c \in Visited, Happen(kind, c)
  PROVE  HistoryInv'
<1> DEFINE new == TimelineEntry(kind, c, clock + 1)
<1>1. /\ clock' = clock + 1 /\ record' = record \cup {new}
      /\ UNCHANGED <<open, entries, isLoadingTimeline, error, load, savingNote, deletingNotes, mixed>>
  BY DEF Happen
<1>2. RecordInv' /\ RecordInv /\ clock \in Nat
  BY <1>1, RecordAdded DEF HistoryInv, RecordInv, Kind
<1>3. new.kind # "note"
  BY DEF TimelineEntry
<1> HIDE DEF new
<1>4. Coming' = Coming /\ Loads' = Loads /\ Gone' = Gone
  BY <1>1 DEF Coming, Loads, Gone
<1>5. ASSUME PageInv PROVE PageInv'
  <2>1. Loads = {} /\ ~error => Follows(entries', open', record', clock', Gone', Coming')
    BY <1>1, <1>2, <1>3, <1>4, <1>5, FollowsMore DEF PageInv
  <2>2. \A l \in Loads : load[l].pc = "served" => Follows(load'[l].entries, open', record', clock', {}, {})
    BY <1>1, <1>2, <1>3, <1>5, FollowsMore DEF PageInv
  <2>3. \A n : IsNote(n) => IsNote(n)' /\ n # new
    BY <1>1, <1>2, <1>3 DEF IsNote, Entry
  <2>4. DeletingInv'
    BY <1>1, <1>5, <2>3 DEF PageInv, DeletingInv
  <2>5. SavingInv'
    BY <1>1, <1>3, <1>4, <1>5, <2>3 DEF PageInv, SavingInv
  <2>6. QED
    BY <1>1, <1>4, <1>5, <2>1, <2>2, <2>4, <2>5 DEF PageInv
<1>6. QED
  BY <1>1, <1>2, <1>5 DEF HistoryInv

LEMMA SendMailStep ==
  ASSUME HistoryInv, NEW e \in record, SendMail(e)
  PROVE  HistoryInv'
<1> DEFINE new == [e EXCEPT !.at = clock + 1]
<1>1. /\ clock' = clock + 1 /\ record' = (record \ {e}) \cup {new} /\ e.kind = "email"
      /\ UNCHANGED <<open, entries, isLoadingTimeline, error, load, savingNote, deletingNotes, mixed>>
  BY DEF SendMail
<1>2. RecordInv' /\ RecordInv /\ clock \in Nat
  BY RecordSent DEF HistoryInv, RecordInv
<1>3. SameEvent(new, e) /\ new.kind # "note"
  BY <1>1, <1>2 DEF SameEvent, RecordInv, Entry
<1> HIDE DEF new
<1>4. Coming' = Coming /\ Loads' = Loads /\ Gone' = Gone
  BY <1>1 DEF Coming, Loads, Gone
<1>5. ASSUME PageInv PROVE PageInv'
  <2>1. Loads = {} /\ ~error => Follows(entries', open', record', clock', Gone', Coming')
    BY <1>1, <1>2, <1>3, <1>4, <1>5, FollowsSent DEF PageInv
  <2>2. \A l \in Loads : load[l].pc = "served" => Follows(load'[l].entries, open', record', clock', {}, {})
    BY <1>1, <1>2, <1>3, <1>5, FollowsSent DEF PageInv
  <2>3. \A n : IsNote(n) => IsNote(n)' /\ n # new /\ n # e
    BY <1>1, <1>2, <1>3 DEF IsNote, Entry
  <2>4. DeletingInv'
    BY <1>1, <1>5, <2>3 DEF PageInv, DeletingInv
  <2>5. SavingInv'
    BY <1>1, <1>3, <1>4, <1>5, <2>3 DEF PageInv, SavingInv
  <2>6. QED
    BY <1>1, <1>4, <1>5, <2>1, <2>2, <2>4, <2>5 DEF PageInv
<1>6. QED
  BY <1>1, <1>2, <1>5 DEF HistoryInv

\* It holds at the start.
LEMMA HistoryBegins == TimelineInit => HistoryInv
<1> SUFFICES ASSUME TimelineInit PROVE HistoryInv
  OBVIOUS
<1>1. /\ record = {TimelineEntry("import", c, 0) : c \in Imported} /\ clock = 0 /\ open \in Visited
      /\ entries = << >> /\ isLoadingTimeline = TRUE /\ error = FALSE /\ mixed = FALSE
      /\ savingNote = NoNote /\ deletingNotes = {}
  BY DEF TimelineInit
<1>2. PICK l \in Loading : load = [m \in Loading |-> IF m = l THEN [pc |-> "sent", contact |-> open] ELSE NoLoad]
  BY DEF TimelineInit
<1>3. RecordInv
  <2>1. \A e \in record : /\ e \in Entry /\ e.kind = "import" /\ e.created = 0 /\ e.at = 0
                          /\ e = TimelineEntry("import", e.contact, 0)
    BY <1>1, TimelineAssumption DEF TimelineEntry, Entry, Kind
  <2>2. ASSUME NEW c \in Visited PROVE IsFiniteSet(OfContact(c))
    <3>1. OfContact(c) \in SUBSET {TimelineEntry("import", c, 0)}
      BY <2>1 DEF OfContact
    <3>2. QED
      BY <3>1, FS_Singleton, FS_Subset
  <2>3. QED
    BY <1>1, <2>1, <2>2 DEF RecordInv
<1>4. load[l].pc = "sent" /\ load[l].contact = open /\ load[l] # NoLoad /\ \A m \in Loading : m # l => load[m] = NoLoad
  BY <1>2 DEF NoLoad
<1>5. Loads = {l}
  BY <1>4 DEF Loads
<1>6. Coming = {}
  BY <1>1 DEF Coming, NoNote
<1>7. PageInv
  BY <1>1, <1>4, <1>5, <1>6 DEF PageInv, DeletingInv, SavingInv
<1>8. load = [m \in Loading |-> load[m]]
  BY <1>2
<1>9. QED
  BY <1>1, <1>3, <1>4, <1>7, <1>8 DEF HistoryInv

\* Every step keeps it.
LEMMA HistoryStep == HistoryInv /\ [TimelineNext]_timelineVars => HistoryInv'
<1> SUFFICES ASSUME HistoryInv, [TimelineNext]_timelineVars PROVE HistoryInv'
  OBVIOUS
<1>1. CASE UNCHANGED timelineVars
  <2>1. RecordInv'
    BY <1>1, RecordSame DEF timelineVars, HistoryInv
  <2>2. Loads' = Loads /\ Gone' = Gone /\ Coming' = Coming
    BY <1>1 DEF timelineVars, Loads, Gone, Coming
  <2>3. PageInv => PageInv'
    BY <1>1, <2>2 DEF timelineVars, PageInv, DeletingInv, SavingInv, IsNote
  <2>4. QED
    BY <1>1, <2>1, <2>3 DEF timelineVars, HistoryInv
<1>2. CASE TimelineNext
  BY <1>2, ServeTimelineStep, LoadedStep, LoadFailsStep, LoadTimelineStep, ServeNoteStep, AddNoteStep, NoteAddedStep,
     NoteFailsStep, ServeDeleteNoteStep, NoteDeletedStep, DeleteNoteFailsStep, DeleteNoteStep, HappenStep, SendMailStep
     DEF TimelineNext
<1>3. QED
  BY <1>1, <1>2

(***************************************************************************)
(* The history of a contact (timeline.service.ts and the page of           *)
(* contact-timeline.service.ts), for any contacts, records, limit, days    *)
(* and interleaving of requests: the server's answer is of the last events *)
(* of every kind, and with nothing under way the page shows its contact's  *)
(* notes, each once and each day under one heading, but for the crossings  *)
(* and lost answers it excepts.                                            *)
(***************************************************************************)
THEOREM TheHistoryIsTrue == TimelineSpec => []HistoryIsTrue
<1>1. HistoryInv => HistoryIsTrue
  BY CurrentFollows, LatestFollows DEF HistoryIsTrue, HistoryInv
<1>2. QED
  BY <1>1, HistoryBegins, HistoryStep, PTL DEF TimelineSpec

=============================================================================
