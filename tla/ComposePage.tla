----------------------------- MODULE ComposePage -----------------------------
(***************************************************************************)
(* The composer (frontend/src/app/features/emails/compose-page/): whom the *)
(* user has selected, recipients added by address (each a request of its   *)
(* own), the draft, previews asked for and answered in any order, and the  *)
(* send.  What becomes of a message is in EmailDelivery.  A contact stands *)
(* for its address too; subject, body, template and signature are one      *)
(* draft, and attachments and past messages are left out.  Which of the    *)
(* selected contacts is previewed is left open.  What a request does that  *)
(* the page believes to have failed, it does before the page gives it up.  *)
(***************************************************************************)
EXTENDS FiniteSets

CONSTANTS Person,    \* people with an e-mail address
          Draft,     \* what a message may say
          Empty,     \* the draft that says nothing
          Glimpse,   \* previews that may be asked for at once
          Adding,    \* times that addresses may be being added at once
          NoPreview

VARIABLES
  page,      \* "loading", "error" or "ready"
  contacts,  \* the contacts the composer knows
  selected,  \* the recipients
  draft,     \* what the message says
  prefill,   \* where the follow-up draft stands: "none", "asked"
  adding,    \* each time, the recipients being added: those still to do, and the set to be selected
  preview,   \* the preview shown
  glimpses,  \* the previews asked for
  sending,   \* where the send stands: "no", "sent", "served", "refused"
  payload,   \* whom it is for
  stored,    \* the contacts of the workspace
  picked,    \* history: chosen by the user since they were last written to
  requested, \* history: the preview last asked for
  crossed,   \* history: two previews were under way at once
  raced,     \* history: the selection was used while recipients were being added
  unheard    \* history: selected since a send wrote to them of which the page heard only a failure

composeVars ==
  <<page, contacts, selected, draft, prefill, adding, preview, glimpses, sending, payload,
    stored, picked, requested, crossed, raced, unheard>>

ASSUME ComposeAssumption ==
  Empty \in Draft /\ IsFiniteSet(Person) /\ NoPreview \notin [who : Person, says : Draft]

PreviewOf == [who : Person, says : Draft] \cup {NoPreview}
NotAdding == [on |-> FALSE, todo |-> {}, next |-> {}]

ComposeInit ==
  /\ page = "loading" /\ contacts = {} /\ selected = {} /\ draft = Empty
  /\ prefill = "none" /\ adding = [s \in Adding |-> NotAdding] /\ preview = NoPreview
  /\ glimpses = [g \in Glimpse |-> NoPreview] /\ sending = "no" /\ payload = {}
  /\ stored \in SUBSET Person /\ picked = {} /\ requested = NoPreview
  /\ crossed = FALSE /\ raced = FALSE /\ unheard = {}

-----------------------------------------------------------------------------
Busy == {g \in Glimpse : glimpses[g] # NoPreview}

\* The times that addresses are being added.
Adds == {s \in Adding : adding[s].on}

CanSend == selected # {} /\ draft # Empty /\ sending = "no"

\* The selection changes by the user's hand.
Choose(chosen) ==
  /\ selected' = chosen
  /\ picked' = (picked \ selected) \cup (picked \cap chosen) \cup (chosen \ selected)
  /\ raced' = (raced \/ Adds # {}) /\ unheard' = unheard \cap chosen

\* load(); with a follow-up the draft for it is asked for next
LoadComposer(outcome, followUp) ==
  /\ \/ /\ page = "loading" /\ page' = outcome
        /\ IF outcome = "ready"
           THEN contacts' = stored /\ prefill' = IF followUp THEN "asked" ELSE "none"
           ELSE UNCHANGED <<contacts, prefill>>
     \/ page = "error" /\ page' = "loading" /\ UNCHANGED <<contacts, prefill>>
  /\ UNCHANGED <<selected, draft, adding, preview, glimpses, sending, payload, stored, picked,
                 requested, crossed, raced, unheard>>

\* applyFollowUp(): the draft arrives, over whatever was typed and selected meanwhile.
ApplyFollowUp(p, d) ==
  /\ prefill = "asked" /\ prefill' = "none"
  /\ \/ draft' = d /\ IF p \in contacts THEN Choose({p}) ELSE UNCHANGED <<selected, picked, raced, unheard>>
     \/ UNCHANGED <<draft, selected, picked, raced, unheard>>
  /\ UNCHANGED <<page, contacts, adding, preview, glimpses, sending, payload, stored, requested, crossed>>

\* toggleRecipient(), selectAllReachable(), clearRecipients() and removeRecipient()
Select(chosen) ==
  /\ page = "ready"
  /\ \/ \E p \in contacts : chosen \in {selected \ {p}, selected \cup {p}}
     \/ chosen \in {contacts, {}}
  /\ Choose(chosen)
  /\ UNCHANGED <<page, contacts, draft, prefill, adding, preview, glimpses, sending, payload,
                 stored, requested, crossed>>

\* setSubject(), setBodyHtml(), applyTemplate() and setSignature()
Write(d) ==
  /\ page = "ready" /\ draft' = d
  /\ UNCHANGED <<page, contacts, selected, prefill, adding, preview, glimpses, sending, payload,
                 stored, picked, requested, crossed, raced, unheard>>

-----------------------------------------------------------------------------
\* Mutant of AskPreview: with nobody selected the last preview stays.
AskPreviewOnly(g, chosen) ==
  IF chosen = {} THEN requested' = NoPreview /\ UNCHANGED <<preview, glimpses, crossed>>
  ELSE /\ glimpses[g] = NoPreview
       /\ \E p \in chosen : requested' = [who |-> p, says |-> draft]
       /\ glimpses' = [glimpses EXCEPT ![g] = requested']
       /\ crossed' = (crossed \/ Busy # {})
       /\ UNCHANGED preview

\* refreshPreview() up to its request, with these contacts selected
AskPreview(g, chosen) ==
  IF chosen = {} THEN preview' = NoPreview /\ requested' = NoPreview /\ crossed' = (crossed \/ Busy # {})
                      /\ UNCHANGED glimpses
  ELSE /\ glimpses[g] = NoPreview
       /\ \E p \in chosen : requested' = [who |-> p, says |-> draft]
       /\ glimpses' = [glimpses EXCEPT ![g] = requested']
       /\ crossed' = (crossed \/ Busy # {})
       /\ UNCHANGED preview

\* showNextPreview(), or refreshPreview() by hand
RefreshPreview(g) ==
  /\ page = "ready" /\ AskPreview(g, selected \cap contacts)
  /\ UNCHANGED <<page, contacts, selected, draft, prefill, adding, sending, payload, stored,
                 picked, raced, unheard>>

\* Its answer is shown, or its failure reported.
PreviewAnswered(g) ==
  /\ glimpses[g] # NoPreview
  /\ glimpses' = [glimpses EXCEPT ![g] = NoPreview]
  /\ \/ preview' = glimpses[g] /\ UNCHANGED requested
     \/ requested' = preview /\ UNCHANGED preview
  /\ UNCHANGED <<page, contacts, selected, draft, prefill, adding, sending, payload, stored,
                 picked, crossed, raced, unheard>>

-----------------------------------------------------------------------------
\* addRecipientEmails(): the selection is copied first; who is known is added at once.
AddRecipients(s, people) ==
  /\ page = "ready" /\ ~adding[s].on
  /\ adding' = [adding EXCEPT ![s] = [on |-> TRUE, todo |-> people \ contacts,
                                      next |-> selected \cup (people \cap contacts)]]
  /\ picked' = picked \cup people
  /\ raced' = (raced \/ sending # "no")
  /\ UNCHANGED <<page, contacts, selected, draft, prefill, preview, glimpses, sending, payload,
                 stored, requested, crossed, unheard>>

\* A contact is created for the next address, found to exist, or neither (or the
\* answer is lost).  Whom the page has come to know meanwhile it need not create,
\* which looks the same; it may also have asked already.
AddNext(s, p, outcome) ==
  /\ adding[s].on /\ p \in adding[s].todo
  /\ stored' = stored \cup {p} \/ (outcome = "failed" /\ stored' = stored)
  /\ CASE outcome = "added" ->
            /\ contacts' = contacts \cup {p}
            /\ adding' = [adding EXCEPT ![s].todo = @ \ {p}, ![s].next = @ \cup {p}]
       [] outcome = "failed" -> adding' = [adding EXCEPT ![s].todo = @ \ {p}] /\ UNCHANGED contacts
       [] outcome = "aborted" -> adding' = [adding EXCEPT ![s] = NotAdding] /\ UNCHANGED contacts
  /\ UNCHANGED <<page, selected, draft, prefill, preview, glimpses, sending, payload, picked,
                 requested, crossed, raced, unheard>>

\* The copy becomes the selection, and is previewed.
AddDone(s, g) ==
  /\ adding[s].on /\ adding[s].todo = {}
  /\ selected' = adding[s].next /\ adding' = [adding EXCEPT ![s] = NotAdding]
  /\ IF adding[s].next = {} THEN UNCHANGED <<preview, glimpses, requested, crossed>>
                            ELSE AskPreview(g, adding[s].next \cap contacts)
  /\ UNCHANGED <<page, contacts, draft, prefill, sending, payload, stored, picked, raced, unheard>>

-----------------------------------------------------------------------------
Send ==
  /\ page = "ready" /\ CanSend
  /\ sending' = "sent" /\ payload' = selected
  /\ raced' = (raced \/ Adds # {})
  /\ UNCHANGED <<page, contacts, selected, draft, prefill, adding, preview, glimpses, stored,
                 picked, requested, crossed, unheard>>

\* compose(): the server queues a message for each, or fails, having queued some
\* of them once the records are written.
Compose ==
  /\ sending = "sent"
  /\ \/ sending' = "served" /\ picked' = picked \ payload /\ UNCHANGED unheard
     \/ \E reached \in SUBSET payload :
          /\ sending' = "refused" /\ picked' = picked \ reached
          /\ unheard' = unheard \cup (reached \cap selected)
  /\ UNCHANGED <<page, contacts, selected, draft, prefill, adding, preview, glimpses, payload,
                 stored, requested, crossed, raced>>

\* Mutant of Sent: the recipients stay selected.
SentKept ==
  /\ sending = "served" /\ sending' = "no" /\ payload' = {}
  /\ preview' = NoPreview /\ requested' = NoPreview /\ crossed' = (crossed \/ Busy # {})
  /\ UNCHANGED <<page, contacts, selected, draft, prefill, adding, glimpses, stored, picked, raced, unheard>>

\* The answer: whoever is selected by now is dropped, and the preview.
Sent ==
  /\ sending = "served" /\ sending' = "no" /\ payload' = {}
  /\ selected' = {} /\ picked' = picked \ selected /\ unheard' = {}
  /\ preview' = NoPreview /\ requested' = NoPreview /\ crossed' = (crossed \/ Busy # {})
  /\ UNCHANGED <<page, contacts, draft, prefill, adding, glimpses, stored, raced>>

\* A failure, or an answer that is lost: whoever is selected stays so.
SendFails ==
  /\ sending \in {"served", "refused"} /\ sending' = "no" /\ payload' = {}
  /\ unheard' = IF sending = "served" THEN unheard \cup (payload \cap selected) ELSE unheard
  /\ UNCHANGED <<page, contacts, selected, draft, prefill, adding, preview, glimpses, stored,
                 picked, requested, crossed, raced>>

ComposeNext ==
  \/ \E o \in {"ready", "error"}, f \in BOOLEAN : LoadComposer(o, f)
  \/ \E p \in Person, d \in Draft : ApplyFollowUp(p, d)
  \/ \E chosen \in SUBSET Person : Select(chosen)
  \/ \E d \in Draft : Write(d)
  \/ \E g \in Glimpse : RefreshPreview(g) \/ PreviewAnswered(g)
  \/ \E s \in Adding :
       \/ \E people \in SUBSET Person \ {{}} : AddRecipients(s, people)
       \/ \E p \in Person, o \in {"added", "failed", "aborted"} : AddNext(s, p, o)
       \/ \E g \in Glimpse : AddDone(s, g)
  \/ Send \/ Compose \/ Sent \/ SendFails

ComposeSpec == ComposeInit /\ [][ComposeNext]_composeVars

-----------------------------------------------------------------------------
(***************************************************************************)
(* Properties.                                                             *)
(***************************************************************************)

(***************************************************************************)
(* Whoever is selected between two sends was chosen by the user since they *)
(* were last written to, so that pressing Send again writes to nobody      *)
(* twice, unless the page heard only a failure of the send that wrote to   *)
(* them: its answer was lost, or compose() failed with some of them        *)
(* queued.  Those stay selected until the user or a send clears them, and  *)
(* are written to again.  Excepted too is a selection used while addresses *)
(* were being added, which puts back the selection from before.            *)
(***************************************************************************)
NobodyIsLeftSelected == ~raced /\ sending = "no" => selected \subseteq picked \cup unheard

(***************************************************************************)
(* With no request under way the preview shown is the one asked for last,  *)
(* unless two were under way at once, or a send ended or the selection was *)
(* emptied during one: previews are shown in the order they are answered.  *)
(***************************************************************************)
PreviewIsTheLast == ~crossed /\ Busy = {} => preview = requested

(***************************************************************************)
(* What the composer answers for: whom it writes to and what it shows.     *)
(***************************************************************************)
ComposerIsTrue == NobodyIsLeftSelected /\ PreviewIsTheLast

==============================================================================
