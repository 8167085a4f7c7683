--------------------------- MODULE ContactListPage ---------------------------
(***************************************************************************)
(* The contact list (frontend/src/app/features/contacts/): its search box, *)
(* filter and pages, the one list request a switchMap keeps, deletions and *)
(* the dialog that adds a contact; and the query the server answers        *)
(* (backend/src/modules/contacts/contact.repository.ts).  Contacts are     *)
(* numbers, listed in their order; sort orders, tags and edits are left    *)
(* out, and every filter but the search is one.                            *)
(***************************************************************************)
EXTENDS Integers, FiniteSets

CONSTANTS Contact,   \* an interval of numbers from 1
          Search,    \* what the box may hold; the empty search matches all
          NoSearch,
          Hits,      \* whom each search finds
          Filtered,  \* whom the filter lets through
          PageSize

VARIABLES
  list,      \* the contacts of the workspace
  query,     \* what is shown: search, filter and page
  box,       \* what the search box holds
  emitted,   \* the search that last left the box
  typing,    \* the box has been idle for less than the debounce
  typed,     \* the search it held when it was last typed in
  fetch,     \* the list request under way
  alive,     \* the stream of reloads is still subscribed to
  status,    \* "idle", "loading", "loaded" or "error"
  resultPage, \* the answer shown
  deleting,  \* where the deletion of each contact stands
  dialog,    \* the dialog is open
  saving,    \* where its request stands
  missed     \* history: a change of ours whose answer nobody heard

listVars ==
  <<list, query, box, emitted, typing, typed, fetch, alive, status, resultPage, deleting, dialog, saving, missed>>

ASSUME ListAssumption ==
  /\ PageSize \in Nat \ {0} /\ Filtered \subseteq Contact
  /\ Hits \in [Search -> SUBSET Contact] /\ Hits[NoSearch] = Contact

Pages == 1 .. Cardinality(Contact) + 1
Query == [search : Search, filter : BOOLEAN, page : Pages]
DefaultQuery == [search |-> NoSearch, filter |-> FALSE, page |-> 1]
Page == [of : Query, items : SUBSET Contact, total : 0 .. Cardinality(Contact)]
NoPage == [of |-> DefaultQuery, items |-> {}, total |-> 0]
NoFetch == [stage |-> "none", page |-> NoPage]

ListInit ==
  /\ list \in SUBSET Contact /\ query = DefaultQuery /\ box = NoSearch /\ emitted = NoSearch
  /\ typing = FALSE /\ typed = NoSearch /\ fetch = NoFetch /\ alive = TRUE /\ status = "idle" /\ resultPage = NoPage
  /\ deleting = [c \in Contact |-> "no"] /\ dialog = FALSE /\ saving = "no" /\ missed = FALSE

-----------------------------------------------------------------------------
\* buildFilter()
Matching(q) == {c \in list \cap Hits[q.search] : q.filter => c \in Filtered}

\* How many contacts of a set come before a contact.
Rank(c, s) == Cardinality({d \in s : d < c})

\* findPaged()
FindPaged(q) ==
  [of |-> q, total |-> Cardinality(Matching(q)),
   items |-> {c \in Matching(q) : Rank(c, Matching(q)) \div PageSize = q.page - 1}]

-----------------------------------------------------------------------------
\* Mutant of Reload: an older request goes on beside the new one.
ReloadKeepingOld(q) ==
  /\ query' = q
  /\ IF alive THEN /\ status' = "loading"
                   /\ fetch' = IF fetch.stage = "none"
                               THEN [stage |-> "sent", page |-> [NoPage EXCEPT !.of = q]] ELSE fetch
              ELSE UNCHANGED <<fetch, status>>

\* The query is set and reload$ emits: the request under way is dropped for a
\* new one, unless the stream has ended.
Reload(q) ==
  /\ query' = q
  /\ IF alive THEN /\ status' = "loading"
                   /\ fetch' = [stage |-> "sent", page |-> [NoPage EXCEPT !.of = q]]
              ELSE UNCHANGED <<fetch, status>>

\* load(), when the page is opened and on "try again"
LoadList ==
  /\ status \in {"idle", "error"} /\ Reload(query)
  /\ UNCHANGED <<list, box, emitted, typing, typed, alive, resultPage, deleting, dialog, saving, missed>>

Type(s) ==
  /\ status # "idle" /\ box # s /\ box' = s /\ typed' = s /\ typing' = TRUE
  /\ UNCHANGED <<list, query, emitted, fetch, alive, status, resultPage, deleting, dialog, saving, missed>>

\* debounceTime() and distinctUntilChanged(): what was typed last is searched for,
\* also if the box was emptied since, and the box is bound to the query.
Debounced ==
  /\ typing /\ typing' = FALSE /\ typed' = NoSearch
  /\ IF typed = emitted THEN UNCHANGED <<query, fetch, status, emitted, box>>
     ELSE emitted' = typed /\ box' = typed /\ Reload([query EXCEPT !.search = typed, !.page = 1])
  /\ UNCHANGED <<list, alive, resultPage, deleting, dialog, saving, missed>>

\* onTagChange(), onChannelChange(): the first page of the filtered list
SetFilter(f) ==
  /\ status # "idle" /\ query.filter # f
  /\ Reload([query EXCEPT !.filter = f, !.page = 1])
  /\ UNCHANGED <<list, box, emitted, typing, typed, alive, resultPage, deleting, dialog, saving, missed>>

\* The contacts and the paginator stay on the screen while others are loaded.
Shown == status \in {"loaded", "loading"} /\ resultPage.items # {}

\* onPageChange(), within the pages of the result shown
GoToPage(p) ==
  /\ Shown /\ (p - 1) * PageSize < resultPage.total
  /\ Reload([query EXCEPT !.page = p])
  /\ UNCHANGED <<list, box, emitted, typing, typed, alive, resultPage, deleting, dialog, saving, missed>>

\* resetFilters(): a box whose search was applied is emptied with it.
ResetFilters ==
  /\ query.search # NoSearch \/ query.filter
  /\ Reload(DefaultQuery)
  /\ box' = IF query.search # NoSearch THEN NoSearch ELSE box
  /\ UNCHANGED <<list, emitted, typing, typed, alive, resultPage, deleting, dialog, saving, missed>>

\* list(): the server answers with the page as it is then.
ServeList ==
  /\ fetch.stage = "sent" /\ fetch' = [stage |-> "served", page |-> FindPaged(fetch.page.of)]
  /\ UNCHANGED <<list, query, box, emitted, typing, typed, alive, status, resultPage, deleting, dialog, saving, missed>>

Listed ==
  /\ fetch.stage = "served" /\ fetch' = NoFetch
  /\ resultPage' = fetch.page /\ status' = "loaded"
  /\ UNCHANGED <<list, query, box, emitted, typing, typed, alive, deleting, dialog, saving, missed>>

\* A failed request ends the stream.
ListFails ==
  /\ fetch.stage # "none" /\ fetch' = NoFetch
  /\ alive' = FALSE /\ status' = "error"
  /\ UNCHANGED <<list, query, box, emitted, typing, typed, resultPage, deleting, dialog, saving, missed>>

-----------------------------------------------------------------------------
\* afterMutation(): the page before, once the only contact on it is gone
AfterMutation ==
  Reload(IF Cardinality(resultPage.items) = 1 /\ query.page > 1
         THEN [query EXCEPT !.page = @ - 1] ELSE query)

Delete(c) ==
  /\ Shown /\ c \in resultPage.items /\ deleting[c] = "no"
  /\ deleting' = [deleting EXCEPT ![c] = "sent"]
  /\ UNCHANGED <<list, query, box, emitted, typing, typed, fetch, alive, status, resultPage, dialog, saving, missed>>

ServeDelete(c) ==
  /\ deleting[c] = "sent"
  /\ \/ list' = list \ {c}
        /\ deleting' = [deleting EXCEPT ![c] = IF c \in list THEN "gone" ELSE "failed"]
     \/ deleting' = [deleting EXCEPT ![c] = "failed"] /\ UNCHANGED list
  /\ UNCHANGED <<query, box, emitted, typing, typed, fetch, alive, status, resultPage, dialog, saving, missed>>

Deleted(c) ==
  /\ deleting[c] = "gone" /\ deleting' = [deleting EXCEPT ![c] = "no"]
  /\ AfterMutation
  /\ UNCHANGED <<list, box, emitted, typing, typed, alive, resultPage, dialog, saving, missed>>

DeleteFails(c) ==
  /\ deleting[c] \in {"gone", "failed"} /\ deleting' = [deleting EXCEPT ![c] = "no"]
  /\ missed' = (missed \/ deleting[c] = "gone")
  /\ UNCHANGED <<list, query, box, emitted, typing, typed, fetch, alive, status, resultPage, dialog, saving>>

\* The dialog of a new contact is opened, and left with nothing saved: also
\* while its request is under way.
OpenDialog ==
  /\ status # "idle" /\ ~dialog /\ saving = "no" /\ dialog' = TRUE
  /\ UNCHANGED <<list, query, box, emitted, typing, typed, fetch, alive, status, resultPage, deleting, saving, missed>>

CancelDialog ==
  /\ dialog /\ dialog' = FALSE
  /\ UNCHANGED <<list, query, box, emitted, typing, typed, fetch, alive, status, resultPage, deleting, saving, missed>>

Save ==
  /\ dialog /\ saving = "no" /\ saving' = "sent"
  /\ UNCHANGED <<list, query, box, emitted, typing, typed, fetch, alive, status, resultPage, deleting, dialog, missed>>

ServeSave(c) ==
  /\ saving = "sent"
  /\ \/ c \notin list /\ list' = list \cup {c} /\ saving' = "saved"
     \/ saving' = "refused" /\ UNCHANGED list
  /\ UNCHANGED <<query, box, emitted, typing, typed, fetch, alive, status, resultPage, deleting, dialog, missed>>

\* The saved contact closes the dialog, and only then the list is loaded anew.
Saved ==
  /\ saving = "saved" /\ saving' = "no" /\ dialog' = FALSE
  /\ IF dialog THEN Reload(query) ELSE UNCHANGED <<query, fetch, status>>
  /\ missed' = (missed \/ ~dialog)
  /\ UNCHANGED <<list, box, emitted, typing, typed, alive, resultPage, deleting>>

SaveFails ==
  /\ saving \in {"saved", "refused"} /\ saving' = "no"
  /\ missed' = (missed \/ saving = "saved")
  /\ UNCHANGED <<list, query, box, emitted, typing, typed, fetch, alive, status, resultPage, deleting, dialog>>

\* Bound: the page is left once nobody heard of a change.
ListNext ==
  /\ ~missed
  /\ \/ LoadList \/ Debounced \/ ResetFilters \/ ServeList \/ Listed \/ ListFails
     \/ OpenDialog \/ CancelDialog \/ Save \/ Saved \/ SaveFails
     \/ \E s \in Search : Type(s)
     \/ \E f \in BOOLEAN : SetFilter(f)
     \/ \E p \in Pages : GoToPage(p)
     \/ \E c \in Contact : Delete(c) \/ ServeDelete(c) \/ Deleted(c) \/ DeleteFails(c) \/ ServeSave(c)

ListSpec == ListInit /\ [][ListNext]_listVars

-----------------------------------------------------------------------------
(***************************************************************************)
(* Properties.                                                             *)
(***************************************************************************)
Settled ==
  fetch = NoFetch /\ saving = "no" /\ status # "idle" /\ \A c \in Contact : deleting[c] = "no"

(***************************************************************************)
(* Once everything is answered, the list is the page asked for last as the *)
(* server has it, whatever was typed, filtered, deleted and added on the   *)
(* way: unless a list request failed, which ends the reloads for good, or  *)
(* nobody heard the answer to a change.                                    *)
(***************************************************************************)
ListIsCurrent == Settled /\ alive /\ ~missed => status = "loaded" /\ resultPage = FindPaged(query)

=============================================================================
