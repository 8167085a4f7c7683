------------------------------- MODULE MCParts -------------------------------
(***************************************************************************)
(* The screens of the browser and the parts of the server that share no    *)
(* state with others, for TLC to explore in one run: `part` says which of  *)
(* them moves, the others stay as they began.                              *)
(***************************************************************************)
EXTENDS CallsPage, ComposePage, ContactListPage, ImportWizard, ContactTimeline,
        EmailLibrary, Dialing, AccountsPage, Templates

CONSTANTS p1, p2, r1, r2, l1, l2, c1, c2

VARIABLE part

Pair == {p1, p2}
Slots == {r1, r2}
Lists == {l1, l2}
Symmetry == Permutations(Pair) \cup Permutations(Slots) \cup Permutations(Lists)

-----------------------------------------------------------------------------
\* The contact list: two contacts, one of them found by the search.
MCContact == 1 .. 2
MCSearch == {"", "a"}
MCHits == [s \in MCSearch |-> IF s = "" THEN MCContact ELSE {1}]

\* The import wizard: tables of two columns with one contact; one without a
\* header; sheets to be passed over; and what is refused.
Phone == "98123 45670"
Mail == "asha@company.com"
MCCell == {"", "Name", "Mobile", "Phone number", "Details", "Asha", Phone, Mail, "42", "Contact list"}
MCLooks == [c \in MCCell |-> CASE c = Phone -> "phone" [] c = Mail -> "email" [] c = "42" -> "number"
                               [] c = "" -> "text" [] OTHER -> "name"]
MCExact == [c \in MCCell |-> CASE c = "Name" -> {"name"} [] c \in {"Mobile", "Phone number"} -> {"phone"}
                               [] c = "Details" -> {"notes"} [] OTHER -> {}]
MCHints == [c \in MCCell |-> CASE c \in {"Mobile", "Phone number"} -> {"phone"} [] c = Mail -> {"company"}
                               [] OTHER -> {}]
Book(sheets) == [name |-> "xlsx", holds |-> "xlsx", sheets |-> sheets]
MCFile ==
  {Book(<< << <<h, "Mobile">>, <<a, b>> >> >>) :
     h \in {"Name", "Details", "Mobile"}, a \in {"Asha", Phone, ""}, b \in {Phone, "42"}} \cup
  {Book(<< << >>, << <<"Contact list", "", "">>, <<h, "Phone number", "Mobile">>, <<"Asha", v, Phone>>,
                     <<Phone, "Asha", "Asha">>, <<"", "42", "">>, <<"", "", "">> >> >>) :
     h \in {"Name", "Asha"}, v \in {"Asha", Phone}} \cup
  {Book(<< << <<"Asha", Phone, Mail>>, <<"Asha", Phone, "42">> >> >>),
   Book(<< << >>, << <<"", "">> >> >>),
   [name |-> "csv", holds |-> "csv", sheets |-> << >>],
   [name |-> "xls", holds |-> "xls", sheets |-> << << <<"Name">> >> >>]}

\* Dialling: one line in all its spellings, another that begins with the
\* country's code, a foreign one, a short one, and what is none.
National == <<9, 8, 7, 6, 5, 4, 3, 2, 1, 0>>
Confusing == <<9, 1, 7, 6, 5, 4, 3, 2, 1, 0>>
MCWritten ==
  Spellings(National) \cup
  {[plus |-> FALSE, digits |-> Confusing], [plus |-> TRUE, digits |-> <<9, 1>> \o Confusing],
   [plus |-> TRUE, digits |-> <<1, 5, 5, 5, 5, 5, 5, 5, 5, 5, 5>>],
   [plus |-> FALSE, digits |-> <<5, 5, 5, 5, 5>>], [plus |-> FALSE, digits |-> <<0, 0, 0, 0, 0, 0, 0>>]}
MCAgent == {[plus |-> FALSE, digits |-> Confusing], [plus |-> TRUE, digits |-> <<1, 5, 5, 5, 5, 5, 5, 5, 5, 5, 5>>],
            [plus |-> FALSE, digits |-> <<5, 5, 5, 5, 5>>]}
MCDialCode == {<<9, 1>>, <<9, 8>>, <<1>>, <<9, 9, 5>>}

\* Templates: a placeholder, one that is not known, tags, and a bracket for the
\* contact's name to complete.
MCTag == {"<b>", "<script>"}
MCQuoted == [t \in MCTag |-> "quoted " \o t]
Name == "contact.name"
MCText == {<<"{{", Name, "}}">>, <<"<script>", "{{", "contact.age", "}}", "{{">>, <<Name, "}}">>}
MCPiece == {"{{", "}}", "break", Name, "contact.age", "contact.email", "sender.name", "Ravi", Mail} \cup MCTag
             \cup {MCQuoted[t] : t \in MCTag}
Nameless == ("contact.name" :> << >>) @@ ("contact.email" :> << >>) @@ ("sender.name" :> <<"Ravi">>)
MCCard == {Nameless, [Nameless EXCEPT ![Name] = <<"<b>", "{{", Name, "}}", "break", "<script>">>, !["contact.email"] = <<Mail>>]}
MCClosing == <<"<b>", "{{", "sender.name", "}}">>

-----------------------------------------------------------------------------
\* What a part may begin with is left open only where it is the part that moves.
Init ==
  /\ part \in {"calls", "compose", "list", "wizard", "timeline", "library", "dialing", "accounts", "templates"}
  /\ CallsInit /\ ComposeInit /\ ListInit /\ WizardInit /\ TimelineInit /\ LibraryInit /\ DialingInit
  /\ AccountsInit /\ TemplatesInit
  /\ part = "compose" \/ stored = {}
  /\ part = "list" \/ list = {}
  /\ part = "timeline" \/ open = c1
  /\ part = "dialing" \/ env = {}
  /\ part = "accounts" \/ account = {}
  /\ part = "templates" \/ card = Nameless

CallsMoves ==
  /\ part = "calls" /\ CallsNext
  /\ UNCHANGED <<part, composeVars, listVars, wizardVars, timelineVars,
                 libraryVars, dialingVars, accountsVars, templateVars>>

\* Bound: the composer is left once one of its two properties no longer speaks
\* of it; what the other is about does not depend on that.
ComposeMoves ==
  /\ part = "compose" /\ ~raced /\ ~crossed /\ ComposeNext
  /\ UNCHANGED <<part, callsVars, listVars, wizardVars, timelineVars,
                 libraryVars, dialingVars, accountsVars, templateVars>>

ListMoves ==
  /\ part = "list" /\ ListNext
  /\ UNCHANGED <<part, callsVars, composeVars, wizardVars, timelineVars,
                 libraryVars, dialingVars, accountsVars, templateVars>>

WizardMoves ==
  /\ part = "wizard" /\ WizardNext
  /\ UNCHANGED <<part, callsVars, composeVars, listVars, timelineVars,
                 libraryVars, dialingVars, accountsVars, templateVars>>

TimelineMoves ==
  /\ part = "timeline" /\ TimelineNext
  /\ UNCHANGED <<part, callsVars, composeVars, listVars, wizardVars,
                 libraryVars, dialingVars, accountsVars, templateVars>>

LibraryMoves ==
  /\ part = "library" /\ LibraryNext
  /\ UNCHANGED <<part, callsVars, composeVars, listVars, wizardVars,
                 timelineVars, dialingVars, accountsVars, templateVars>>

DialingMoves ==
  /\ part = "dialing" /\ DialingNext
  /\ UNCHANGED <<part, callsVars, composeVars, listVars, wizardVars,
                 timelineVars, libraryVars, accountsVars, templateVars>>

AccountsMoves ==
  /\ part = "accounts" /\ AccountsNext
  /\ UNCHANGED <<part, callsVars, composeVars, listVars, wizardVars,
                 timelineVars, libraryVars, dialingVars, templateVars>>

TemplatesMoves ==
  /\ part = "templates" /\ TemplatesNext
  /\ UNCHANGED <<part, callsVars, composeVars, listVars, wizardVars,
                 timelineVars, libraryVars, dialingVars, accountsVars>>

Next ==
  \/ CallsMoves \/ ComposeMoves \/ ListMoves \/ WizardMoves \/ TimelineMoves
  \/ LibraryMoves \/ DialingMoves \/ AccountsMoves \/ TemplatesMoves

Spec ==
  Init /\ [][Next]_<<part, callsVars, composeVars, listVars, wizardVars, timelineVars,
                   libraryVars, dialingVars, accountsVars, templateVars>>

=============================================================================
