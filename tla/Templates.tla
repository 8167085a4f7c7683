------------------------------ MODULE Templates ------------------------------
(***************************************************************************)
(* Templates and what is made of them: TemplateRenderer, the templates of  *)
(* EmailService, its preview() and the rendering part of its compose().    *)
(*                                                                         *)
(* A text is a sequence of pieces: the brackets {{ and }}, the paths that  *)
(* may stand between them, tags, line breaks and words.  A contact's       *)
(* fields are texts too, for nothing keeps brackets or tags out of them.   *)
(* White space is left out: the code tolerates it around a path.           *)
(***************************************************************************)
EXTENDS Naturals, Sequences, FiniteSets, SequencesExt

CONSTANTS Piece,          \* what texts are made of
          Known, Unknown, \* paths: TEMPLATE_VARIABLES and others
          Safe, Unsafe,   \* tags that are allowed, and those that are not
          Quoted,         \* the escaped form of each tag, a word
          Closing,        \* the text of the default signature
          Text,           \* subjects and bodies that may be written
          Card,           \* fields of the contact: texts by known path
          TemplateName, MaxTemplates

VARIABLES
  template, \* [name, subject, body, variables]
  card,     \* the contact
  rendered  \* the last preview or message, with what it was made of

templateVars == <<template, card, rendered>>

Opening == "{{"
End == "}}"
Break == "break"
Tag == Safe \cup Unsafe

ASSUME TemplateAssumption ==
  /\ "contact.email" \in Known /\ Known \cap Unknown = {} /\ Safe \cap Unsafe = {} /\ Tag \subseteq Piece
  /\ ({Opening, End, Break} \cup Known \cup Unknown) \cap Tag = {} /\ Quoted \in [Tag -> Piece \ Tag]
  /\ Text \subseteq Seq(Piece) /\ Closing \in Seq(Piece) /\ Card \subseteq [Known -> Seq(Piece)]
  /\ MaxTemplates \in Nat

-----------------------------------------------------------------------------
(***************************************************************************)
(* TemplateRenderer                                                        *)
(***************************************************************************)

\* PLACEHOLDER_PATTERN: where one begins
Placeholders(s) ==
  {i \in DOMAIN s : i + 2 <= Len(s) /\ s[i] = Opening /\ s[i + 1] \in Known \cup Unknown /\ s[i + 2] = End}

Paths(s) == {s[i + 1] : i \in Placeholders(s)}

\* resolve(): of an unknown path nothing
Resolve(path, fields) == IF path \in Known THEN fields[path] ELSE << >>

\* Each placeholder gives way to its value, which is not looked into again.
Replace(s, Value(_)) ==
  FlattenSeq([i \in DOMAIN s |->
    IF i \in Placeholders(s) THEN Value(s[i + 1])
    ELSE IF {i - 1, i - 2} \cap Placeholders(s) # {} THEN << >>
    ELSE <<s[i]>>])

RenderText(s, fields) == Replace(s, LAMBDA path : Resolve(path, fields))

\* The pieces of a text that are not of a set
Strip(s, S) == FlattenSeq([i \in DOMAIN s |-> IF s[i] \in S THEN << >> ELSE <<s[i]>>])

\* escapeHtml()
EscapeHtml(s) == [i \in DOMAIN s |-> IF s[i] \in Tag THEN Quoted[s[i]] ELSE s[i]]

Sanitize(s) == Strip(s, Unsafe)

\* Mutant of RenderHtml: the template is sanitized, not what comes of it.
RenderSanitized(s, fields) == Replace(Sanitize(s), LAMBDA path : Resolve(path, fields))

RenderHtml(s, fields) == Sanitize(Replace(s, LAMBDA path : EscapeHtml(Resolve(path, fields))))

\* renderSubject(): a header has no line breaks.
RenderSubject(s, fields) == Strip(RenderText(s, fields), {Break})

ExtractVariables(s) == Paths(s) \cap Known

FindUnresolved(s, fields) == {path \in Paths(s) : Resolve(path, fields) = << >>}

\* htmlToPlainText(): the tags go, and what was escaped is read again.
HtmlToPlainText(s) ==
  LET shown == Strip(s, Tag)
  IN  [i \in DOMAIN shown |->
        IF \E t \in Tag : Quoted[t] = shown[i] THEN CHOOSE t \in Tag : Quoted[t] = shown[i] ELSE shown[i]]

-----------------------------------------------------------------------------
(***************************************************************************)
(* The templates.                                                          *)
(***************************************************************************)

NotRendered == [for |-> "none"]

TemplatesInit == template = {} /\ card \in Card /\ rendered = NotRendered

\* The index of the collection: a name is used once.
Taken(name, others) == \E t \in others : t.name = name

\* createTemplate(), of the repository too
CreateTemplate(name, subject, body) ==
  LET clean == Sanitize(body) IN
  /\ Cardinality(template) < MaxTemplates /\ ~Taken(name, template)
  /\ template' = template \cup {[name |-> name, subject |-> subject, body |-> clean,
                                 variables |-> ExtractVariables(subject \o clean)]}
  /\ UNCHANGED <<card, rendered>>

\* Mutant of UpdateTemplate: the variables are those of the old text.
UpdateTextOnly(t, name, subject, body) ==
  /\ t \in template /\ ~Taken(name, template \ {t})
  /\ template' = (template \ {t}) \cup {[name |-> name, subject |-> subject, body |-> Sanitize(body),
                                         variables |-> t.variables]}
  /\ UNCHANGED <<card, rendered>>

\* updateTemplate()
UpdateTemplate(t, name, subject, body) ==
  LET clean == Sanitize(body) IN
  /\ t \in template /\ ~Taken(name, template \ {t})
  /\ template' = (template \ {t}) \cup {[name |-> name, subject |-> subject, body |-> clean,
                                         variables |-> ExtractVariables(subject \o clean)]}
  /\ UNCHANGED <<card, rendered>>

DeleteTemplate(t) ==
  /\ t \in template /\ template' = template \ {t}
  /\ UNCHANGED <<card, rendered>>

\* The contact is edited: buildRenderContext() reads it as it is.
EditContact(c) == c # card /\ card' = c /\ rendered' = NotRendered /\ UNCHANGED template

-----------------------------------------------------------------------------
(***************************************************************************)
(* Previews and messages, of a template or of what was written.            *)
(***************************************************************************)

\* What a draft comes to, as preview() and compose() both make it; only
\* preview() looks for what stays unresolved.
Rendered(for, subject, body, unresolved) ==
  LET composed == body \o Closing
      html == RenderHtml(composed, card)
  IN  [for |-> for, drafted |-> [subject |-> subject, body |-> composed],
       subject |-> RenderSubject(subject, card), body |-> html, plain |-> HtmlToPlainText(html),
       unresolved |-> unresolved]

\* preview()
Preview(subject, body) ==
  /\ rendered' = Rendered("preview", subject, body, FindUnresolved(subject \o body \o Closing, card))
  /\ UNCHANGED <<template, card>>

\* compose(), the part of one contact: one without an address is skipped.
ComposeFor(subject, body) ==
  /\ card["contact.email"] # << >> /\ rendered' = Rendered("message", subject, body, {})
  /\ UNCHANGED <<template, card>>

TemplatesNext ==
  \/ \E name \in TemplateName, subject, body \in Text :
       \/ CreateTemplate(name, subject, body)
       \/ \E t \in template : UpdateTemplate(t, name, subject, body)
  \/ \E t \in template : DeleteTemplate(t) \/ Preview(t.subject, t.body) \/ ComposeFor(t.subject, t.body)
  \/ \E subject, body \in Text : Preview(subject, body) \/ ComposeFor(subject, body)
  \/ \E c \in Card : EditContact(c)

TemplatesSpec == TemplatesInit /\ [][TemplatesNext]_templateVars

-----------------------------------------------------------------------------
(***************************************************************************)
(* Properties.                                                             *)
(***************************************************************************)

Tags(s) == Strip(s, ToSet(s) \ Tag)

(***************************************************************************)
(* Whatever a contact's fields hold, what is shown or sent has the tags    *)
(* its author wrote, less those that are not allowed, and no others; its   *)
(* subject is one line; and a preview names every placeholder that comes   *)
(* out empty.                                                              *)
(***************************************************************************)
ContactsAddNoMarkup ==
  rendered.for # "none" =>
    /\ Tags(rendered.body) = Tags(Sanitize(rendered.drafted.body))
    /\ \A i \in DOMAIN rendered.subject : rendered.subject[i] # Break
    /\ rendered.for = "preview" =>
         {path \in Paths(rendered.drafted.subject) \cup Paths(rendered.drafted.body) :
            Resolve(path, card) = << >>} \subseteq rendered.unresolved

(***************************************************************************)
(* A template lists every variable its subject or its body uses, through   *)
(* any edits ("variables detected at save time, so the UI can list them",  *)
(* email-template.model.ts:9).                                             *)
(***************************************************************************)
TemplatesListTheirVariables ==
  \A t \in template : (Paths(t.subject) \cup Paths(t.body)) \cap Known \subseteq t.variables

(***************************************************************************)
(* What templates answer for: what comes of them and what they list.       *)
(***************************************************************************)
TemplatesAreFaithful == ContactsAddNoMarkup /\ TemplatesListTheirVariables

==============================================================================
