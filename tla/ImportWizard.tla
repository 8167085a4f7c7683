----------------------------- MODULE ImportWizard -----------------------------
(***************************************************************************)
(* The import wizard (frontend/src/app/features/imports/): a file is       *)
(* analyzed, its columns are mapped to fields, the mapping is committed.   *)
(* What the server makes of the file is in SpreadsheetAnalysis, what       *)
(* becomes of the rows that are good in Imports: here each is a contact or *)
(* not.  Strategy and tags are left out.                                   *)
(***************************************************************************)
EXTENDS SpreadsheetAnalysis

CONSTANTS File,    \* the files the user may choose
          Offered, \* bound: the fields the user may assign
          NoFile

VARIABLES
  step,       \* "upload", "map" or "result"
  analyzing,  \* the file being analyzed
  analysis,   \* the grid that was analyzed; empty if there is none
  mapping,    \* for each column its field, whether it was flagged, and confirmed
  session,    \* the server still has the grid
  committing, \* where the commit stands: "no", "sent", "served", "refused"
  outcome,    \* what the server did with the rows
  result      \* what the user is told of it

wizardVars == <<step, analyzing, analysis, mapping, session, committing, outcome, result>>

ASSUME WizardAssumption ==
  /\ NoFile \notin File /\ Offered \subseteq Field
  /\ \A f \in File : /\ {f.name, f.holds} \subseteq {"xlsx", "xls", "csv"}
                     /\ f.sheets \in Seq(Seq(Seq(Cell)))
                     /\ \A s \in DOMAIN f.sheets : \A r \in DOMAIN f.sheets[s] :
                          Len(f.sheets[s][r]) = Len(f.sheets[s][1])

SessionEntry == [field : Field \cup {NoField, "ignore"}, flagged : BOOLEAN, confirmed : BOOLEAN]
NoResult == [rows |-> 0, good |-> {}]

WizardInit ==
  /\ step = "upload" /\ analyzing = NoFile /\ analysis = << >> /\ mapping = << >>
  /\ session = FALSE /\ committing = "no" /\ outcome = NoResult /\ result = NoResult

-----------------------------------------------------------------------------
\* The drop zone is closed while a file is read.
ChooseFile(f) ==
  /\ step = "upload" /\ analyzing = NoFile
  /\ analyzing' = f
  /\ UNCHANGED <<step, analysis, mapping, session, committing, outcome, result>>

Grid(file) == ToGrid(ChosenSheet(file.sheets))
IsUsable(file) == Readable(file) /\ file.sheets # << >> /\ Grid(file) # << >>

\* toEditableMapping(): what was not flagged is confirmed.
ToEditableMapping(suggestions) ==
  [k \in DOMAIN suggestions |->
     [field |-> suggestions[k].field, flagged |-> ~suggestions[k].sure, confirmed |-> suggestions[k].sure]]

\* analyze() and its answer
Analyzed ==
  /\ analyzing # NoFile /\ IsUsable(analyzing)
  /\ analysis' = Grid(analyzing)
  /\ mapping' = ToEditableMapping(Suggest(analysis'))
  /\ step' = "map" /\ analyzing' = NoFile /\ session' = TRUE
  /\ UNCHANGED <<committing, outcome, result>>

\* The file is refused, or the answer is lost.
AnalyzeFails ==
  /\ analyzing # NoFile /\ analyzing' = NoFile
  /\ UNCHANGED <<step, analysis, mapping, session, committing, outcome, result>>

-----------------------------------------------------------------------------
Assign(k, f) ==
  mapping' = [j \in DOMAIN mapping |->
                IF j = k THEN [mapping[j] EXCEPT !.field = f, !.confirmed = TRUE]
                ELSE IF f \in Field /\ mapping[j].field = f
                     THEN [mapping[j] EXCEPT !.field = NoField, !.confirmed = FALSE]
                ELSE mapping[j]]

\* Mutant of AssignField: the columns may be changed while they are committed.
AssignFieldAnytime(k, f) ==
  /\ step = "map" /\ k \in DOMAIN mapping /\ Assign(k, f)
  /\ UNCHANGED <<step, analyzing, analysis, session, committing, outcome, result>>

\* assignField(): a field is held by one column, so another lets go of it.
AssignField(k, f) ==
  /\ step = "map" /\ committing = "no" /\ k \in DOMAIN mapping /\ Assign(k, f)
  /\ UNCHANGED <<step, analyzing, analysis, session, committing, outcome, result>>

\* confirmSuggestion(); confirmAllSuggestions() also while the commit is under way
Confirm(columns) ==
  /\ step = "map"
  /\ \/ committing = "no" /\ \E k \in DOMAIN mapping : columns = {k}
     \/ columns = DOMAIN mapping
  /\ mapping' = [k \in DOMAIN mapping |->
                   IF k \in columns THEN [mapping[k] EXCEPT !.confirmed = TRUE] ELSE mapping[k]]
  /\ UNCHANGED <<step, analyzing, analysis, session, committing, outcome, result>>

Unconfirmed == {k \in DOMAIN mapping : mapping[k].flagged /\ ~mapping[k].confirmed}
MappedFields == {mapping[k].field : k \in DOMAIN mapping} \cap Field

\* hasName(), hasChannel(); assertMappingIsUsable() asks for the same
IsMapped(fields) ==
  fields \cap {"name", "firstName", "lastName"} # {} /\ fields \cap {"phone", "email"} # {}

CanCommit == IsMapped(MappedFields) /\ Unconfirmed = {} /\ committing = "no"

Commit ==
  /\ step = "map" /\ CanCommit
  /\ committing' = "sent"
  /\ UNCHANGED <<step, analyzing, analysis, mapping, session, outcome, result>>

\* buildDrafts(): every data row is a contact, or reported.
BuildDrafts ==
  LET fields == [k \in DOMAIN mapping |-> mapping[k].field]
  IN  [rows |-> Cardinality(DataRows(analysis)),
       good |-> {r \in DataRows(analysis) : IsGood(analysis[r], fields)}]

\* The server commits, and forgets the grid, or refuses; with the mapping it was
\* sent, which is the one on the screen.
ServeCommit ==
  /\ committing = "sent"
  /\ \/ /\ session /\ IsMapped(MappedFields)
        /\ outcome' = BuildDrafts /\ session' = FALSE /\ committing' = "served"
     \/ committing' = "refused" /\ UNCHANGED <<outcome, session>>
  /\ UNCHANGED <<step, analyzing, analysis, mapping, result>>

Committed ==
  /\ committing = "served" /\ committing' = "no"
  /\ result' = outcome /\ step' = "result"
  /\ UNCHANGED <<analyzing, analysis, mapping, session, outcome>>

\* A refusal, or a lost answer: the user may commit again, and is told that the
\* session has expired.
CommitFails ==
  /\ committing \in {"served", "refused"} /\ committing' = "no"
  /\ UNCHANGED <<step, analyzing, analysis, mapping, session, outcome, result>>

\* The session expires, or is evicted.
Forget ==
  /\ session /\ session' = FALSE
  /\ UNCHANGED <<step, analyzing, analysis, mapping, committing, outcome, result>>

\* backToUpload(), its button held while committing, and reset() with the result
BackToUpload ==
  /\ \/ step = "map" /\ committing = "no" /\ UNCHANGED result
     \/ step = "result" /\ result' = NoResult
  /\ step' = "upload" /\ analysis' = << >> /\ mapping' = << >> /\ session' = FALSE
  /\ outcome' = NoResult
  /\ UNCHANGED <<analyzing, committing>>

WizardNext ==
  \/ \E f \in File : ChooseFile(f)
  \/ Analyzed \/ AnalyzeFails
  \/ \E k \in 1 .. MaxColumns, f \in Offered \cup {NoField, "ignore"} : AssignField(k, f)
  \/ \E columns \in SUBSET (1 .. MaxColumns) : Confirm(columns)
  \/ Commit \/ ServeCommit \/ Committed \/ CommitFails \/ Forget \/ BackToUpload

WizardSpec == WizardInit /\ [][WizardNext]_wizardVars

-----------------------------------------------------------------------------
(***************************************************************************)
(* Properties.                                                             *)
(***************************************************************************)

(***************************************************************************)
(* No two columns are mapped to one field, whatever the server suggested   *)
(* and the user changed: RowBuilder would take the first and leave the     *)
(* values of the other out.                                                *)
(***************************************************************************)
FieldHeldOnce ==
  \A j, k \in DOMAIN mapping : j # k /\ mapping[j].field \in Field => mapping[j].field # mapping[k].field

(***************************************************************************)
(* The result is that of the file and the mapping the user last saw, with  *)
(* every column in doubt confirmed, and accounts for every row counted     *)
(* there, across refusals, lost answers and second attempts.               *)
(***************************************************************************)
ResultIsOfTheMapping ==
  step = "result" => result = BuildDrafts /\ Unconfirmed = {}

(***************************************************************************)
(* What the wizard answers for: the mapping it shows and the result it tells.*)
(***************************************************************************)
WizardIsTrue == FieldHeldOnce /\ ResultIsOfTheMapping

==============================================================================
