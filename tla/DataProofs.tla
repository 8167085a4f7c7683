------------------------------ MODULE DataProofs ------------------------------
(***************************************************************************)
(* Theorems about the parts of Parts and Reports that are mostly data: the *)
(* import wizard, the reports behind their cache, dialling and templates,  *)
(* for every value of their constants.                                     *)
(***************************************************************************)
EXTENDS ImportWizard, Dialing, Templates, Reports, FiniteSetTheorems, SequenceTheorems, TLAPS

-----------------------------------------------------------------------------
(***************************************************************************)
(* Least and greatest numbers of a set: the naturals are well-founded.     *)
(***************************************************************************)
\* Every set of naturals that is not empty has a least one.
LEMMA LeastThereIs ==
  ASSUME NEW S \in SUBSET Nat, S # {}
  PROVE  \E m \in S : \A n \in S : m <= n
<1> DEFINE R == OpToRel(<, Nat)
<1>1. IsWellFoundedOn(R, Nat)
  BY NatLessThanWellFounded
<1>2. \A x, y \in Nat : <<x, y>> \notin R => y <= x
  BY SMT DEF OpToRel
<1> HIDE DEF R
<1>3. PICK m \in S : \A n \in S : <<n, m>> \notin R
  BY <1>1, WFMin
<1>4. QED
  BY <1>2, <1>3

\* Min and Max are what they are called.
LEMMA MinIsLeast ==
  ASSUME NEW S \in SUBSET Nat, S # {}
  PROVE  Min(S) \in S /\ \A n \in S : Min(S) <= n
BY LeastThereIs DEF Min

LEMMA MinOfTwo ==
  ASSUME NEW a \in Int, NEW b \in Int
  PROVE  Min({a, b}) = IF a <= b THEN a ELSE b
BY DEF Min

LEMMA MaxIsGreatest ==
  ASSUME NEW S \in SUBSET Nat, S # {}, NEW b \in Nat, \A n \in S : n <= b
  PROVE  Max(S) \in S /\ \A n \in S : Max(S) >= n
<1> DEFINE T == {b - n : n \in S}
<1>1. T \in SUBSET Nat /\ T # {}
  <2>1. \A n \in S : b - n \in Nat
    OBVIOUS
  <2>2. QED
    BY <2>1
<1>2. PICK t \in T : \A u \in T : t <= u
  BY <1>1, LeastThereIs
<1>3. PICK m \in S : t = b - m
  BY <1>2
<1>4. ASSUME NEW n \in S PROVE m >= n
  <2>1. t <= b - n
    BY <1>2
  <2>2. m \in Nat /\ n \in Nat
    OBVIOUS
  <2>3. QED
    BY <1>3, <2>1, <2>2
<1>5. QED
  BY <1>3, <1>4 DEF Max

-----------------------------------------------------------------------------
(***************************************************************************)
(* The import wizard.                                                      *)
(***************************************************************************)

\* A column of the mapping is its field and its two marks.
MappingIsWhole ==
  /\ mapping = [k \in DOMAIN mapping |-> mapping[k]]
  /\ \A k \in DOMAIN mapping : DOMAIN mapping[k] = {"field", "flagged", "confirmed"}

\* A file is read before there is a mapping, a commit under way holds the mapping
\* that was sent, and what the server did is of it.
WizardInv ==
  /\ MappingIsWhole
  /\ analyzing # NoFile => analyzing \in File /\ step = "upload"
  /\ committing # "no" => step = "map" /\ Unconfirmed = {}
  /\ committing = "served" => outcome = BuildDrafts
  /\ ResultIsOfTheMapping

\* What the server suggests for a file gives a field to one column at most.
SuggestsOnce ==
  \A f \in File : IsUsable(f) =>
    LET given == ToEditableMapping(Suggest(Grid(f))) IN
    \A j, k \in DOMAIN given : j # k /\ given[j].field \in Field => given[j].field # given[k].field

\* What resolveCollisions() answers, as the equation that defines it.
IsSettlement(g, suggestions) ==
  g = [i \in DOMAIN suggestions |->
         Settle({g[j].field : j \in Stronger(suggestions)[i]} \ {NoField}, suggestions[i])]

-----------------------------------------------------------------------------
(***************************************************************************)
(* The reports.                                                            *)
(***************************************************************************)

Asked == {"pc", "kind", "space", "range", "by", "today", "figures"}

\* An answer that is kept is kept as what it is the answer to.
IsAnswer(e) ==
  e.key = CacheKey(e.answer.space, e.answer.range, e.answer.by) /\ e.answer.kind = "analytics"

CacheInv ==
  cache \in Seq({cache[i] : i \in DOMAIN cache}) /\ \A i \in DOMAIN cache : IsAnswer(cache[i])

RequestInv ==
  /\ request = [r \in Request |-> request[r]]
  /\ \A r \in Request : request[r] = Idle \/ DOMAIN request[r] = Asked
  /\ AnswersTheQuestion

\* One request of ours is under way at most, and it asks for what is chosen.
ScreenInv ==
  /\ trouble \in {"none", "failed", "crossed"} /\ screen \in {"analytics", "dashboard"}
  /\ DOMAIN chosen = {"preset", "zone", "from", "to", "by"}
  /\ chosen.preset \in {"today", "week", "month", "custom"}
  /\ trouble # "crossed" =>
       /\ \A q, r \in OursUnderWay : q = r
       /\ \A r \in OursUnderWay :
            request[r].range.preset = chosen.preset /\ request[r].range.zone = chosen.zone
  /\ ShownIsChosen

ReportInv == CacheInv /\ RequestInv /\ ScreenInv


-----------------------------------------------------------------------------
(***************************************************************************)
(* Telephone numbers.                                                      *)
(***************************************************************************)

\* A contact is told from the others by what its number is normalized to.
HolderInv ==
  /\ \A h \in holder : h.normalized = NormalizePhone(h.phone)
  /\ \A g, h \in holder : g.normalized = h.normalized => g = h
  /\ placed.status = 201 => \E h \in holder : h.id = placed.id /\ h.normalized = placed.to


-----------------------------------------------------------------------------
(***************************************************************************)
(* Proofs: the import wizard.                                              *)
(***************************************************************************)

\* The drafts are made of the fields, and not of the marks.
LEMMA SameDrafts ==
  ASSUME analysis' = analysis, DOMAIN mapping' = DOMAIN mapping,
         \A k \in DOMAIN mapping : mapping'[k].field = mapping[k].field
  PROVE  BuildDrafts' = BuildDrafts
<1>1. [k \in DOMAIN mapping' |-> mapping'[k].field] = [k \in DOMAIN mapping |-> mapping[k].field]
  OBVIOUS
<1>2. QED
  BY <1>1 DEF BuildDrafts

\* A step that leaves the mapping alone, and tells of no result.
LEMMA SameMapping ==
  ASSUME WizardInv, mapping' = mapping, analysis' = analysis,
         analyzing' # NoFile => analyzing' \in File /\ step' = "upload",
         committing' # "no" => step' = "map" /\ Unconfirmed = {},
         committing' = "served" => outcome' = BuildDrafts,
         step' = "result" => result' = BuildDrafts /\ Unconfirmed = {}
  PROVE  WizardInv'
<1>1. BuildDrafts' = BuildDrafts /\ Unconfirmed' = Unconfirmed
  BY SameDrafts DEF Unconfirmed
<1>2. MappingIsWhole'
  BY DEF WizardInv, MappingIsWhole
<1>3. QED
  BY <1>1, <1>2 DEF WizardInv, ResultIsOfTheMapping

\* A column that is given a field and a mark.
LEMMA ColumnOf ==
  ASSUME NEW m, NEW f, NEW c, DOMAIN m = {"field", "flagged", "confirmed"}
  PROVE  /\ DOMAIN [m EXCEPT !.field = f, !.confirmed = c] = {"field", "flagged", "confirmed"}
         /\ [m EXCEPT !.field = f, !.confirmed = c].field = f
         /\ DOMAIN [m EXCEPT !.confirmed = c] = {"field", "flagged", "confirmed"}
         /\ [m EXCEPT !.confirmed = c].field = m.field
         /\ [m EXCEPT !.confirmed = c].flagged = m.flagged
         /\ [m EXCEPT !.confirmed = c].confirmed = c
OBVIOUS

LEMMA ColumnShape ==
  ASSUME NEW x, NEW y, NEW z
  PROVE  DOMAIN [field |-> x, flagged |-> y, confirmed |-> z] = {"field", "flagged", "confirmed"}
OBVIOUS

LEMMA AssignedColumn ==
  ASSUME MappingIsWhole, NEW k \in DOMAIN mapping, NEW f, Assign(k, f), NEW j \in DOMAIN mapping
  PROVE  /\ DOMAIN mapping'[j] = {"field", "flagged", "confirmed"}
         /\ mapping'[j].field = IF j = k THEN f
                                ELSE IF f \in Field /\ mapping[j].field = f THEN NoField
                                ELSE mapping[j].field
<1>1. DOMAIN mapping[j] = {"field", "flagged", "confirmed"}
  BY DEF MappingIsWhole
<1>2. CASE j = k
  <2>1. mapping'[j] = [mapping[j] EXCEPT !.field = f, !.confirmed = TRUE]
    BY <1>2 DEF Assign
  <2>2. QED
    BY <1>1, <1>2, <2>1, ColumnOf
<1>3. CASE j # k /\ f \in Field /\ mapping[j].field = f
  <2>1. mapping'[j] = [mapping[j] EXCEPT !.field = NoField, !.confirmed = FALSE]
    BY <1>3 DEF Assign
  <2>2. QED
    BY <1>1, <1>3, <2>1, ColumnOf
<1>4. CASE j # k /\ ~(f \in Field /\ mapping[j].field = f)
  <2>1. mapping'[j] = mapping[j]
    BY <1>4 DEF Assign
  <2>2. QED
    BY <1>1, <1>4, <2>1
<1>5. QED
  BY <1>2, <1>3, <1>4

LEMMA WizardActions ==
  ASSUME WizardInv, WizardNext
  PROVE  WizardInv'
<1> USE DEF WizardInv, ResultIsOfTheMapping
<1>1. ASSUME NEW f \in File, ChooseFile(f) PROVE WizardInv'
  BY <1>1, SameMapping DEF ChooseFile
<1>2. CASE Analyzed
  <2>1. /\ step' = "map" /\ analyzing' = NoFile /\ committing' = committing /\ step = "upload"
        /\ mapping' = ToEditableMapping(Suggest(analysis'))
    BY <1>2 DEF Analyzed
  <2>2. committing' = "no"
    BY <2>1
  <2>3. MappingIsWhole'
    BY <2>1, ColumnShape DEF MappingIsWhole, ToEditableMapping
  <2>4. QED
    BY <2>1, <2>2, <2>3
<1>3. CASE AnalyzeFails
  BY <1>3, SameMapping DEF AnalyzeFails
<1>4. ASSUME NEW k \in 1 .. MaxColumns, NEW f \in Offered \cup {NoField, "ignore"}, AssignField(k, f)
      PROVE  WizardInv'
  <2>1. step' = "map" /\ analyzing' = analyzing /\ committing' = "no" /\ step = "map"
    BY <1>4 DEF AssignField
  <2>2. MappingIsWhole'
    <3>1. DOMAIN mapping' = DOMAIN mapping /\ mapping' = [j \in DOMAIN mapping' |-> mapping'[j]]
      BY <1>4 DEF AssignField, Assign
    <3>2. ASSUME NEW j \in DOMAIN mapping
          PROVE  DOMAIN mapping'[j] = {"field", "flagged", "confirmed"}
      BY <1>4, AssignedColumn DEF AssignField
    <3>3. QED
      BY <3>1, <3>2 DEF MappingIsWhole
  <2>3. QED
    BY <2>1, <2>2
<1>5. ASSUME NEW columns \in SUBSET (1 .. MaxColumns), Confirm(columns) PROVE WizardInv'
  <2>1. /\ step' = "map" /\ analyzing' = analyzing /\ committing' = committing /\ step = "map"
        /\ outcome' = outcome /\ analysis' = analysis
        /\ mapping' = [k \in DOMAIN mapping |->
             IF k \in columns THEN [mapping[k] EXCEPT !.confirmed = TRUE] ELSE mapping[k]]
    BY <1>5 DEF Confirm
  <2>2. DOMAIN mapping' = DOMAIN mapping /\ mapping' = [j \in DOMAIN mapping' |-> mapping'[j]]
    BY <2>1
  <2>3. ASSUME NEW j \in DOMAIN mapping
        PROVE  /\ DOMAIN mapping'[j] = {"field", "flagged", "confirmed"}
               /\ mapping'[j].field = mapping[j].field /\ mapping'[j].flagged = mapping[j].flagged
               /\ mapping[j].confirmed => mapping'[j].confirmed
    <3>1. DOMAIN mapping[j] = {"field", "flagged", "confirmed"}
      BY DEF MappingIsWhole
    <3>2. CASE j \in columns
      <4>1. mapping'[j] = [mapping[j] EXCEPT !.confirmed = TRUE]
        BY <2>1, <3>2
      <4>2. QED
        BY <3>1, <4>1, ColumnOf
    <3>3. CASE j \notin columns
      BY <2>1, <3>1, <3>3
    <3>4. QED
      BY <3>2, <3>3
  <2>4. Unconfirmed' \subseteq Unconfirmed
    BY <2>2, <2>3 DEF Unconfirmed
  <2>5. BuildDrafts' = BuildDrafts
    BY <2>1, <2>2, <2>3, SameDrafts
  <2>6. MappingIsWhole'
    BY <2>2, <2>3 DEF MappingIsWhole
  <2>7. QED
    BY <2>1, <2>4, <2>5, <2>6
<1>6. CASE Commit
  BY <1>6, SameMapping DEF Commit, CanCommit
<1>7. CASE ServeCommit
  BY <1>7, SameMapping DEF ServeCommit
<1>8. CASE Committed
  BY <1>8, SameMapping DEF Committed
<1>9. CASE CommitFails
  BY <1>9, SameMapping DEF CommitFails
<1>10. CASE Forget
  BY <1>10, SameMapping DEF Forget
<1>11. CASE BackToUpload
  <2>1. /\ step' = "upload" /\ committing' = committing /\ mapping' = << >> /\ analyzing' = analyzing
        /\ committing = "no"
    BY <1>11 DEF BackToUpload
  <2>2. MappingIsWhole'
    BY <2>1 DEF MappingIsWhole
  <2>3. QED
    BY <2>1, <2>2
<1>12. QED
  BY <1>1, <1>2, <1>3, <1>4, <1>5, <1>6, <1>7, <1>8, <1>9, <1>10, <1>11 DEF WizardNext

LEMMA WizardInitInv == WizardInit => WizardInv /\ FieldHeldOnce
BY WizardAssumption DEF WizardInit, WizardInv, MappingIsWhole, ResultIsOfTheMapping, FieldHeldOnce

LEMMA WizardStep == WizardInv /\ [WizardNext]_wizardVars => WizardInv'
<1> SUFFICES ASSUME WizardInv, [WizardNext]_wizardVars PROVE WizardInv'
  OBVIOUS
<1>1. CASE WizardNext
  BY <1>1, WizardActions
<1>2. CASE UNCHANGED wizardVars
  BY <1>2, SameMapping DEF wizardVars, WizardInv, ResultIsOfTheMapping
<1>3. QED
  BY <1>1, <1>2

\* However the user changes the mapping, no two columns come to hold one field.
LEMMA HeldOnceStep ==
  ASSUME SuggestsOnce, NoField \notin Field, WizardInv, FieldHeldOnce, [WizardNext]_wizardVars
  PROVE  FieldHeldOnce'
<1>1. ASSUME mapping' = mapping PROVE FieldHeldOnce'
  BY <1>1 DEF FieldHeldOnce
<1>2. CASE Analyzed
  <2>1. analyzing \in File /\ IsUsable(analyzing) /\ mapping' = ToEditableMapping(Suggest(Grid(analyzing)))
    BY <1>2 DEF Analyzed, WizardInv
  <2>2. QED
    BY <2>1 DEF SuggestsOnce, FieldHeldOnce
<1>3. ASSUME NEW k \in 1 .. MaxColumns, NEW f \in Offered \cup {NoField, "ignore"}, AssignField(k, f)
      PROVE  FieldHeldOnce'
  <2>1. DOMAIN mapping' = DOMAIN mapping /\ k \in DOMAIN mapping /\ Assign(k, f) /\ MappingIsWhole
    BY <1>3 DEF AssignField, Assign, WizardInv
  <2>2. ASSUME NEW j \in DOMAIN mapping
        PROVE  mapping'[j].field = IF j = k THEN f
                                   ELSE IF f \in Field /\ mapping[j].field = f THEN NoField
                                   ELSE mapping[j].field
    BY <2>1, AssignedColumn
  <2>3. QED
    BY <2>1, <2>2 DEF FieldHeldOnce
<1>4. ASSUME NEW columns \in SUBSET (1 .. MaxColumns), Confirm(columns) PROVE FieldHeldOnce'
  <2>1. DOMAIN mapping' = DOMAIN mapping
    BY <1>4 DEF Confirm
  <2>2. ASSUME NEW j \in DOMAIN mapping PROVE mapping'[j].field = mapping[j].field
    <3>1. DOMAIN mapping[j] = {"field", "flagged", "confirmed"}
      BY DEF WizardInv, MappingIsWhole
    <3>2. mapping'[j] = IF j \in columns THEN [mapping[j] EXCEPT !.confirmed = TRUE] ELSE mapping[j]
      BY <1>4 DEF Confirm
    <3>3. QED
      BY <3>1, <3>2, ColumnOf
  <2>3. QED
    BY <2>1, <2>2 DEF FieldHeldOnce
<1>5. CASE BackToUpload
  BY <1>5 DEF BackToUpload, FieldHeldOnce
<1>6. QED
  BY <1>1, <1>2, <1>3, <1>4, <1>5
     DEF WizardNext, ChooseFile, AnalyzeFails, Commit, ServeCommit, Committed, CommitFails, Forget, wizardVars

(***************************************************************************)
(* The result that is told is of the mapping the user last saw, with every *)
(* column in doubt confirmed, for any files, columns and refusals.         *)
(***************************************************************************)
THEOREM ResultsAreOfTheMapping == WizardSpec => []ResultIsOfTheMapping
<1>1. WizardInv => ResultIsOfTheMapping
  BY DEF WizardInv
<1>2. QED
  BY <1>1, WizardInitInv, WizardStep, PTL DEF WizardSpec

\* "none" is the name of no field.
LEMMA NoFieldIsNone == NoField \notin Field
BY DEF NoField, Field, AliasOrder, ToSet

\* Whole scores and places put a set in an order.
LEMMA AheadIsBefore ==
  ASSUME NEW S, NEW score, NEW place,
         \A i \in S : score[i] \in Int /\ place[i] \in Int
  PROVE  /\ \A i \in S : Ahead(S, score, place)[i] \subseteq S /\ i \notin Ahead(S, score, place)[i]
         /\ \A i \in S : \A j \in Ahead(S, score, place)[i] :
               Ahead(S, score, place)[j] \subseteq Ahead(S, score, place)[i]
         /\ \A i, j \in S : place[i] # place[j] =>
               i \in Ahead(S, score, place)[j] \/ j \in Ahead(S, score, place)[i]
BY DEF Ahead

\* Those ahead of one that is ahead are fewer.
LEMMA AheadAreFewer ==
  ASSUME NEW S, IsFiniteSet(S), NEW score, NEW place,
         \A i \in S : score[i] \in Int /\ place[i] \in Int,
         NEW i \in S, NEW j \in Ahead(S, score, place)[i]
  PROVE  /\ Cardinality(Ahead(S, score, place)[i]) \in Nat
         /\ Cardinality(Ahead(S, score, place)[j]) \in Nat
         /\ Cardinality(Ahead(S, score, place)[j]) < Cardinality(Ahead(S, score, place)[i])
<1> DEFINE A == Ahead(S, score, place)
<1>1. A[i] \subseteq S /\ j \in S /\ A[j] \subseteq A[i] /\ j \notin A[j]
  BY AheadIsBefore
<1>2. IsFiniteSet(A[i]) /\ IsFiniteSet(A[j]) /\ A[j] # A[i]
  BY <1>1, FS_Subset
<1>3. Cardinality(A[j]) <= Cardinality(A[i]) /\ Cardinality(A[j]) # Cardinality(A[i])
  BY <1>1, <1>2, FS_Subset
<1>4. Cardinality(A[j]) \in Nat /\ Cardinality(A[i]) \in Nat
  BY <1>2, FS_CardinalityType
<1>5. QED
  BY <1>3, <1>4

\* resolveCollisions() settles every suggestion against the stronger ones: of those
\* with the fewest before them for which no answer is defined, there is no least.
LEMMA CollisionsAreSettled ==
  ASSUME NEW n \in Nat, NEW ss, DOMAIN ss = 1 .. n, \A i \in 1 .. n : ss[i].score \in Int
  PROVE  IsSettlement(ResolveCollisions(ss), ss)
<1> DEFINE D == 1 .. n
           score == [i \in DOMAIN ss |-> ss[i].score]
           place == [i \in DOMAIN ss |-> i]
           A == Stronger(ss)
           Below(r) == {i \in D : Cardinality(A[i]) < r}
           Step(g, i) == Settle({g[j].field : j \in A[i]} \ {NoField}, ss[i])
           Solves(g, r) == g = [i \in Below(r) |-> Step(g, i)]
           Bad == {r \in Nat : ~ \E g : Solves(g, r)}
<1>1. A = Ahead(D, score, place) /\ \A i \in D : score[i] \in Int /\ place[i] \in Int
  BY DEF Stronger
<1>2. IsFiniteSet(D) /\ Cardinality(D) = n
  BY FS_Interval
<1>3. \A i \in D : A[i] \subseteq D
  BY <1>1, AheadIsBefore
<1>4. \A i \in D : Cardinality(A[i]) \in Nat /\ Cardinality(A[i]) <= n
  BY <1>2, <1>3, FS_Subset, FS_CardinalityType
<1>5. ASSUME NEW i \in D, NEW j \in A[i] PROVE Cardinality(A[j]) < Cardinality(A[i])
  BY <1>1, <1>2, AheadAreFewer
<1> HIDE DEF A
<1>6. Bad = {}
  <2>1. SUFFICES ASSUME Bad # {} PROVE FALSE
    OBVIOUS
  <2>2. PICK r \in Bad : \A q \in Bad : r <= q
    BY <2>1, LeastThereIs
  <2>3. r # 0
    <3>1. Below(0) = {}
      BY <1>4
    <3>2. Solves([i \in Below(0) |-> ss[i]], 0)
      BY <3>1
    <3>3. QED
      BY <3>2
  <2>4. r - 1 \in Nat /\ r - 1 \notin Bad
    <3> HIDE DEF Solves
    <3>1. r \in Nat /\ (r - 1 \in Bad => r <= r - 1)
      BY <2>2
    <3>2. QED
      BY <2>3, <3>1
  <2>5. PICK g : Solves(g, r - 1)
    BY <2>4
  <2> DEFINE h == [i \in Below(r) |-> Step(g, i)]
  <2>6. ASSUME NEW i \in Below(r), NEW j \in A[i] PROVE h[j] = g[j]
    <3>1. j \in D /\ Cardinality(A[j]) < r - 1
      BY <1>3, <1>4, <1>5, <2>2
    <3>2. j \in Below(r) /\ j \in Below(r - 1)
      BY <1>4, <3>1, <2>2
    <3>3. QED
      BY <2>5, <3>2
  <2>7. ASSUME NEW i \in Below(r) PROVE Step(g, i) = Step(h, i)
    <3> HIDE DEF h
    <3>1. {g[j].field : j \in A[i]} = {h[j].field : j \in A[i]}
      BY <2>6, Zenon
    <3>2. QED
      BY <3>1
  <2>8. Solves(h, r)
    BY <2>7
  <2>9. QED
    BY <2>2, <2>8
<1>7. Below(n + 1) = DOMAIN ss
  BY <1>4
<1>8. PICK g : Solves(g, n + 1)
  <2> HIDE DEF Solves
  <2>1. n + 1 \in Nat
    OBVIOUS
  <2>2. QED
    BY <1>6, <2>1, Zenon
<1>9. g = [i \in DOMAIN ss |-> Step(g, i)]
  BY <1>7, <1>8
<1>10. QED
  BY <1>9 DEF ResolveCollisions, IsSettlement, A

\* What is settled for was not claimed.
LEMMA SettledIsFree ==
  ASSUME NEW claimed, NEW s, NoField \notin claimed,
         DOMAIN s = {"field", "sure", "others", "score"}, DOMAIN s.others \subseteq Nat
  PROVE  Settle(claimed, s).field \notin claimed
<1> DEFINE free == {k \in DOMAIN s.others : s.others[k] \notin claimed}
<1>1. free # {} => Min(free) \in free
  BY MinIsLeast
<1>2. QED
  BY <1>1 DEF Settle

\* After resolveCollisions() no two columns have one field.
LEMMA ResolvedOnce ==
  ASSUME NEW n \in Nat, NEW ss, DOMAIN ss = 1 .. n,
         \A i \in 1 .. n : /\ DOMAIN ss[i] = {"field", "sure", "others", "score"}
                           /\ ss[i].score \in Int /\ DOMAIN ss[i].others \subseteq Nat,
         NEW i \in 1 .. n, NEW k \in 1 .. n, i # k
  PROVE  /\ DOMAIN ResolveCollisions(ss) = 1 .. n
         /\ ResolveCollisions(ss)[i].field # NoField
              => ResolveCollisions(ss)[i].field # ResolveCollisions(ss)[k].field
<1> DEFINE g == ResolveCollisions(ss)
           Claimed(j) == {g[q].field : q \in Stronger(ss)[j]} \ {NoField}
<1>1. g = [j \in 1 .. n |-> Settle(Claimed(j), ss[j])]
  BY CollisionsAreSettled DEF IsSettlement
<1>2. \A j \in 1 .. n : g[j].field \notin Claimed(j)
  BY <1>1, SettledIsFree
<1>3. i \in Stronger(ss)[k] \/ k \in Stronger(ss)[i]
  BY DEF Stronger, Ahead
<1>4. QED
  BY <1>1, <1>2, <1>3

\* The alias registry lists the fields.
LEMMA FieldsAreTen ==
  /\ AliasOrder \in Seq(Field) /\ Len(AliasOrder) = 10
  /\ \A f \in Field : \E i \in 1 .. 10 : AliasOrder[i] = f
  /\ IsFiniteSet(Field)
<1>1. Len(AliasOrder) = 10 /\ AliasOrder \in Seq({AliasOrder[i] : i \in 1 .. 10})
  BY DEF AliasOrder
<1>2. DOMAIN AliasOrder = 1 .. 10
  BY DEF AliasOrder
<1>3. Field = {AliasOrder[i] : i \in 1 .. 10}
  BY <1>2 DEF Field, ToSet
<1>4. AliasOrder \in Seq(Field)
  BY <1>1, <1>3
<1>5. AliasOrder \in [1 .. 10 -> Field]
  <2>1. AliasOrder = [i \in 1 .. 10 |-> AliasOrder[i]]
    BY DEF AliasOrder
  <2>2. QED
    BY <2>1, <1>3
<1>6. AliasOrder \in Surjection(1 .. 10, Field)
  BY <1>3, <1>5 DEF Surjection
<1>7. \A n \in Nat : IsFiniteSet(1 .. n)
  BY FS_Interval
<1>8. IsFiniteSet(1 .. 10)
  BY <1>7
<1>9. IsFiniteSet(Field)
  BY <1>6, <1>8, FS_Surjection
<1>10. QED
  BY <1>1, <1>3, <1>4, <1>9

\* Places, shares and scores are whole numbers.
LEMMA PlaceIsWhole ==
  ASSUME NEW heading, NEW f \in Field
  PROVE  Place(heading, f) \in Int
<1>1. ValueOrder \in Seq(Field) /\ Len(ValueOrder) = 3
  <2>1. "email" \in Field /\ "phone" \in Field /\ "name" \in Field
    BY DEF Field, ToSet, AliasOrder
  <2>2. QED
    BY <2>1 DEF ValueOrder
<1>2. PICK i \in 1 .. 10 : AliasOrder[i] = f
  BY FieldsAreTen
<1>3. /\ ValueOrder \o AliasOrder \in Seq(Field) /\ Len(ValueOrder \o AliasOrder) = 13
      /\ (ValueOrder \o AliasOrder)[i + 3] = f
  <2>1. AliasOrder \in Seq(Field) /\ Len(AliasOrder) = 10
    BY FieldsAreTen
  <2>2. \A k \in 1 .. Len(ValueOrder) + Len(AliasOrder) :
          (ValueOrder \o AliasOrder)[k] = IF k <= Len(ValueOrder) THEN ValueOrder[k] ELSE AliasOrder[k - Len(ValueOrder)]
    BY <1>1, <2>1, ConcatProperties
  <2>3. ValueOrder \o AliasOrder \in Seq(Field) /\ Len(ValueOrder \o AliasOrder) = Len(ValueOrder) + Len(AliasOrder)
    BY <1>1, <2>1, ConcatProperties
  <2>4. i + 3 \in 1 .. 13 /\ ~(i + 3 <= 3) /\ (i + 3) - 3 = i
    BY <1>2
  <2>5. i + 3 \in 1 .. Len(ValueOrder) + Len(AliasOrder)
    BY <1>1, <2>1
  <2>6. (ValueOrder \o AliasOrder)[i + 3] = AliasOrder[i]
    <3>1. (ValueOrder \o AliasOrder)[i + 3]
            = IF i + 3 <= Len(ValueOrder) THEN ValueOrder[i + 3] ELSE AliasOrder[(i + 3) - Len(ValueOrder)]
      BY <2>2, <2>5, Zenon
    <3>2. QED
      BY <3>1, <1>1, <2>4
  <2>7. Len(ValueOrder \o AliasOrder) = 13
    BY <2>3, <2>1, <1>1
  <2>8. QED
    BY <1>2, <2>3, <2>6, <2>7
<1> DEFINE order == IF LabelScore(heading, f) > 0 THEN AliasOrder ELSE ValueOrder \o AliasOrder
<1>4. DOMAIN order \subseteq Int /\ \E k \in DOMAIN order : order[k] = f
  <2>1. CASE LabelScore(heading, f) > 0
    BY <2>1, <1>2, FieldsAreTen
  <2>2. CASE ~(LabelScore(heading, f) > 0)
    BY <2>2, <1>3
  <2>3. QED
    BY <2>1, <2>2
<1>5. QED
  BY <1>4 DEF Place

LEMMA SharesAreWhole ==
  ASSUME NEW hits \in Nat, NEW n \in Nat
  PROVE  ShareScore(hits, n) \in Int
<1> DEFINE base == IF 10 * hits >= 8 * n THEN 65 ELSE IF 2 * hits >= n THEN 50 ELSE 35
<1>1. base \in Int
  OBVIOUS
<1> HIDE DEF base
<1>2. 2 * base * hits + n \in Int /\ 2 * n \in Int
  BY <1>1
<1>3. n # 0 => (2 * base * hits + n) \div (2 * n) \in Int
  BY <1>2
<1>4. QED
  BY <1>3 DEF ShareScore, base

LEMMA ScoresAreWhole ==
  ASSUME NEW grid, NEW col, IsFiniteSet(Samples(grid, col))
  PROVE  DOMAIN Scores(grid, col) = Field /\ \A f \in Field : Scores(grid, col)[f] \in Int
<1>1. ASSUME NEW f \in Field
      PROVE  Combine(LabelScore(Heading(grid, col), f), ValueScore(grid, Samples(grid, col), col, f)) \in Int
  <2> DEFINE label == LabelScore(Heading(grid, col), f)
             samples == Samples(grid, col)
             value == ValueScore(grid, samples, col, f)
             hit == {r \in samples : Looks[grid[r][col]] = f}
  <2>1. label \in Int
    BY DEF LabelScore
  <2>2. Cardinality(hit) \in Nat /\ Cardinality(samples) \in Nat
    BY FS_Subset, FS_CardinalityType
  <2>3. value \in Int
    BY <2>2, SharesAreWhole DEF ValueScore
  <2> HIDE DEF label, value
  <2>4. label + (3 * value + 5) \div 10 \in Int
    BY <2>1, <2>3
  <2>5. Min({120, label + (3 * value + 5) \div 10}) \in Int
    BY <2>4, MinOfTwo
  <2>6. Combine(label, value) \in Int
    BY <2>3, <2>5 DEF Combine
  <2>7. QED
    BY <2>6 DEF label, value
<1>2. QED
  BY <1>1 DEF Scores

\* If a field has a score, the first candidate is a field.
LEMMA BestIsFirst ==
  ASSUME NEW heading, NEW score, \A f \in Field : score[f] \in Int
  PROVE  \E n \in Nat : /\ DOMAIN Candidates(heading, score) = 1 .. n
                        /\ Candidates(heading, score) = [k \in 1 .. n |-> Candidates(heading, score)[k]]
                        /\ n > 0 => Candidates(heading, score)[1] \in Field
<1> DEFINE found == {f \in Field : score[f] > 0}
           place == [f \in Field |-> Place(heading, f)]
           ahead == Ahead(found, score, place)
           Sizes == {Cardinality(ahead[f]) : f \in found}
           n == Cardinality(found)
<1>1. IsFiniteSet(found) /\ n \in Nat
  BY FieldsAreTen, FS_Subset, FS_CardinalityType
<1>2. \A f \in found : score[f] \in Int /\ place[f] \in Int
  BY PlaceIsWhole
<1>3. \A f \in found : ahead[f] \subseteq found
  BY <1>2, AheadIsBefore
<1>4. \A f \in found : IsFiniteSet(ahead[f]) /\ Cardinality(ahead[f]) \in Nat
  BY <1>1, <1>3, FS_Subset, FS_CardinalityType
<1>5. ASSUME n > 0
      PROVE  \E f \in found : Cardinality(ahead[f]) = 0
  <2>1. found # {}
    BY <1>5, FS_EmptySet
  <2>2. Sizes \in SUBSET Nat /\ Sizes # {}
    BY <1>4, <2>1
  <2>3. PICK m \in Sizes : \A k \in Sizes : m <= k
    BY <2>2, LeastThereIs
  <2>4. PICK f \in found : m = Cardinality(ahead[f])
    BY <2>3
  <2>5. ASSUME NEW g \in ahead[f] PROVE FALSE
    <3>1. g \in found /\ Cardinality(ahead[g]) < Cardinality(ahead[f])
      BY <1>1, <1>2, <1>3, AheadAreFewer
    <3>2. m <= Cardinality(ahead[g])
      BY <2>3, <3>1
    <3>3. QED
      BY <1>4, <2>4, <3>1, <3>2
  <2>6. ahead[f] = {}
    BY <2>5
  <2>7. QED
    BY <2>6, FS_EmptySet
<1> HIDE DEF ahead, found
<1>6. Candidates(heading, score) = [k \in 1 .. n |-> CHOOSE f \in found : Cardinality(ahead[f]) = k - 1]
  BY DEF Candidates, ahead, found
<1>7. n > 0 => Candidates(heading, score)[1] \in Field
  <2>1. SUFFICES ASSUME n > 0 PROVE (CHOOSE f \in found : Cardinality(ahead[f]) = 1 - 1) \in Field
    BY <1>1, <1>6
  <2>2. PICK f \in found : Cardinality(ahead[f]) = 1 - 1
    BY <1>5, <2>1
  <2>3. (CHOOSE g \in found : Cardinality(ahead[g]) = 1 - 1) \in found
    BY <2>2
  <2>4. QED
    BY <2>3 DEF found
<1>8. QED
  BY <1>1, <1>6, <1>7

\* A slice of a sequence is one.
LEMMA SliceIsPart ==
  ASSUME NEW S, NEW s \in Seq(S), NEW m \in Nat \ {0}, NEW n \in Nat
  PROVE  Slice(s, m, n) \in Seq(S)
<1> DEFINE top == Min({n, Len(s)})
<1>1. top \in Int /\ top <= Len(s)
  BY MinOfTwo
<1>2. Slice(s, m, n) = SubSeq(s, m, top)
  BY DEF Slice
<1> HIDE DEF top
<1>3. \A i \in m .. top : s[i] \in S
  BY <1>1
<1>4. QED
  BY <1>1, <1>2, <1>3, SubSeqProperties

\* A suggestion is a whole record with a whole score, and its others are numbered.
LEMMA SuggestionIsWhole ==
  ASSUME NEW heading, NEW score, \A f \in Field : score[f] \in Int
  PROVE  LET s == Ranked(heading, score) IN
         /\ DOMAIN s = {"field", "sure", "others", "score"}
         /\ s.score \in Int /\ DOMAIN s.others \subseteq Nat
<1> DEFINE ranked == Candidates(heading, score)
           best == IF ranked = << >> THEN 0 ELSE score[ranked[1]]
           trusted == IF heading \in Vague THEN Min({best, 60}) ELSE best
<1> HIDE DEF ranked
<1>1. PICK n \in Nat : /\ DOMAIN ranked = 1 .. n /\ ranked = [k \in 1 .. n |-> ranked[k]]
                       /\ n > 0 => ranked[1] \in Field
  BY BestIsFirst DEF ranked
<1> DEFINE X == {ranked[k] : k \in 1 .. n}
<1>2. ranked \in Seq(X) /\ Len(ranked) = n
  <2>1. [k \in 1 .. n |-> ranked[k]] \in [1 .. n -> X]
    OBVIOUS
  <2>2. ranked \in [1 .. n -> X]
    BY <1>1, <2>1
  <2>3. QED
    BY <2>2
<1>3. ranked = << >> \/ n > 0
  BY <1>2
<1>4. best \in Int
  <2>1. n > 0 => score[ranked[1]] \in Int
    BY <1>1
  <2>2. QED
    BY <1>3, <2>1
<1> HIDE DEF best
<1>5. trusted \in Int
  <2>1. \A a, b \in Int : Min({a, b}) \in Int
    BY MinOfTwo
  <2>2. QED
    BY <1>4, <2>1
<1>6. Slice(ranked, 1, 3) \in Seq(X) /\ Slice(ranked, 2, 4) \in Seq(X)
  <2>1. 1 \in Nat \ {0} /\ 2 \in Nat \ {0} /\ 3 \in Nat /\ 4 \in Nat
    OBVIOUS
  <2>2. QED
    BY <1>2, <2>1, SliceIsPart, Zenon
<1>7. DOMAIN Slice(ranked, 1, 3) \subseteq Nat /\ DOMAIN Slice(ranked, 2, 4) \subseteq Nat
  BY <1>6
<1> HIDE DEF trusted
<1>8. \/ Ranked(heading, score) = [field |-> NoField, sure |-> FALSE, others |-> Slice(ranked, 1, 3), score |-> best]
      \/ Ranked(heading, score)
           = [field |-> ranked[1], score |-> trusted, others |-> Slice(ranked, 2, 4),
              sure |-> trusted >= 85 /\ (Len(ranked) > 1 => trusted - score[ranked[2]] >= 15)]
  BY DEF Ranked, SuggestColumn, ranked, trusted, best
<1>9. QED
  BY <1>4, <1>5, <1>7, <1>8

\* The grid of a file that is used is a table with something in it.
LEMMA GridIsTable ==
  ASSUME NEW f \in File, IsUsable(f)
  PROVE  /\ Grid(f) \in Seq(Seq(Cell)) /\ Len(Grid(f)) > 0
         /\ \E r \in 1 .. Len(Grid(f)) : ~IsEmptyRow(Grid(f)[r])
<1> DEFINE sheets == f.sheets
           full == {s \in DOMAIN sheets : \E r \in DOMAIN sheets[s] : ~IsEmptyRow(sheets[s][r])}
           sheet == ChosenSheet(sheets)
<1>1. sheets \in Seq(Seq(Seq(Cell))) /\ sheets # << >> /\ MaxRows \in Nat /\ MaxColumns \in Nat
  BY WizardAssumption, AnalysisAssumption DEF IsUsable
<1>2. sheet \in Seq(Seq(Cell))
  <2>1. full # {} => Min(full) \in full
    <3>1. full \in SUBSET Nat
      BY <1>1
    <3>2. QED
      BY <3>1, MinIsLeast, Zenon
  <2>2. 1 \in DOMAIN sheets
    BY <1>1
  <2>3. PICK k \in DOMAIN sheets : sheet = sheets[k]
    BY <2>1, <2>2 DEF ChosenSheet
  <2>4. QED
    BY <1>1, <2>3
<1> HIDE DEF sheet
<1> DEFINE row(r) == Slice(sheet[r], 1, MaxColumns)
           within == {r \in DOMAIN sheet : r <= MaxRows}
           kept == {r \in within : ~IsEmptyRow(row(r))}
           n == IF kept = {} THEN 0 ELSE Max(kept)
<1>3. \A r \in DOMAIN sheet : row(r) \in Seq(Cell)
  <2>1. \A r \in DOMAIN sheet : sheet[r] \in Seq(Cell)
    BY <1>2
  <2>2. 1 \in Nat \ {0}
    OBVIOUS
  <2>3. QED
    BY <1>1, <2>1, <2>2, SliceIsPart, Zenon
<1> HIDE DEF row
<1>4. Grid(f) = [r \in 1 .. n |-> row(r)] /\ Grid(f) # << >>
  BY DEF Grid, ToGrid, IsUsable, row, sheet
<1>5. kept # {} => Max(kept) \in kept
  <2>1. kept \in SUBSET Nat /\ \A r \in kept : r <= MaxRows
    BY <1>2
  <2>2. QED
    BY <2>1, <1>1, MaxIsGreatest
<1>6. kept # {}
  <2>1. SUFFICES ASSUME kept = {} PROVE FALSE
    OBVIOUS
  <2>2. Grid(f) = [r \in 1 .. 0 |-> row(r)]
    BY <2>1, <1>4
  <2>3. QED
    BY <2>2, <1>4
<1>7. n \in kept /\ n \in Nat /\ n > 0 /\ 1 .. n \subseteq DOMAIN sheet
  <2>1. n \in kept
    BY <1>5, <1>6
  <2> HIDE DEF n
  <2>2. n \in DOMAIN sheet
    BY <2>1
  <2>3. QED
    BY <1>2, <2>1, <2>2
<1> HIDE DEF n
<1>8. Grid(f) \in [1 .. n -> Seq(Cell)]
  BY <1>3, <1>4, <1>7
<1>9. Grid(f) \in Seq(Seq(Cell)) /\ Len(Grid(f)) = n
  BY <1>7, <1>8
<1>10. ~IsEmptyRow(Grid(f)[n])
  BY <1>4, <1>7
<1>11. QED
  BY <1>7, <1>9, <1>10

\* The samples of a column are rows of the grid.
LEMMA SamplesAreFinite ==
  ASSUME NEW grid \in Seq(Seq(Cell)), \E r \in 1 .. Len(grid) : ~IsEmptyRow(grid[r]), NEW col
  PROVE  IsFiniteSet(Samples(grid, col))
<1>1. ASSUME NEW score, NEW n, NEW m \in Int, DOMAIN score = 1 .. m
      PROVE  BestRow(score, n) \in Int
  <2> DEFINE best == {r \in DOMAIN score : score[r] >= 100 * n[r] /\ score[r] > 0 /\
                       \A s \in DOMAIN score :
                         ~(score[s] * n[r] > score[r] * n[s])
                         /\ (s < r /\ score[s] > 0 => score[r] * n[s] > score[s] * n[r])}
  <2>1. best \in SUBSET Nat
    BY <1>1
  <2>2. BestRow(score, n) = IF best = {} THEN 0 ELSE Min(best)
    BY DEF BestRow
  <2> HIDE DEF best
  <2>3. best # {} => Min(best) \in best
    BY <2>1, MinIsLeast, Zenon
  <2>4. CASE best = {}
    BY <2>2, <2>4
  <2>5. CASE best # {}
    <3>1. BestRow(score, n) = Min(best)
      BY <2>2, <2>5, Zenon
    <3>2. Min(best) \in Nat
      BY <2>1, <2>3, <2>5, Zenon
    <3>3. QED
      BY <3>1, <3>2
  <2>6. QED
    BY <2>4, <2>5
<1>2. Min({10, Len(grid)}) \in Int
  <2>1. \A a, b \in Int : Min({a, b}) \in Int
    BY MinOfTwo
  <2>2. 10 \in Int /\ Len(grid) \in Int
    OBVIOUS
  <2>3. QED
    BY <2>1, <2>2, Zenon
<1>3. HeaderRow(grid) \in Int
  BY <1>1, <1>2 DEF HeaderRow
<1> DEFINE filled == {r \in DOMAIN grid : ~IsEmptyRow(grid[r])}
<1>4. Min(filled) \in Int
  <2>1. filled \in SUBSET Nat /\ filled # {}
    OBVIOUS
  <2>2. Min(filled) \in filled
    BY <2>1, MinIsLeast, Zenon
  <2>3. QED
    BY <2>1, <2>2
<1>5. DataStart(grid) \in Int
  BY <1>3, <1>4 DEF DataStart
<1>6. IsFiniteSet(DataStart(grid) .. Len(grid))
  BY <1>5, FS_Interval
<1>7. Samples(grid, col) \subseteq DataStart(grid) .. Len(grid)
  BY DEF Samples, DataRows
<1>8. QED
  BY <1>6, <1>7, FS_Subset

(***************************************************************************)
(* What the server suggests for a file gives a field to one column at most *)
(* (suggest() of ColumnMapper): every file, any headings and values.       *)
(***************************************************************************)
LEMMA FieldsAreSuggestedOnce == SuggestsOnce
<1> SUFFICES ASSUME NEW f \in File, IsUsable(f),
                    NEW j \in DOMAIN ToEditableMapping(Suggest(Grid(f))),
                    NEW k \in DOMAIN ToEditableMapping(Suggest(Grid(f))),
                    j # k, ToEditableMapping(Suggest(Grid(f)))[j].field \in Field
             PROVE  ToEditableMapping(Suggest(Grid(f)))[j].field
                      # ToEditableMapping(Suggest(Grid(f)))[k].field
  BY DEF SuggestsOnce
<1> DEFINE grid == Grid(f)
           ss == [col \in 1 .. Width(grid) |-> Ranked(Heading(grid, col), Scores(grid, col))]
<1>1. grid \in Seq(Seq(Cell)) /\ Len(grid) > 0 /\ \E r \in 1 .. Len(grid) : ~IsEmptyRow(grid[r])
  BY GridIsTable
<1> HIDE DEF grid
<1>2. Width(grid) \in Nat
  BY <1>1 DEF Width
<1>3. \A col \in 1 .. Width(grid) :
         /\ DOMAIN ss[col] = {"field", "sure", "others", "score"}
         /\ ss[col].score \in Int /\ DOMAIN ss[col].others \subseteq Nat
  <2> SUFFICES ASSUME NEW col \in 1 .. Width(grid)
               PROVE  LET s == Ranked(Heading(grid, col), Scores(grid, col)) IN
                      /\ DOMAIN s = {"field", "sure", "others", "score"}
                      /\ s.score \in Int /\ DOMAIN s.others \subseteq Nat
    OBVIOUS
  <2>1. \A g \in Field : Scores(grid, col)[g] \in Int
    BY <1>1, SamplesAreFinite, ScoresAreWhole
  <2>2. QED
    BY <2>1, SuggestionIsWhole
<1>4. Suggest(grid) = ResolveCollisions(ss)
  BY DEF Suggest
<1>5. DOMAIN ss = 1 .. Width(grid)
  OBVIOUS
<1> HIDE DEF ss
<1>6. DOMAIN ResolveCollisions(ss) = 1 .. Width(grid)
  BY <1>2, <1>3, <1>5, CollisionsAreSettled DEF IsSettlement
<1>7. j \in 1 .. Width(grid) /\ k \in 1 .. Width(grid)
  BY <1>4, <1>6 DEF ToEditableMapping, grid
<1>8. /\ ToEditableMapping(Suggest(grid))[j].field = ResolveCollisions(ss)[j].field
      /\ ToEditableMapping(Suggest(grid))[k].field = ResolveCollisions(ss)[k].field
  BY <1>4, <1>6, <1>7 DEF ToEditableMapping
<1>9. ResolveCollisions(ss)[j].field # NoField
  BY <1>8, NoFieldIsNone DEF grid
<1>10. ResolveCollisions(ss)[j].field # ResolveCollisions(ss)[k].field
  BY <1>2, <1>3, <1>5, <1>7, <1>9, ResolvedOnce
<1>11. QED
  BY <1>8, <1>10 DEF grid

(***************************************************************************)
(* What the wizard answers for: no two columns are mapped to one field,    *)
(* whatever the server suggested and the user then assigned, confirmed and *)
(* committed, and the result that is told is of the mapping that was sent. *)
(***************************************************************************)
THEOREM TheWizardIsTrue == WizardSpec => []WizardIsTrue
<1>1. WizardInv /\ FieldHeldOnce => WizardIsTrue
  BY DEF WizardInv, WizardIsTrue
<1>2. WizardInv /\ FieldHeldOnce /\ [WizardNext]_wizardVars => (WizardInv /\ FieldHeldOnce)'
  BY WizardStep, HeldOnceStep, NoFieldIsNone, FieldsAreSuggestedOnce
<1>3. QED
  BY <1>1, <1>2, WizardInitInv, PTL DEF WizardSpec

-----------------------------------------------------------------------------
(***************************************************************************)
(* Proofs: the reports.                                                    *)
(***************************************************************************)

\* A request whose state or figures change keeps the rest.
LEMMA AskedShape ==
  ASSUME NEW q, DOMAIN q = Asked, NEW p, NEW f
  PROVE  /\ DOMAIN [q EXCEPT !.pc = p] = Asked /\ DOMAIN [q EXCEPT !.figures = f] = Asked
         /\ [q EXCEPT !.pc = p].pc = p /\ [q EXCEPT !.pc = p].figures = q.figures
         /\ [q EXCEPT !.pc = p].space = q.space /\ [q EXCEPT !.pc = p].kind = q.kind
         /\ [q EXCEPT !.pc = p].range = q.range /\ [q EXCEPT !.pc = p].by = q.by
         /\ [q EXCEPT !.figures = f].pc = q.pc /\ [q EXCEPT !.figures = f].figures = f
         /\ [q EXCEPT !.figures = f].space = q.space /\ [q EXCEPT !.figures = f].kind = q.kind
         /\ [q EXCEPT !.figures = f].range = q.range /\ [q EXCEPT !.figures = f].by = q.by
BY DEF Asked

LEMMA ServedShape ==
  ASSUME NEW q, DOMAIN q = Asked, NEW p, NEW f
  PROVE  LET served == [q EXCEPT !.pc = p, !.figures = f]
         IN  /\ DOMAIN served = Asked /\ served.pc = p /\ served.figures = f /\ served.space = q.space
             /\ served.kind = q.kind /\ served.range = q.range /\ served.by = q.by
BY DEF Asked

LEMMA NewAsked ==
  ASSUME NEW p, NEW kind, NEW s, NEW range, NEW by, NEW today, NEW f
  PROVE  LET q == [pc |-> p, kind |-> kind, space |-> s, range |-> range, by |-> by,
                   today |-> today, figures |-> f]
         IN  DOMAIN q = Asked /\ q.pc = p /\ q.kind = kind /\ q.space = s /\ q.range = range /\ q.by = by
BY DEF Asked

LEMMA IdleShape == Idle.pc = "idle" /\ DOMAIN Idle # Asked
<1>1. DOMAIN Idle = {"pc"}
  BY DEF Idle
<1>2. QED
  BY <1>1 DEF Idle, Asked

LEMMA RangeAsked ==
  ASSUME NEW question, NEW t, question.preset \in {"today", "week", "month", "custom"}
  PROVE  /\ ResolveDateRange(question, t).preset = question.preset
         /\ ResolveDateRange(question, t).zone = question.zone
<1>1. ASSUME NEW p, NEW a, NEW b, NEW z PROVE Days(p, a, b, z).preset = p /\ Days(p, a, b, z).zone = z
  BY DEF Days
<1>2. PICK a, b : ResolveDateRange(question, t) = Days(question.preset, a, b, question.zone)
  BY DEF ResolveDateRange
<1>3. QED
  BY <1>1, <1>2

(***************************************************************************)
(* The cache.                                                              *)
(***************************************************************************)

\* A sequence of answers is one of those that are in it.
LEMMA CacheOf ==
  ASSUME NEW S, NEW s \in Seq(S), \A e \in S : IsAnswer(e)
  PROVE  s \in Seq({s[i] : i \in DOMAIN s}) /\ \A i \in DOMAIN s : IsAnswer(s[i])
<1>1. Len(s) \in Nat /\ s \in [1 .. Len(s) -> S] /\ DOMAIN s = 1 .. Len(s)
  BY LenProperties
<1>2. s \in [1 .. Len(s) -> {s[i] : i \in DOMAIN s}]
  BY <1>1
<1>3. QED
  BY <1>1, <1>2

LEMMA WithoutKey ==
  ASSUME NEW S, cache \in Seq(S), NEW key
  PROVE  Without(key) \in Seq(S)
<1>1. CASE Held(key) = {}
  BY <1>1 DEF Without
<1>2. CASE Held(key) # {}
  <2> DEFINE i == CHOOSE i \in Held(key) : TRUE
  <2>1. i \in DOMAIN cache
    BY <1>2 DEF Held
  <2>2. Len(cache) \in Nat /\ DOMAIN cache = 1 .. Len(cache) /\ \A j \in 1 .. Len(cache) : cache[j] \in S
    BY LenProperties, ElementOfSeq
  <2>3. Without(key) = SubSeq(cache, 1, i - 1) \o SubSeq(cache, i + 1, Len(cache))
    BY <1>2 DEF Without
  <2> HIDE DEF i
  <2>4. /\ 1 \in Int /\ i - 1 \in Int /\ i + 1 \in Int /\ Len(cache) \in Int
        /\ \A j \in 1 .. i - 1 : cache[j] \in S
        /\ \A j \in i + 1 .. Len(cache) : cache[j] \in S
    BY <2>1, <2>2
  <2>5. SubSeq(cache, 1, i - 1) \in Seq(S)
    BY <2>4, SubSeqProperties
  <2>6. SubSeq(cache, i + 1, Len(cache)) \in Seq(S)
    BY <2>4, SubSeqProperties
  <2>7. QED
    BY <2>3, <2>5, <2>6, ConcatProperties
<1>3. QED
  BY <1>1, <1>2

\* What get() and set() make of it.
LEMMA CacheTouched ==
  ASSUME CacheInv, NEW key, cache' = Touched(key)
  PROVE  CacheInv'
<1> DEFINE S == {cache[i] : i \in DOMAIN cache}
<1>1. cache \in Seq(S) /\ \A e \in S : IsAnswer(e)
  BY DEF CacheInv
<1>2. Without(key) \in Seq(S)
  BY <1>1, WithoutKey
<1>3. ASSUME Kept(key) # {} PROVE cache[CHOOSE i \in Kept(key) : TRUE] \in S
  BY <1>3 DEF Kept, Held
<1> HIDE DEF S
<1>4. cache' \in Seq(S)
  BY <1>2, <1>3, AppendProperties DEF Touched
<1>5. cache' \in Seq({cache'[i] : i \in DOMAIN cache'}) /\ \A i \in DOMAIN cache' : IsAnswer(cache'[i])
  BY <1>1, <1>4, CacheOf
<1>6. QED
  BY <1>5 DEF CacheInv, IsAnswer, CacheKey

LEMMA CacheStored ==
  ASSUME CacheInv, NEW key, NEW answer, cache' = Stored(key, answer),
         key = CacheKey(answer.space, answer.range, answer.by), answer.kind = "analytics"
  PROVE  CacheInv'
<1> DEFINE S == {cache[i] : i \in DOMAIN cache}
           e == [key |-> key, answer |-> answer, until |-> now + Ttl]
           T == S \cup {e}
           all == Append(Without(key), e)
<1>1. cache \in Seq(S) /\ \A x \in S : IsAnswer(x)
  BY DEF CacheInv
<1>2. e.key = key /\ e.answer = answer
  OBVIOUS
<1>3. cache' = IF Len(all) > MaxEntries THEN Tail(all) ELSE all
  BY DEF Stored
<1> HIDE DEF S, e
<1>4. \A x \in T : IsAnswer(x)
  BY <1>1, <1>2 DEF IsAnswer
<1>5. cache \in Seq(T) /\ e \in T
  BY <1>1, SeqMonotonic
<1> HIDE DEF T
<1>6. all \in Seq(T) /\ all # << >>
  BY <1>5, WithoutKey, AppendProperties
<1>7. Tail(all) \in Seq(T)
  BY <1>6, HeadTailProperties
<1>8. cache' \in Seq(T)
  BY <1>3, <1>6, <1>7
<1>9. cache' \in Seq({cache'[i] : i \in DOMAIN cache'}) /\ \A i \in DOMAIN cache' : IsAnswer(cache'[i])
  BY <1>4, <1>8, CacheOf
<1>10. QED
  BY <1>9 DEF CacheInv, IsAnswer, CacheKey

\* An entry that is found answers the question it is found for.
LEMMA KeptAnswers ==
  ASSUME CacheInv, NEW s, NEW range, NEW by, Kept(CacheKey(s, range, by)) # {}
  PROVE  LET answer == cache[CHOOSE i \in Kept(CacheKey(s, range, by)) : TRUE].answer
         IN  answer.space = s /\ answer.range = range /\ answer.by = by /\ answer.kind = "analytics"
<1> DEFINE i == CHOOSE i \in Kept(CacheKey(s, range, by)) : TRUE
<1>1. i \in DOMAIN cache /\ cache[i].key = CacheKey(s, range, by)
  BY DEF Kept, Held
<1>2. IsAnswer(cache[i])
  BY <1>1 DEF CacheInv
<1>3. QED
  BY <1>1, <1>2 DEF IsAnswer, CacheKey


(***************************************************************************)
(* The requests.                                                           *)
(***************************************************************************)

\* A request begins: what it asks for, and what it has if the answer was kept.
LEMMA Begun ==
  ASSUME CacheInv, RequestInv, NEW r \in Request, NEW kind \in {"analytics", "dashboard"}, NEW s, NEW question, Begin(r, kind, s, question)
  PROVE  /\ CacheInv' /\ RequestInv' /\ request[r] = Idle /\ request'[r] # Idle
         /\ \A q \in Request : q # r => request'[q] = request[q]
         /\ request'[r].space = s /\ request'[r].range = ResolveDateRange(question, now)
<1> DEFINE range == ResolveDateRange(question, now)
           by == IF kind = "analytics" THEN Granularity(question, range) ELSE "day"
           key == CacheKey(s, range, by)
           today == ResolveDateRange([question EXCEPT !.preset = "today"], now)
           asked == [pc |-> "reading", kind |-> kind, space |-> s, range |-> range, by |-> by,
                     today |-> today, figures |-> << >>]
<1> HIDE DEF range, by, today
<1>1. /\ DOMAIN asked = Asked /\ asked.pc = "reading" /\ asked.kind = kind /\ asked.space = s
      /\ asked.range = range /\ asked.by = by
  BY NewAsked
<1>2. /\ request[r] = Idle
      /\ IF ~IsAccepted(question, now)
         THEN request' = [request EXCEPT ![r] = [asked EXCEPT !.pc = "refused"]] /\ UNCHANGED cache
         ELSE IF kind = "dashboard"
         THEN request' = [request EXCEPT ![r] = asked] /\ UNCHANGED cache
         ELSE /\ cache' = Touched(key)
              /\ request' = [request EXCEPT ![r] =
                   IF Kept(key) = {} THEN asked
                   ELSE [asked EXCEPT !.pc = "served",
                           !.figures = cache[CHOOSE i \in Kept(key) : TRUE].answer]]
  BY DEF Begin, range, by, today
<1> HIDE DEF asked
<1>3. CacheInv'
  <2>1. cache' = cache \/ cache' = Touched(key)
    BY <1>2
  <2>2. QED
    BY <2>1, CacheTouched DEF CacheInv, IsAnswer, CacheKey
<1>4. PICK q : request' = [request EXCEPT ![r] = q] /\ DOMAIN q = Asked
               /\ q.space = s /\ q.range = range
               /\ (q.pc = "served" => /\ q.figures.space = q.space /\ q.figures.kind = q.kind
                                      /\ q.figures.range = q.range /\ q.figures.by = q.by)
  <2>1. CASE request' = [request EXCEPT ![r] = [asked EXCEPT !.pc = "refused"]]
    <3> DEFINE q == [asked EXCEPT !.pc = "refused"]
    <3>1. DOMAIN q = Asked /\ q.pc = "refused" /\ q.space = s /\ q.range = range
      BY <1>1, AskedShape
    <3> HIDE DEF q
    <3>2. QED
      BY <2>1, <3>1 DEF q
  <2>2. CASE request' = [request EXCEPT ![r] = asked]
    BY <1>1, <2>2
  <2>3. CASE kind # "dashboard" /\ Kept(key) # {} /\ IsAccepted(question, now)
    <3> DEFINE hit == cache[CHOOSE i \in Kept(key) : TRUE].answer
               q == [asked EXCEPT !.pc = "served", !.figures = hit]
    <3>1. request' = [request EXCEPT ![r] = q]
      BY <1>2, <2>3
    <3>2. hit.space = s /\ hit.range = range /\ hit.by = by /\ hit.kind = "analytics"
      BY <2>3, KeptAnswers
    <3> HIDE DEF hit
    <3>3. /\ DOMAIN q = Asked /\ q.pc = "served" /\ q.figures = hit /\ q.space = s
          /\ q.kind = kind /\ q.range = range /\ q.by = by
      BY <1>1, ServedShape
    <3> HIDE DEF q
    <3>4. QED
      BY <2>3, <3>1, <3>2, <3>3
  <2>4. QED
    BY <1>2, <2>1, <2>2, <2>3
<1>5. /\ request'[r] = q /\ request' = [p \in Request |-> request'[p]]
      /\ \A p \in Request : p # r => request'[p] = request[p]
  BY <1>4 DEF RequestInv
<1>6. RequestInv'
  BY <1>4, <1>5 DEF RequestInv, AnswersTheQuestion
<1>7. q # Idle
  BY <1>4, IdleShape
<1>8. QED
  BY <1>2, <1>3, <1>4, <1>5, <1>6, <1>7 DEF range

\* Whatever a request comes to, others and what is kept stay the same.
LEMMA OthersAsked ==
  ASSUME RequestInv, NEW r \in Request, NEW q, request' = [request EXCEPT ![r] = q],
         q = Idle \/ DOMAIN q = Asked,
         q.pc = "served" => /\ q.figures.space = q.space /\ q.figures.kind = q.kind
                            /\ q.figures.range = q.range /\ q.figures.by = q.by
  PROVE  RequestInv' /\ request'[r] = q /\ \A p \in Request : p # r => request'[p] = request[p]
<1>1. /\ request'[r] = q /\ request' = [p \in Request |-> request'[p]]
      /\ \A p \in Request : p # r => request'[p] = request[p]
  BY DEF RequestInv
<1>2. QED
  BY <1>1 DEF RequestInv, AnswersTheQuestion

LEMMA ReadEffect ==
  ASSUME RequestInv, NEW r \in Request, Read(r)
  PROVE  /\ RequestInv' /\ cache' = cache /\ request[r] # Idle /\ request'[r] # Idle
         /\ request'[r].space = request[r].space /\ request'[r].range = request[r].range
         /\ \A p \in Request : p # r => request'[p] = request[p]
<1>1. /\ request[r].pc = "reading" /\ \E f \in Figures(request[r]) : request' = [request EXCEPT ![r].figures = f]
      /\ cache' = cache
  BY DEF Read
<1>2. PICK f : request' = [request EXCEPT ![r].figures = f]
  BY <1>1
<1>3. DOMAIN request[r] = Asked /\ request[r] # Idle
  BY <1>1, IdleShape DEF RequestInv
<1> DEFINE q == [request[r] EXCEPT !.figures = f]
<1>4. request' = [request EXCEPT ![r] = q]
  BY <1>2 DEF RequestInv
<1>5. DOMAIN q = Asked /\ q.pc = "reading" /\ q.space = request[r].space /\ q.range = request[r].range
  BY <1>1, <1>3, AskedShape
<1> HIDE DEF q
<1>6. RequestInv' /\ request'[r] = q /\ \A p \in Request : p # r => request'[p] = request[p]
  BY <1>4, <1>5, OthersAsked
<1>7. QED
  BY <1>1, <1>3, <1>5, <1>6, IdleShape

LEMMA AnswerEffect ==
  ASSUME CacheInv, RequestInv, NEW r \in Request, Answer(r)
  PROVE  /\ CacheInv' /\ RequestInv' /\ request[r] # Idle /\ request'[r] # Idle
         /\ request'[r].space = request[r].space /\ request'[r].range = request[r].range
         /\ \A p \in Request : p # r => request'[p] = request[p]
<1> DEFINE q == request[r]
           answer == [space |-> q.space, range |-> q.range, by |-> q.by, kind |-> q.kind]
           key == CacheKey(q.space, q.range, q.by)
           served == [q EXCEPT !.pc = "served", !.figures = answer]
<1>1. /\ q.pc = "reading" /\ request' = [request EXCEPT ![r].pc = "served", ![r].figures = answer]
      /\ cache' = IF q.kind = "analytics" THEN Stored(key, answer) ELSE cache
  BY DEF Answer
<1>2. answer.space = q.space /\ answer.range = q.range /\ answer.by = q.by /\ answer.kind = q.kind
  OBVIOUS
<1> HIDE DEF answer
<1>3. DOMAIN q = Asked /\ q # Idle
  BY <1>1, IdleShape DEF RequestInv
<1>4. request' = [request EXCEPT ![r] = served]
  BY <1>1 DEF RequestInv
<1>5. /\ DOMAIN served = Asked /\ served.figures = answer /\ served.space = q.space
      /\ served.kind = q.kind /\ served.range = q.range /\ served.by = q.by
  BY <1>3, ServedShape
<1> HIDE DEF served
<1>6. RequestInv' /\ request'[r] = served /\ \A p \in Request : p # r => request'[p] = request[p]
  BY <1>2, <1>4, <1>5, OthersAsked
<1>7. CacheInv'
  <2>1. CASE q.kind = "analytics"
    BY <1>1, <1>2, <2>1, CacheStored
  <2>2. CASE q.kind # "analytics"
    BY <1>1, <2>2 DEF CacheInv, IsAnswer, CacheKey
  <2>3. QED
    BY <2>1, <2>2
<1>8. QED
  BY <1>3, <1>5, <1>6, <1>7, IdleShape

\* A request is over.
LEMMA OverEffect ==
  ASSUME RequestInv, NEW r \in Request, request' = [request EXCEPT ![r] = Idle]
  PROVE  RequestInv' /\ request'[r] = Idle /\ \A p \in Request : p # r => request'[p] = request[p]
BY OthersAsked, IdleShape


(***************************************************************************)
(* The screen.                                                             *)
(***************************************************************************)

LEMMA SameScreen ==
  ASSUME ScreenInv, screen' = screen, chosen' = chosen, shown' = shown, trouble' = trouble,
         OursUnderWay' = OursUnderWay, \A r \in OursUnderWay : request'[r].range = request[r].range
  PROVE  ScreenInv'
BY DEF ScreenInv, ShownIsChosen

\* A request of somebody else, or one of ours that goes on.
LEMMA OthersUnderWay ==
  ASSUME ScreenInv, screen' = screen, chosen' = chosen, shown' = shown, trouble' = trouble, NEW r \in Request,
         \A p \in Request : p # r => request'[p] = request[p],
         r \in OursUnderWay <=> r \in OursUnderWay',
         r \in OursUnderWay => request'[r].range = request[r].range
  PROVE  ScreenInv'
<1>1. OursUnderWay' = OursUnderWay
  BY DEF OursUnderWay
<1>2. \A p \in OursUnderWay : request'[p].range = request[p].range
  BY DEF OursUnderWay
<1>3. QED
  BY <1>1, <1>2, SameScreen

\* The user asks: alone, or across another request.
LEMMA ChooseScreen ==
  ASSUME CacheInv, RequestInv, ScreenInv, NEW r \in Request, NEW question \in Questions \cup {chosen},
         Choose(r, question)
  PROVE  ScreenInv'
<1>1. /\ chosen' = question /\ trouble # "crossed"
      /\ trouble' = (IF OursUnderWay = {} THEN trouble ELSE "crossed")
      /\ Begin(r, screen, Ours, question) /\ screen' = screen /\ shown' = shown
  BY DEF Choose, Ask
<1>2. /\ DOMAIN question = {"preset", "zone", "from", "to", "by"}
      /\ question.preset \in {"today", "week", "month", "custom"}
  BY ReportAssumption DEF ScreenInv
<1>3. screen \in {"analytics", "dashboard"}
  BY DEF ScreenInv
<1>4. /\ request[r] = Idle /\ request'[r] # Idle /\ request'[r].space = Ours
      /\ request'[r].range = ResolveDateRange(question, now)
      /\ \A p \in Request : p # r => request'[p] = request[p]
  BY <1>1, <1>3, Begun
<1>5. OursUnderWay' = OursUnderWay \cup {r}
  BY <1>4 DEF OursUnderWay
<1>6. request'[r].range.preset = question.preset /\ request'[r].range.zone = question.zone
  BY <1>2, <1>4, RangeAsked
<1>7. QED
  BY <1>1, <1>2, <1>3, <1>5, <1>6 DEF ScreenInv, ShownIsChosen

\* What is chosen keeps its range when its buckets are chosen by the server.
LEMMA ChosenShape ==
  ASSUME NEW q, DOMAIN q = {"preset", "zone", "from", "to", "by"}, NEW b
  PROVE  /\ DOMAIN [q EXCEPT !.by = b] = {"preset", "zone", "from", "to", "by"}
         /\ [q EXCEPT !.by = b].preset = q.preset /\ [q EXCEPT !.by = b].zone = q.zone
OBVIOUS

LEMMA ShowScreen ==
  ASSUME RequestInv, ScreenInv, NEW r \in Request, Show(r)
  PROVE  ScreenInv'
<1> DEFINE answer == request[r].figures
<1>1. request[r].pc = "served" /\ request' = [request EXCEPT ![r] = Idle] /\ screen' = screen
  BY DEF Show
<1>2. request[r] # Idle
  BY <1>1, IdleShape
<1>3. request'[r] = Idle /\ \A p \in Request : p # r => request'[p] = request[p]
  BY <1>1, OverEffect
<1>4. OursUnderWay' = OursUnderWay \ {r}
  BY <1>3 DEF OursUnderWay
<1>5. CASE request[r].space # Ours
  <2>1. shown' = shown /\ chosen' = chosen /\ trouble' = trouble
    BY <1>5 DEF Show
  <2>2. r \notin OursUnderWay
    BY <1>5 DEF OursUnderWay
  <2>3. QED
    BY <1>1, <1>3, <1>4, <2>1, <2>2, OthersUnderWay
<1>6. CASE request[r].space = Ours
  <2>1. /\ shown' = answer
        /\ chosen' = [chosen EXCEPT !.by = IF screen = "analytics" THEN answer.by ELSE chosen.by]
        /\ trouble' = IF trouble = "failed" THEN "none" ELSE trouble
    BY <1>6 DEF Show
  <2>2. /\ DOMAIN chosen' = {"preset", "zone", "from", "to", "by"}
        /\ chosen'.preset = chosen.preset /\ chosen'.zone = chosen.zone
    BY <2>1, ChosenShape DEF ScreenInv
  <2>3. answer.space = Ours /\ answer.range = request[r].range
    BY <1>1, <1>6 DEF RequestInv, AnswersTheQuestion
  <2>4. r \in OursUnderWay
    BY <1>2, <1>6 DEF OursUnderWay
  <2>5. trouble # "crossed" => /\ OursUnderWay' = {}
                               /\ answer.range.preset = chosen.preset /\ answer.range.zone = chosen.zone
    BY <1>4, <2>3, <2>4 DEF ScreenInv
  <2>6. \A p \in OursUnderWay' : request'[p] = request[p]
    BY <1>3, <1>4 DEF OursUnderWay
  <2> HIDE DEF answer
  <2>7. ShownIsChosen'
    BY <2>1, <2>2, <2>3, <2>5 DEF ShownIsChosen, ScreenInv
  <2>8. QED
    BY <1>1, <2>1, <2>2, <2>5, <2>7 DEF ScreenInv
<1>7. QED
  BY <1>5, <1>6

LEMMA FailsScreen ==
  ASSUME RequestInv, ScreenInv, NEW r \in Request, Fails(r)
  PROVE  ScreenInv'
<1>1. /\ request[r] # Idle /\ request' = [request EXCEPT ![r] = Idle]
      /\ screen' = screen /\ chosen' = chosen
  BY DEF Fails
<1>2. request'[r] = Idle /\ \A p \in Request : p # r => request'[p] = request[p]
  BY <1>1, OverEffect
<1>3. OursUnderWay' = OursUnderWay \ {r}
  BY <1>2 DEF OursUnderWay
<1>4. CASE request[r].space # Ours
  <2>1. shown' = shown /\ trouble' = trouble
    BY <1>4 DEF Fails
  <2>2. r \notin OursUnderWay
    BY <1>4 DEF OursUnderWay
  <2>3. QED
    BY <1>1, <1>2, <1>3, <2>1, <2>2, OthersUnderWay
<1>5. CASE request[r].space = Ours
  <2>1. trouble' = IF trouble = "none" THEN "failed" ELSE trouble
    BY <1>5 DEF Fails
  <2>2. \A p \in OursUnderWay' : p \in OursUnderWay /\ request'[p] = request[p]
    BY <1>2, <1>3 DEF OursUnderWay
  <2>3. QED
    BY <1>1, <2>1, <2>2 DEF ScreenInv, ShownIsChosen
<1>6. QED
  BY <1>4, <1>5

-----------------------------------------------------------------------------

LEMMA ReportInitInv == ReportInit => ReportInv
<1> SUFFICES ASSUME ReportInit PROVE ReportInv
  OBVIOUS
<1>1. /\ cache = << >> /\ request = [r \in Request |-> Idle] /\ shown = NoAnswer /\ trouble = "none"
      /\ screen \in {"analytics", "dashboard"} /\ chosen \in Questions
  BY DEF ReportInit
<1>2. CacheInv
  <2>1. DOMAIN cache = {}
    BY <1>1
  <2>2. << >> \in Seq({})
    BY EmptySeq
  <2>3. {cache[i] : i \in DOMAIN cache} = {}
    BY <2>1
  <2>4. QED
    BY <1>1, <2>1, <2>2, <2>3 DEF CacheInv
<1>3. RequestInv
  BY <1>1, IdleShape DEF RequestInv, AnswersTheQuestion
<1>4. OursUnderWay = {}
  BY <1>1 DEF OursUnderWay
<1>5. ScreenInv
  BY <1>1, <1>4, ReportAssumption DEF ScreenInv, ShownIsChosen
<1>6. QED
  BY <1>2, <1>3, <1>5 DEF ReportInv

LEMMA ReportStep == ReportInv /\ [ReportNext]_reportVars => ReportInv'
<1> SUFFICES ASSUME ReportInv, [ReportNext]_reportVars PROVE ReportInv'
  OBVIOUS
<1> USE DEF ReportInv
<1>0. ASSUME cache' = cache PROVE CacheInv'
  BY <1>0 DEF CacheInv, IsAnswer, CacheKey
<1>1. ASSUME cache' = cache, request' = request, screen' = screen, chosen' = chosen, shown' = shown,
             trouble' = trouble
      PROVE  ReportInv'
  <2>1. RequestInv'
    BY <1>1 DEF RequestInv, AnswersTheQuestion
  <2>2. OursUnderWay' = OursUnderWay
    BY <1>1 DEF OursUnderWay
  <2>3. QED
    BY <1>0, <1>1, <2>1, <2>2, SameScreen
<1>2. ASSUME NEW r \in Request, Read(r) \/ Answer(r) PROVE ReportInv'
  <2>1. /\ CacheInv' /\ RequestInv' /\ request[r] # Idle /\ request'[r] # Idle
        /\ request'[r].space = request[r].space /\ request'[r].range = request[r].range
        /\ \A p \in Request : p # r => request'[p] = request[p]
    BY <1>0, <1>2, ReadEffect, AnswerEffect
  <2>2. screen' = screen /\ chosen' = chosen /\ shown' = shown /\ trouble' = trouble
    BY <1>2 DEF Read, Answer
  <2>3. r \in OursUnderWay <=> r \in OursUnderWay'
    BY <2>1 DEF OursUnderWay
  <2>4. QED
    BY <2>1, <2>2, <2>3, OthersUnderWay
<1>3. ASSUME NEW r \in Request, Show(r) PROVE ReportInv'
  <2>1. cache' = cache /\ request' = [request EXCEPT ![r] = Idle]
    BY <1>3 DEF Show
  <2>2. QED
    BY <1>0, <1>3, <2>1, OverEffect, ShowScreen
<1>4. ASSUME NEW r \in Request, Fails(r) PROVE ReportInv'
  <2>1. cache' = cache /\ request' = [request EXCEPT ![r] = Idle]
    BY <1>4 DEF Fails
  <2>2. QED
    BY <1>0, <1>4, <2>1, OverEffect, FailsScreen
<1>5. ASSUME NEW r \in Request, NEW question \in Questions \cup {chosen}, Choose(r, question) PROVE ReportInv'
  <2>1. Begin(r, screen, Ours, question) /\ screen \in {"analytics", "dashboard"}
    BY <1>5 DEF Choose, ScreenInv
  <2>2. CacheInv' /\ RequestInv'
    BY <2>1, Begun
  <2>3. QED
    BY <1>5, <2>2, ChooseScreen
<1>6. ASSUME NEW r \in Request, NEW s \in Space, Elsewhere(r, s) PROVE ReportInv'
  <2>1. /\ s # Ours /\ Begin(r, "analytics", s, chosen)
        /\ screen' = screen /\ chosen' = chosen /\ shown' = shown /\ trouble' = trouble
    BY <1>6 DEF Elsewhere
  <2>2. /\ CacheInv' /\ RequestInv' /\ request[r] = Idle /\ request'[r].space = s
        /\ \A p \in Request : p # r => request'[p] = request[p]
    BY <2>1, Begun
  <2>3. r \notin OursUnderWay /\ r \notin OursUnderWay'
    BY <2>1, <2>2 DEF OursUnderWay
  <2>4. QED
    BY <2>1, <2>2, <2>3, OthersUnderWay
<1>7. QED
  BY <1>1, <1>2, <1>3, <1>4, <1>5, <1>6 DEF ReportNext, Tick, Log, Settled, reportVars

(***************************************************************************)
(* An answer, kept in the cache or new, is of the workspace, the range and *)
(* the buckets asked for, for any numbers of workspaces, requests and      *)
(* entries kept, whatever the calendar.                                    *)
(***************************************************************************)
THEOREM AnswersAreToTheQuestion == ReportSpec => []AnswersTheQuestion
<1>1. ReportInv => AnswersTheQuestion
  BY DEF ReportInv, RequestInv
<1>2. QED
  BY <1>1, ReportInitInv, ReportStep, PTL DEF ReportSpec

(***************************************************************************)
(* With nothing under way a screen shows the range chosen on it, unless    *)
(* requests crossed or the last one failed.                                *)
(***************************************************************************)
THEOREM TheChosenIsShown == ReportSpec => []ShownIsChosen
<1>1. ReportInv => ShownIsChosen
  BY DEF ReportInv, ScreenInv
<1>2. QED
  BY <1>1, ReportInitInv, ReportStep, PTL DEF ReportSpec

-----------------------------------------------------------------------------
(***************************************************************************)
(* Proofs: the figures of the reports.                                     *)
(***************************************************************************)

\* A number has k whole times D in it if it is as large.
LEMMA DivIs ==
  ASSUME NEW D \in Nat \ {0}, NEW x \in Int
  PROVE  x \div D \in Int /\ \A k \in Int : (k <= x \div D) <=> (D * k <= x)
<1>1. x \div D \in Int /\ D * (x \div D) <= x /\ x < D * ((x \div D) + 1)
  OBVIOUS
<1> DEFINE q == x \div D
<1> HIDE DEF q
<1>2. ASSUME NEW k \in Int, k <= q PROVE D * k <= D * q
  BY <1>1, <1>2 DEF q
<1>3. ASSUME NEW k \in Int, k >= q + 1 PROVE D * k >= D * (q + 1)
  BY <1>1, <1>3 DEF q
<1>4. QED
  BY <1>1, <1>2, <1>3 DEF q

IsZone(zone) == zone.before \in Int /\ zone.after \in Int /\ zone.at \in Int

\* The local time of an instant.
Local(t, zone) == t + Offset(t, zone)

\* No day begins where none does.
LEMMA NoDayBegins ==
  ASSUME NEW from \in Int, NEW to \in Int, ~DayBegins(from, to), NEW d \in Int
  PROVE  ~(from <= Day * d /\ Day * d < to)
<1> SUFFICES ASSUME from <= Day * d, Day * d < to PROVE FALSE
  OBVIOUS
<1> DEFINE last == (to - 1) \div Day
<1>1. Day \in Nat \ {0}
  BY FiguresAssumption
<1>2. Day * d \in Int
  BY <1>1
<1>3. Day * d <= to - 1
  BY <1>2
<1>4. last \in Int /\ d <= last
  BY <1>1, <1>3, DivIs
<1>5. Day * d <= Day * last
  <2> HIDE DEF last
  <2>1. QED
    BY <1>1, <1>4
<1>6. Day * last < from
  <2>1. Day * last \in Int
    BY <1>1, <1>4
  <2>2. QED
    BY <2>1 DEF DayBegins
<1>7. Day * last \in Int
  BY <1>1, <1>4
<1>8. QED
  BY <1>2, <1>5, <1>6, <1>7

\* In a regular zone the code finds the first instant of a day, or of a later one.
LEMMA StartIs ==
  ASSUME NEW zone, IsZone(zone), Regular(zone), NEW d \in Int, NEW s, s = StartOfLocalDay(d, zone)
  PROVE  /\ s \in Int /\ (s = Day * d - zone.before \/ s = Day * d - zone.after)
         /\ \A t \in Int : s <= t <=> Day * d <= Local(t, zone)
<1> DEFINE u == Day * d
           b == zone.before
           a == zone.after
           T == zone.at
<1>1. u \in Int /\ a \in Int /\ b \in Int /\ T \in Int
  BY FiguresAssumption DEF IsZone
<1>2. /\ ~(T + b + (IF b >= 0 THEN 1 ELSE 0) <= u /\ u < T + a)
      /\ ~(T + a + (IF a < 0 THEN 1 ELSE 0) <= u /\ u < T + b)
  BY <1>1, NoDayBegins DEF Regular
<1>3. s = u - (IF u - (IF u < T THEN b ELSE a) < T THEN b ELSE a)
  BY DEF StartOfLocalDay, Offset
<1>4. \A t : Local(t, zone) = t + (IF t < T THEN b ELSE a)
  BY DEF Local, Offset
<1> HIDE DEF u, a, b, T
<1>5. s \in Int /\ (s = u - b \/ s = u - a)
  BY <1>1, <1>3
<1>6. ASSUME NEW t \in Int PROVE s <= t <=> u <= t + (IF t < T THEN b ELSE a)
  BY <1>1, <1>2, <1>3
<1>7. QED
  BY <1>4, <1>5, <1>6 DEF u, a, b

\* The local days follow each other, each from its beginning to that of the next.
LEMMA DayIs ==
  ASSUME NEW zone, IsZone(zone), Regular(zone), NEW t \in Int
  PROVE  LocalDay(t, zone) \in Int /\ \A d \in Int : d <= LocalDay(t, zone) <=> StartOfLocalDay(d, zone) <= t
<1>1. Local(t, zone) \in Int
  BY DEF Local, Offset, IsZone
<1>2. LocalDay(t, zone) = Local(t, zone) \div Day
  BY DEF LocalDay, Local
<1>3. LocalDay(t, zone) \in Int /\ \A d \in Int : d <= LocalDay(t, zone) <=> Day * d <= Local(t, zone)
  BY <1>1, <1>2, DivIs, FiguresAssumption
<1>4. QED
  BY <1>3, StartIs

\* The clocks change by less than half a day, before or after.
LEMMA HoursChange ==
  ASSUME NEW zone, IsZone(zone), Regular(zone)
  PROVE  2 * (zone.after - zone.before) < Day /\ 2 * (zone.before - zone.after) < Day
<1>1. /\ 2 * ((zone.at + zone.after) - (zone.at + zone.before)) < Day
      /\ 2 * ((zone.at + zone.before) - (zone.at + zone.after)) < Day
  BY DEF Regular
<1>2. QED
  BY <1>1, FiguresAssumption DEF IsZone

\* A day begins in itself, and later than those before it.
LEMMA StartsInOrder ==
  ASSUME NEW zone, IsZone(zone), Regular(zone), NEW d \in Int
  PROVE  /\ LocalDay(StartOfLocalDay(d, zone), zone) = d
         /\ \A e \in Int : StartOfLocalDay(d, zone) <= StartOfLocalDay(e, zone) <=> d <= e
<1> DEFINE S(e) == StartOfLocalDay(e, zone)
<1>1. \A e \in Int : S(e) \in Int
  BY StartIs
<1>2. \A e \in Int : LocalDay(S(e), zone) \in Int /\ \A f \in Int : f <= LocalDay(S(e), zone) <=> S(f) <= S(e)
  BY <1>1, DayIs
<1> HIDE DEF S
<1>3. \A e \in Int : e <= LocalDay(S(e), zone)
  BY <1>1, <1>2
<1>4. ASSUME NEW e \in Int PROVE ~(S(e + 1) <= S(e))
  <2> DEFINE u == Day * e
             b == zone.before
             a == zone.after
  <2>1. u \in Int /\ a \in Int /\ b \in Int /\ Day \in Int /\ 2 * (a - b) < Day /\ 2 * (b - a) < Day /\ Day * (e + 1) = u + Day
    BY FiguresAssumption, HoursChange DEF IsZone
  <2>2. S(e) \in Int /\ (S(e) = u - b \/ S(e) = u - a)
    BY StartIs DEF S
  <2>3. Local(S(e), zone) = S(e) + a \/ Local(S(e), zone) = S(e) + b
    BY DEF Local, Offset
  <2>4. S(e + 1) <= S(e) <=> Day * (e + 1) <= Local(S(e), zone)
    BY <2>2, StartIs DEF S
  <2> HIDE DEF u, a, b
  <2>5. QED
    BY <2>1, <2>2, <2>3, <2>4
<1>5. \A e \in Int : LocalDay(S(e), zone) = e
  <2> SUFFICES ASSUME NEW e \in Int PROVE LocalDay(S(e), zone) = e
    OBVIOUS
  <2>1. LocalDay(S(e), zone) \in Int /\ ~(e + 1 <= LocalDay(S(e), zone))
    BY <1>2, <1>4
  <2>2. QED
    BY <1>3, <2>1
<1>6. QED
  BY <1>2, <1>5 DEF S

\* Days first to last, as a range.
IsDays(range, first, last) ==
  /\ IsZone(range.zone) /\ first \in Int /\ last \in Int /\ first <= last
  /\ range.from = StartOfLocalDay(first, range.zone) /\ range.to = StartOfLocalDay(last + 1, range.zone)

\* The instants of a range are those of its days.
LEMMA DaysAre ==
  ASSUME NEW range, NEW first, NEW last, IsDays(range, first, last), Regular(range.zone)
  PROVE  \A t \in Int : range.from <= t /\ t < range.to <=> LocalDay(t, range.zone) \in first .. last
<1> SUFFICES ASSUME NEW t \in Int PROVE range.from <= t /\ t < range.to <=> LocalDay(t, range.zone) \in first .. last
  OBVIOUS
<1>1. LocalDay(t, range.zone) \in Int /\ \A d \in Int : d <= LocalDay(t, range.zone) <=> StartOfLocalDay(d, range.zone) <= t
  BY DayIs DEF IsDays
<1>2. range.to \in Int
  BY StartIs DEF IsDays
<1>3. QED
  BY <1>1, <1>2 DEF IsDays

\* rangeDayCount() is the number of local days, however long they are.
LEMMA DaysCounted ==
  ASSUME NEW range, NEW first, NEW last, IsDays(range, first, last), Regular(range.zone)
  PROVE  RangeDayCount(range) = last + 1 - first
<1> DEFINE n == last + 1 - first
           b == range.zone.before
           a == range.zone.after
           D == 2 * Day
           x == 2 * (range.to - range.from) + Day
<1>1. /\ n \in Int /\ a \in Int /\ b \in Int /\ Day \in Nat \ {0} /\ D \in Nat \ {0}
      /\ 2 * (a - b) < Day /\ 2 * (b - a) < Day
  BY FiguresAssumption, HoursChange DEF IsZone, IsDays
<1> DEFINE u == Day * first
           v == Day * n
<1>2. u \in Int /\ v \in Int /\ Day * (last + 1) = u + v
  <2>1. first \in Int /\ last \in Int /\ last + 1 = first + n
    BY DEF IsDays
  <2>2. Day * (first + n) = Day * first + Day * n
    <3> HIDE DEF n
    <3>1. QED
      BY <1>1, <2>1
  <2>3. u \in Int /\ v \in Int
    <3> HIDE DEF n
    <3>1. QED
      BY <1>1, <2>1
  <2>4. QED
    BY <2>1, <2>2, <2>3
<1>3. /\ range.from \in Int /\ (range.from = u - a \/ range.from = u - b)
      /\ range.to \in Int /\ (range.to = (u + v) - a \/ range.to = (u + v) - b)
  <2>1. last + 1 \in Int /\ first \in Int
    BY DEF IsDays
  <2>2. QED
    BY <1>2, <2>1, StartIs DEF IsDays
<1>4. D * n = 2 * v /\ D * (n + 1) = 2 * v + 2 * Day
  BY <1>1
<1>5. x \in Int /\ RangeDayCount(range) = x \div D
  BY <1>1, <1>3 DEF RangeDayCount
<1>6. D * n <= x /\ x < D * (n + 1)
  <2> HIDE DEF u, v, a, b, n, D
  <2>1. QED
    BY <1>1, <1>2, <1>3, <1>4
<1> HIDE DEF n, D, x
<1>7. x \div D \in Int /\ \A k \in Int : (k <= x \div D) <=> (D * k <= x)
  BY <1>1, <1>5, DivIs
<1>8. n <= x \div D /\ ~(n + 1 <= x \div D)
  <2>1. n + 1 \in Int /\ D * (n + 1) \in Int
    BY <1>1
  <2>2. QED
    BY <1>1, <1>5, <1>6, <1>7, <2>1
<1>9. QED
  BY <1>1, <1>5, <1>7, <1>8 DEF n

\* From where a day begins, nextDay() finds where the next one does.
LEMMA NextDayIs ==
  ASSUME NEW zone, IsZone(zone), Regular(zone), NEW d \in Int
  PROVE  NextDay(StartOfLocalDay(d, zone), zone) = StartOfLocalDay(d + 1, zone)
<1> DEFINE s == StartOfLocalDay(d, zone)
           h == Day \div 2
           t == s + Day + h
           u == Day * d
           b == zone.before
           a == zone.after
<1>1. /\ u \in Int /\ a \in Int /\ b \in Int /\ Day \in Nat \ {0}
      /\ 2 * (a - b) < Day /\ 2 * (b - a) < Day
  BY FiguresAssumption, HoursChange DEF IsZone
<1>2. h \in Nat /\ (Day = 2 * h \/ Day = 2 * h + 1)
  BY <1>1
<1>3. s \in Int /\ (s = u - b \/ s = u - a)
  BY StartIs
<1>4. Local(t, zone) = t + a \/ Local(t, zone) = t + b
  BY DEF Local, Offset
<1>5. Day * (d + 1) = u + Day /\ Day * (d + 2) = u + 2 * Day
  BY <1>1
<1>6. t \in Int /\ Local(t, zone) \in Int /\ Day * (d + 1) <= Local(t, zone) /\ Local(t, zone) < Day * (d + 2)
  <2> HIDE DEF s, h, u, b, a
  <2>1. QED
    BY <1>1, <1>2, <1>3, <1>4, <1>5
<1> HIDE DEF t
<1>7. LocalDay(t, zone) \in Int /\ \A k \in Int : k <= LocalDay(t, zone) <=> Day * k <= Local(t, zone)
  BY <1>1, <1>6, DivIs DEF LocalDay, Local
<1>8. d + 1 <= LocalDay(t, zone) /\ ~(d + 2 <= LocalDay(t, zone))
  <2>1. d + 1 \in Int /\ d + 2 \in Int /\ Day * (d + 2) \in Int
    BY <1>1
  <2>2. QED
    BY <1>6, <1>7, <2>1
<1>9. LocalDay(t, zone) = d + 1
  BY <1>7, <1>8
<1>10. QED
  BY <1>9 DEF NextDay, t

\* The cursor of eachLocalDay() goes from midnight to midnight.
LEMMA EachDayIs ==
  ASSUME NEW range, NEW first, NEW last, IsDays(range, first, last), Regular(range.zone)
  PROVE  EachLocalDay(range) = first .. last
<1> DEFINE N == RangeDayCount(range) + 1
           S(d) == StartOfLocalDay(d, range.zone)
           Moves(c) == c = [n \in 0 .. N |-> IF n = 0 THEN S(LocalDay(range.from, range.zone)) ELSE NextDay(c[n - 1], range.zone)]
           right == [n \in 0 .. N |-> S(first + n)]
           cursor == CHOOSE c : Moves(c)
<1>1. /\ first \in Int /\ last \in Int /\ first <= last /\ N = (last + 2) - first /\ N \in Nat
      /\ range.from = S(first) /\ range.to = S(last + 1) /\ IsZone(range.zone)
  <2>1. RangeDayCount(range) = last + 1 - first
    BY DaysCounted
  <2>2. first \in Int /\ last \in Int /\ first <= last
    BY DEF IsDays
  <2>3. N = (last + 2) - first /\ N \in Nat
    BY <2>1, <2>2
  <2>4. QED
    BY <2>2, <2>3 DEF IsDays
<1>2. LocalDay(range.from, range.zone) = first
  BY <1>1, StartsInOrder
<1>3. \A d \in Int : NextDay(S(d), range.zone) = S(d + 1)
  BY <1>1, NextDayIs
<1>4. EachLocalDay(range) = {LocalDay(cursor[n], range.zone) : n \in {m \in DOMAIN cursor : cursor[m] < range.to}}
  BY DEF EachLocalDay
<1>5. \A d \in Int : S(d) \in Int /\ LocalDay(S(d), range.zone) = d /\ (S(d) < range.to <=> d <= last)
  <2> SUFFICES ASSUME NEW d \in Int
               PROVE  S(d) \in Int /\ LocalDay(S(d), range.zone) = d /\ (S(d) < range.to <=> d <= last)
    OBVIOUS
  <2>1. S(d) \in Int /\ S(last + 1) \in Int
    BY <1>1, StartIs
  <2>2. LocalDay(S(d), range.zone) = d /\ (S(last + 1) <= S(d) <=> last + 1 <= d)
    BY <1>1, StartsInOrder
  <2> HIDE DEF S
  <2>3. QED
    BY <1>1, <2>1, <2>2
<1> HIDE DEF N, S
<1>6. Moves(right)
  <2>1. \A n \in 0 .. N : n # 0 => n - 1 \in 0 .. N /\ right[n - 1] = S(first + (n - 1)) /\ S((first + (n - 1)) + 1) = S(first + n)
    BY <1>1
  <2>2. ASSUME NEW n \in 0 .. N
        PROVE  S(first + n) = IF n = 0 THEN S(LocalDay(range.from, range.zone)) ELSE NextDay(right[n - 1], range.zone)
    <3>1. CASE n = 0
      <4>1. first + n = first
        BY <1>1, <3>1
      <4>2. QED
        BY <1>2, <3>1, <4>1
    <3>2. CASE n # 0
      <4>1. first + (n - 1) \in Int
        BY <1>1
      <4>2. QED
        BY <1>3, <2>1, <3>2, <4>1
    <3>3. QED
      BY <3>1, <3>2
  <2>3. QED
    BY <2>2
<1>7. Moves(cursor)
  <2> HIDE DEF Moves
  <2>1. QED
    BY <1>6
<1> DEFINE Bad == {n \in 0 .. N : cursor[n] # S(first + n)}
<1>8. Bad = {}
  <2> SUFFICES ASSUME Bad # {} PROVE FALSE
    OBVIOUS
  <2>1. Bad \subseteq Nat
    BY <1>1
  <2>2. PICK n \in Bad : \A m \in Bad : n <= m
    BY <2>1, LeastThereIs
  <2>3. cursor[n] = IF n = 0 THEN S(LocalDay(range.from, range.zone)) ELSE NextDay(cursor[n - 1], range.zone)
    BY <1>7
  <2> HIDE DEF cursor
  <2>4. n # 0
    <3>1. first + 0 = first
      BY <1>1
    <3>2. QED
      BY <1>2, <2>3, <3>1
  <2>5. n - 1 \in 0 .. N /\ cursor[n - 1] = S(first + (n - 1))
    <3>1. n \in Nat /\ n - 1 \in Nat /\ n - 1 < n /\ n - 1 \in 0 .. N
      BY <1>1, <2>4
    <3>2. n - 1 \notin Bad
      BY <2>2, <3>1
    <3>3. QED
      BY <3>1, <3>2
  <2>6. cursor[n] = S((first + (n - 1)) + 1)
    BY <1>1, <1>3, <2>3, <2>4, <2>5
  <2>7. (first + (n - 1)) + 1 = first + n
    BY <1>1
  <2>8. QED
    BY <2>6, <2>7
<1>9. DOMAIN cursor = 0 .. N
  BY <1>7
<1> HIDE DEF cursor
<1>10. \A n \in 0 .. N : cursor[n] = S(first + n)
  BY <1>8
<1>11. ASSUME NEW n \in DOMAIN cursor, cursor[n] < range.to PROVE LocalDay(cursor[n], range.zone) \in first .. last
  <2>1. n \in Nat /\ first + n \in Int /\ cursor[n] = S(first + n)
    BY <1>1, <1>9, <1>10, <1>11
  <2>2. first + n <= last /\ LocalDay(cursor[n], range.zone) = first + n
    BY <1>5, <1>11, <2>1
  <2>3. QED
    BY <1>1, <2>1, <2>2
<1>12. ASSUME NEW d \in first .. last PROVE \E n \in DOMAIN cursor : cursor[n] < range.to /\ d = LocalDay(cursor[n], range.zone)
  <2>1. d - first \in 0 .. N /\ d \in Int /\ first + (d - first) = d /\ d <= last
    BY <1>1
  <2>2. cursor[d - first] = S(d)
    BY <1>10, <2>1
  <2>3. QED
    BY <1>5, <1>9, <2>1, <2>2
<1>13. QED
  BY <1>4, <1>11, <1>12

-----------------------------------------------------------------------------
\* One step of SumOf(), and what it comes to where g counts the e of W by key.
Plus(i, g, s) == IF s = {} THEN 0 ELSE LET x == CHOOSE x \in s : TRUE IN g[x] + i[s \ {x}]
Of(W, key, s) == {e \in W : key[e] \in s}
Counts(g, W, key, K) ==
  DOMAIN g = K /\ (\A e \in W : key[e] \in K) /\ \A k \in K : g[k] = Cardinality({e \in W : key[e] = k})

\* One key more adds the records of that key to the sum.
LEMMA CountStep ==
  ASSUME NEW K, NEW W, IsFiniteSet(W), NEW key, NEW g, Counts(g, W, key, K),
         NEW s \in SUBSET K, NEW i, \A x \in s : i[s \ {x}] = Cardinality(Of(W, key, s \ {x}))
  PROVE  Plus(i, g, s) = Cardinality(Of(W, key, s))
<1>1. CASE s = {}
  <2>1. Of(W, key, s) = {}
    BY <1>1 DEF Of
  <2>2. QED
    BY <1>1, <2>1, FS_EmptySet DEF Plus
<1>2. CASE s # {}
  <2> DEFINE x == CHOOSE x \in s : TRUE
             one == {e \in W : key[e] = x}
             rest == Of(W, key, s \ {x})
  <2>1. x \in s
    BY <1>2
  <2> HIDE DEF x
  <2>2. IsFiniteSet(one) /\ IsFiniteSet(rest) /\ one \cap rest = {} /\ one \cup rest = Of(W, key, s)
    BY <2>1, FS_Subset DEF Of
  <2>3. Cardinality(Of(W, key, s)) = Cardinality(one) + Cardinality(rest) - Cardinality({})
    <3> HIDE DEF one, rest
    <3>1. Cardinality(one \cup rest) = Cardinality(one) + Cardinality(rest) - Cardinality(one \cap rest)
      BY <2>2, FS_Union
    <3>2. QED
      BY <2>2, <3>1
  <2>4. Cardinality(one) \in Nat /\ Cardinality(rest) \in Nat /\ Cardinality({}) = 0
    BY <2>2, FS_CardinalityType, FS_EmptySet
  <2>5. Plus(i, g, s) = g[x] + i[s \ {x}]
    BY <1>2 DEF Plus, x
  <2>6. g[x] = Cardinality(one) /\ i[s \ {x}] = Cardinality(rest)
    BY <2>1 DEF Counts
  <2>7. QED
    BY <2>3, <2>4, <2>5, <2>6
<1>3. QED
  BY <1>1, <1>2

\* The counts by key add up to the number of all.
LEMMA CountsAddUp ==
  ASSUME NEW K, IsFiniteSet(K), NEW W, IsFiniteSet(W), NEW key, NEW g, Counts(g, W, key, K)
  PROVE  SumOf(g) = Cardinality(W)
<1> DEFINE Iter(i) == i = [s \in SUBSET K |-> Plus(i, g, s)]
           right == [s \in SUBSET K |-> Cardinality(Of(W, key, s))]
           iter == CHOOSE i : Iter(i)
<1>1. SumOf(g) = iter[K]
  BY DEF SumOf, MapThenSumSet, MapThenFoldSet, Counts, Plus
<1>2. Iter(right)
  <2>1. \A s \in SUBSET K : \A x \in s : s \ {x} \in SUBSET K
    OBVIOUS
  <2>2. \A s \in SUBSET K : right[s] = Cardinality(Of(W, key, s))
    OBVIOUS
  <2> HIDE DEF right
  <2>3. \A s \in SUBSET K : Plus(right, g, s) = Cardinality(Of(W, key, s))
    BY <2>1, <2>2, CountStep
  <2>4. QED
    BY <2>3 DEF right
<1>3. Iter(iter)
  <2> HIDE DEF Iter
  <2>1. QED
    BY <1>2
<1>4. \A s \in SUBSET K : iter[s] = Plus(iter, g, s)
  <2>1. iter = [s \in SUBSET K |-> Plus(iter, g, s)]
    BY <1>3
  <2> HIDE DEF iter
  <2>2. QED
    BY <2>1
<1> HIDE DEF iter
<1> DEFINE Bad == {s \in SUBSET K : iter[s] # Cardinality(Of(W, key, s))}
<1>5. Bad = {}
  <2> SUFFICES ASSUME Bad # {} PROVE FALSE
    OBVIOUS
  <2> DEFINE Sizes == {Cardinality(s) : s \in Bad}
  <2>1. \A s \in Bad : IsFiniteSet(s) /\ Cardinality(s) \in Nat
    BY FS_Subset, FS_CardinalityType
  <2>2. Sizes \in SUBSET Nat /\ Sizes # {}
    BY <2>1
  <2>3. PICK m \in Sizes : \A n \in Sizes : m <= n
    BY <2>2, LeastThereIs
  <2>4. PICK s \in Bad : m = Cardinality(s)
    BY <2>3
  <2>5. ASSUME NEW x \in s PROVE iter[s \ {x}] = Cardinality(Of(W, key, s \ {x}))
    <3>1. IsFiniteSet(s) /\ s \ {x} \in SUBSET K
      BY <2>1, <2>4
    <3>2. Cardinality(s \ {x}) = Cardinality(s) - 1 /\ Cardinality(s) \in Nat
      BY <2>1, <3>1, FS_RemoveElement
    <3>3. s \ {x} \notin Bad
      <4>1. s \ {x} \in Bad => m <= Cardinality(s \ {x})
        <5> HIDE DEF Bad
        <5>1. QED
          BY <2>3
      <4>2. QED
        BY <2>4, <3>2, <4>1
    <3>4. QED
      BY <3>1, <3>3
  <2>6. Plus(iter, g, s) = Cardinality(Of(W, key, s))
    <3>1. s \in SUBSET K
      OBVIOUS
    <3> HIDE DEF Bad
    <3>2. QED
      BY <2>5, <3>1, CountStep
  <2>7. QED
    BY <1>4, <2>6
<1>6. iter[K] = Cardinality(Of(W, key, K))
  BY <1>5
<1>7. Of(W, key, K) = W
  BY DEF Of, Counts
<1>8. QED
  BY <1>1, <1>6, <1>7

-----------------------------------------------------------------------------
Recorded(records) == IsFiniteSet(records) /\ \A e \in records : DOMAIN e = {"id", "space", "contact", "at", "status"} /\ e.at \in Int

\* The records of a period.
InPeriod(records, range, by, k) == {e \in Within(records, range) : Key(LocalDay(e.at, range.zone), by) = k}

\* The point of a period, with or without a bucket, is of its records.
LEMMA PointIs ==
  ASSUME NEW records, NEW range, NEW by, NEW k, NEW buckets, buckets = Buckets(records, range, by)
  PROVE  (IF k \in DOMAIN buckets THEN buckets[k] ELSE None) = Totals(InPeriod(records, range, by, k))
<1>1. DOMAIN buckets = {Key(LocalDay(e.at, range.zone), by) : e \in Within(records, range)}
  BY DEF Buckets
<1>2. CASE k \in DOMAIN buckets
  BY <1>1, <1>2 DEF Buckets, InPeriod
<1>3. CASE k \notin DOMAIN buckets
  <2>1. InPeriod(records, range, by, k) = {}
    BY <1>1, <1>3 DEF InPeriod
  <2>2. \A statuses : Having({}, statuses) = {}
    BY DEF Having
  <2>3. Totals({}) = None
    BY <2>2, FS_EmptySet DEF Totals, None
  <2>4. QED
    BY <1>3, <2>1, <2>3
<1>4. QED
  BY <1>2, <1>3

\* A function has no more values than arguments.
LEMMA ImageIs ==
  ASSUME NEW S, IsFiniteSet(S), NEW f, DOMAIN f = S
  PROVE  IsFiniteSet({f[x] : x \in S})
<1> DEFINE T == {f[x] : x \in S}
           g == [x \in S |-> f[x]]
<1>1. g \in Surjection(S, T)
  BY DEF Surjection
<1>2. QED
  BY <1>1, FS_Surjection

\* The records of a range are finitely many and have their instants.
LEMMA WithinIs ==
  ASSUME NEW records, Recorded(records), NEW range
  PROVE  IsFiniteSet(Within(records, range)) /\ \A e \in Within(records, range) : e.at \in Int
<1>1. Within(records, range) \in SUBSET records
  BY DEF Within
<1>2. QED
  BY <1>1, FS_Subset DEF Recorded

\* The series of the analytics has a point for every record, so it adds up.
LEMMA SeriesAddsUp ==
  ASSUME NEW records, Recorded(records), NEW range, NEW first, NEW last, IsDays(range, first, last), Regular(range.zone),
         NEW by, NEW series, series = ActivitySeries(range, by, Buckets(records, range, by))
  PROVE  /\ Sum(series) = Totals(Within(records, range)).total
         /\ SumSucceeded(series) = Totals(Within(records, range)).succeeded
<1> DEFINE W == Within(records, range)
           K == {Key(d, by) : d \in first .. last}
           key == [e \in W |-> Key(LocalDay(e.at, range.zone), by)]
<1>1. IsFiniteSet(W) /\ \A e \in W : e.at \in Int /\ range.from <= e.at /\ e.at < range.to
  BY WithinIs DEF Within
<1>2. \A e \in W : key[e] \in K
  BY <1>1, DaysAre
<1>3. IsFiniteSet(K)
  <2>1. IsFiniteSet(first .. last)
    BY FS_Interval DEF IsDays
  <2> DEFINE f == [d \in first .. last |-> Key(d, by)]
  <2>2. K = {f[d] : d \in first .. last} /\ DOMAIN f = first .. last
    OBVIOUS
  <2> HIDE DEF f
  <2>3. QED
    BY <2>1, <2>2, ImageIs
<1>4. DOMAIN series = K /\ \A k \in K : series[k] = Totals(InPeriod(records, range, by, k))
  <2>1. series = [k \in K |-> Totals(InPeriod(records, range, by, k))]
    BY EachDayIs, PointIs DEF ActivitySeries
  <2> HIDE DEF K
  <2>2. QED
    BY <2>1
<1>5. \A k : InPeriod(records, range, by, k) = {e \in W : key[e] = k}
  BY DEF InPeriod
<1>6. \A some : Totals(some).total = Cardinality(some) /\ Totals(some).succeeded = Cardinality(Having(some, {"completed", "sent"}))
  BY DEF Totals
<1>7. Sum(series) = Cardinality(W)
  <2> DEFINE g == [k \in DOMAIN series |-> series[k].total]
  <2>1. \A k \in K : g[k] = Cardinality({e \in W : key[e] = k})
    BY <1>4, <1>5, <1>6
  <2>2. DOMAIN g = K
    BY <1>4
  <2> HIDE DEF g, K, key, W
  <2>3. Counts(g, W, key, K)
    BY <1>2, <2>1, <2>2 DEF Counts
  <2>4. QED
    BY <1>1, <1>3, <2>3, CountsAddUp DEF Sum, g
<1>8. SumSucceeded(series) = Cardinality(Having(W, {"completed", "sent"}))
  <2> DEFINE g == [k \in DOMAIN series |-> series[k].succeeded]
             V == Having(W, {"completed", "sent"})
  <2>1. V \subseteq W /\ IsFiniteSet(V)
    BY <1>1, FS_Subset DEF Having
  <2>2. \A k : Having({e \in W : key[e] = k}, {"completed", "sent"}) = {e \in V : key[e] = k}
    <3> HIDE DEF W, key
    <3>1. QED
      BY DEF Having
  <2>3. \A k \in K : g[k] = Cardinality({e \in V : key[e] = k})
    <3> HIDE DEF K, key, V, W
    <3>1. \A k \in K : g[k] = Cardinality(Having(InPeriod(records, range, by, k), {"completed", "sent"}))
      BY <1>4, <1>6
    <3>2. QED
      BY <1>5, <2>2, <3>1
  <2>4. DOMAIN g = K
    BY <1>4
  <2> HIDE DEF g, K, key, V, W
  <2>5. Counts(g, V, key, K)
    BY <1>2, <2>1, <2>3, <2>4 DEF Counts
  <2>6. QED
    BY <1>3, <2>1, <2>5, CountsAddUp DEF SumSucceeded, g, V
<1>9. QED
  BY <1>6, <1>7, <1>8

\* Every record has one status, so the breakdown adds up to the total.
LEMMA BreakdownAddsUp ==
  ASSUME NEW W, IsFiniteSet(W)
  PROVE  SumOf(Breakdown(W)) = Totals(W).total
<1> DEFINE g == Breakdown(W)
           K == {e.status : e \in W}
           key == [e \in W |-> e.status]
<1>1. IsFiniteSet(K)
  <2>1. K = {key[e] : e \in W} /\ DOMAIN key = W
    OBVIOUS
  <2> HIDE DEF key
  <2>2. QED
    BY <2>1, ImageIs
<1>2. \A k : Having(W, {k}) = {e \in W : key[e] = k}
  BY DEF Having
<1>3. DOMAIN g = K /\ (\A e \in W : key[e] \in K) /\ \A k \in K : g[k] = Cardinality({e \in W : key[e] = k})
  BY <1>2 DEF Breakdown
<1> HIDE DEF g, K, key
<1>4. Counts(g, W, key, K)
  BY <1>3 DEF Counts
<1>5. SumOf(g) = Cardinality(W)
  BY <1>1, <1>4, CountsAddUp
<1>6. QED
  BY <1>5 DEF g, Totals

\* The point for today is of the records of today.
LEMMA TodayIs ==
  ASSUME NEW records, Recorded(records), NEW range, NEW first, NEW last, IsDays(range, first, last), Regular(range.zone),
         NEW today, NEW d, IsDays(today, d, d), today.zone = range.zone,
         range.to >= today.to, range.from <= today.from,
         NEW series, series = DaySeries(range, Buckets(records, range, "day"))
  PROVE  series[Key(LocalDay(today.from, today.zone), "day")] = Totals(Within(records, today))
<1> DEFINE zone == range.zone
           k == Key(d, "day")
           n == RangeDayCount(range)
<1>1. /\ IsZone(zone) /\ Regular(zone) /\ d \in Int /\ first \in Int /\ last \in Int /\ first <= last /\ d + 1 \in Int /\ last + 1 \in Int
      /\ today.from = StartOfLocalDay(d, zone) /\ today.to = StartOfLocalDay(d + 1, zone)
      /\ range.from = StartOfLocalDay(first, zone) /\ range.to = StartOfLocalDay(last + 1, zone)
  BY DEF IsDays
<1>2. LocalDay(today.from, today.zone) = d /\ LocalDay(range.from, zone) = first /\ n = last + 1 - first
  BY <1>1, StartsInOrder, DaysCounted
<1>3. first <= d /\ d <= last
  <2>1. StartOfLocalDay(first, zone) <= StartOfLocalDay(d, zone) <=> first <= d
    BY <1>1, StartsInOrder
  <2>2. StartOfLocalDay(d + 1, zone) <= StartOfLocalDay(last + 1, zone) <=> d + 1 <= last + 1
    BY <1>1, StartsInOrder
  <2>3. today.to \in Int /\ range.to \in Int
    BY <1>1, StartIs
  <2>4. QED
    BY <1>1, <2>1, <2>2, <2>3
<1>4. \A e, f : Key(e, "day") = Key(f, "day") <=> e = f
  BY DEF Key
<1>5. k \in {Key(e, "day") : e \in first .. first + n - 1}
  BY <1>1, <1>2, <1>3
<1>6. series[k] = Totals(InPeriod(records, range, "day", k))
  <2>1. series[k] = IF k \in DOMAIN Buckets(records, range, "day") THEN Buckets(records, range, "day")[k] ELSE None
    <3> HIDE DEF k
    <3>1. QED
      BY <1>2, <1>5 DEF DaySeries
  <2>2. QED
    BY <2>1, PointIs
<1>7. InPeriod(records, range, "day", k) = Within(records, today)
  <2>1. \A e \in records : e.at \in Int
    BY DEF Recorded
  <2>2. \A t \in Int : /\ range.from <= t /\ t < range.to <=> LocalDay(t, zone) \in first .. last
                       /\ today.from <= t /\ t < today.to <=> LocalDay(t, zone) \in d .. d
    BY <1>1, DaysAre
  <2>3. \A t \in Int : LocalDay(t, zone) \in Int
    BY <1>1, DayIs
  <2>4. \A e \in records : e \in InPeriod(records, range, "day", k) <=> e \in Within(records, today)
    <3> SUFFICES ASSUME NEW e \in records PROVE e \in InPeriod(records, range, "day", k) <=> e \in Within(records, today)
      OBVIOUS
    <3>1. e \in InPeriod(records, range, "day", k) <=> range.from <= e.at /\ e.at < range.to /\ LocalDay(e.at, zone) = d
      BY <1>4 DEF InPeriod, Within
    <3>2. e \in Within(records, today) <=> today.from <= e.at /\ e.at < today.to
      BY DEF Within
    <3>3. QED
      BY <1>1, <1>3, <2>1, <2>2, <2>3, <3>1, <3>2
  <2>5. InPeriod(records, range, "day", k) \subseteq records /\ Within(records, today) \subseteq records
    BY DEF InPeriod, Within
  <2>6. QED
    BY <2>4, <2>5
<1>8. QED
  BY <1>2, <1>6, <1>7

-----------------------------------------------------------------------------
\* A user asks for days in a zone; a request reads the figures of days, and has
\* those of today beside them.
IsQuestion(q) ==
  /\ DOMAIN q = {"preset", "zone", "from", "to", "by"} /\ q.preset \in {"today", "week", "month", "custom"}
  /\ IsZone(q.zone) /\ q.from \in Int /\ q.to \in Int

IsReport(q) ==
  /\ q.kind \in {"analytics", "dashboard"} /\ q.today.zone = q.range.zone
  /\ \E first, last : IsDays(q.range, first, last)
  /\ \E d : IsDays(q.today, d, d)

\* What FiguresAddUp says of one request.
Agrees(q) ==
  \A t \in {1, 2} :
    LET f == q.figures
    IN  q.pc = "reading" /\ f # << >> /\ Regular(q.range.zone) =>
          IF q.kind = "analytics"
          THEN /\ Sum(f.series[t]) = f.totals[t].total /\ SumSucceeded(f.series[t]) = f.totals[t].succeeded
               /\ SumOf(f.statuses[t]) = f.totals[t].total
          ELSE q.range.to >= q.today.to /\ q.range.from <= q.today.from =>
                 f.series[t][Key(LocalDay(q.today.from, q.today.zone), "day")] = f.today[t]

FigureInv ==
  /\ now \in Int /\ Recorded(calls) /\ Recorded(emails) /\ IsQuestion(chosen)
  /\ \A r \in Request : (request[r].pc = "reading" => IsReport(request[r])) /\ Agrees(request[r])

\* A range the server accepts is of days, and so is today.
LEMMA ResolvedIs ==
  ASSUME NEW q, IsQuestion(q), NEW t \in Int, q.preset = "custom" => q.from <= q.to
  PROVE  /\ \E first, last : IsDays(ResolveDateRange(q, t), first, last)
         /\ ResolveDateRange(q, t).zone = q.zone
<1>1. LocalDay(t, q.zone) \in Int
  <2>1. t + Offset(t, q.zone) \in Int
    BY DEF Offset, IsQuestion, IsZone
  <2>2. QED
    BY <2>1, DivIs, FiguresAssumption DEF LocalDay
<1> DEFINE today == LocalDay(t, q.zone)
<1> HIDE DEF today
<1>2. ASSUME NEW p, NEW a \in Int, NEW b \in Int, a <= b
      PROVE  IsDays(Days(p, a, b, q.zone), a, b) /\ Days(p, a, b, q.zone).zone = q.zone
  BY <1>2 DEF Days, IsDays, IsQuestion
<1>3. PICK p \in {"today", "week", "month", "custom"}, a \in Int, b \in Int : a <= b /\ ResolveDateRange(q, t) = Days(p, a, b, q.zone)
  <2>1. today \in Int /\ today - 6 \in Int /\ today - 29 \in Int /\ today - 6 <= today /\ today - 29 <= today
    BY <1>1 DEF today
  <2>2. CASE q.preset = "custom"
    <3>1. ResolveDateRange(q, t) = Days("custom", q.from, q.to, q.zone)
      BY <2>2 DEF ResolveDateRange
    <3>2. QED
      BY <2>2, <3>1 DEF IsQuestion
  <2>3. CASE q.preset = "week"
    <3>1. ResolveDateRange(q, t) = Days("week", today - 6, today, q.zone)
      BY <2>3 DEF ResolveDateRange, today
    <3>2. QED
      BY <2>1, <3>1
  <2>4. CASE q.preset = "month"
    <3>1. ResolveDateRange(q, t) = Days("month", today - 29, today, q.zone)
      BY <2>4 DEF ResolveDateRange, today
    <3>2. QED
      BY <2>1, <3>1
  <2>5. CASE q.preset = "today"
    <3>1. ResolveDateRange(q, t) = Days("today", today, today, q.zone)
      BY <2>5 DEF ResolveDateRange, today
    <3>2. QED
      BY <2>1, <3>1
  <2>6. QED
    BY <2>2, <2>3, <2>4, <2>5 DEF IsQuestion
<1>4. QED
  BY <1>2, <1>3

\* Today is one day, in the zone of the question.
LEMMA TodayResolved ==
  ASSUME NEW q, IsQuestion(q), NEW t \in Int, NEW today, today = ResolveDateRange([q EXCEPT !.preset = "today"], t)
  PROVE  (\E d : IsDays(today, d, d)) /\ today.zone = q.zone
<1> DEFINE p == [q EXCEPT !.preset = "today"]
           d == LocalDay(t, q.zone)
<1>1. p.preset = "today" /\ p.zone = q.zone
  BY DEF IsQuestion
<1>2. today = Days("today", d, d, q.zone)
  BY <1>1 DEF ResolveDateRange
<1>3. d \in Int
  <2>1. t + Offset(t, q.zone) \in Int
    BY DEF Offset, IsQuestion, IsZone
  <2>2. QED
    BY <2>1, DivIs, FiguresAssumption DEF LocalDay
<1> HIDE DEF d
<1>4. QED
  BY <1>2, <1>3 DEF Days, IsDays, IsQuestion

\* A request has no figures as it begins, and is of days if it is to read some.
LEMMA BegunReport ==
  ASSUME FigureInv, NEW r \in Request, NEW kind \in {"analytics", "dashboard"}, NEW s,
         NEW question, IsQuestion(question), Begin(r, kind, s, question)
  PROVE  \E q : /\ request' = [request EXCEPT ![r] = q]
                /\ q.pc = "reading" => IsReport(q) /\ q.figures = << >>
<1> DEFINE range == ResolveDateRange(question, now)
           by == IF kind = "analytics" THEN Granularity(question, range) ELSE "day"
           key == CacheKey(s, range, by)
           today == ResolveDateRange([question EXCEPT !.preset = "today"], now)
           asked == [pc |-> "reading", kind |-> kind, space |-> s, range |-> range, by |-> by,
                     today |-> today, figures |-> << >>]
<1>1. IF ~IsAccepted(question, now)
      THEN request' = [request EXCEPT ![r] = [asked EXCEPT !.pc = "refused"]]
      ELSE request' = [request EXCEPT ![r] = asked]
           \/ request' = [request EXCEPT ![r] = [asked EXCEPT !.pc = "served",
                            !.figures = cache[CHOOSE i \in Kept(key) : TRUE].answer]]
  BY DEF Begin
<1>2. IsAccepted(question, now) => IsReport(asked)
  <2> SUFFICES ASSUME IsAccepted(question, now) PROVE IsReport(asked)
    OBVIOUS
  <2>1. question.preset = "custom" => question.from <= question.to
    BY DEF IsAccepted
  <2>2. (\E first, last : IsDays(range, first, last)) /\ range.zone = question.zone
    BY <2>1, ResolvedIs DEF FigureInv
  <2>3. (\E d : IsDays(today, d, d)) /\ today.zone = question.zone
    BY TodayResolved DEF FigureInv
  <2>4. asked.range = range /\ asked.today = today /\ asked.kind = kind
    <3> HIDE DEF range, today, by
    <3>1. QED
      OBVIOUS
  <2> HIDE DEF range, today, by, asked
  <2>5. QED
    BY <2>2, <2>3, <2>4 DEF IsReport
<1>3. /\ asked.pc = "reading" /\ asked.figures = << >> /\ [asked EXCEPT !.pc = "refused"].pc = "refused"
      /\ \A f : [asked EXCEPT !.pc = "served", !.figures = f].pc = "served"
  <2> HIDE DEF range, today, by
  <2>1. QED
    OBVIOUS
<1> HIDE DEF asked, key
<1>4. QED
  BY <1>1, <1>2, <1>3

\* What the queries find agrees.
LEMMA FiguresAgree ==
  ASSUME FigureInv, NEW q, IsReport(q), NEW f \in Figures(q), Regular(q.range.zone), NEW t \in {1, 2}
  PROVE  IF q.kind = "analytics"
         THEN /\ Sum(f.series[t]) = f.totals[t].total /\ SumSucceeded(f.series[t]) = f.totals[t].succeeded
              /\ SumOf(f.statuses[t]) = f.totals[t].total
         ELSE q.range.to >= q.today.to /\ q.range.from <= q.today.from =>
                f.series[t][Key(LocalDay(q.today.from, q.today.zone), "day")] = f.today[t]
<1> DEFINE c == CallsOf(q.space)
           m == EmailsOf(q.space)
           e == IF t = 1 THEN c ELSE m
<1>1. Recorded(c) /\ Recorded(m)
  <2>1. c \subseteq calls /\ m \subseteq emails
    BY DEF CallsOf, EmailsOf
  <2>2. QED
    BY <2>1, FS_Subset DEF Recorded, FigureInv
<1>2. Recorded(e)
  BY <1>1
<1>3. CASE q.kind = "analytics"
  <2>1. /\ f.totals = <<Totals(Within(c, q.range)), Totals(Within(m, q.range))>>
        /\ f.statuses = <<Breakdown(Within(c, q.range)), Breakdown(Within(m, q.range))>>
        /\ f.series = <<ActivitySeries(q.range, q.by, Buckets(c, q.range, q.by)),
                        ActivitySeries(q.range, q.by, Buckets(m, q.range, q.by))>>
    BY <1>3 DEF Figures
  <2> HIDE DEF c, m
  <2>2. /\ f.totals[t] = Totals(Within(e, q.range)) /\ f.statuses[t] = Breakdown(Within(e, q.range))
        /\ f.series[t] = ActivitySeries(q.range, q.by, Buckets(e, q.range, q.by))
    BY <2>1
  <2> HIDE DEF e
  <2>3. PICK first, last : IsDays(q.range, first, last)
    BY DEF IsReport
  <2>4. /\ Sum(f.series[t]) = f.totals[t].total /\ SumSucceeded(f.series[t]) = f.totals[t].succeeded
    BY <1>2, <2>2, <2>3, SeriesAddsUp
  <2>5. SumOf(f.statuses[t]) = f.totals[t].total
    BY <1>2, <2>2, WithinIs, BreakdownAddsUp
  <2>6. QED
    BY <1>3, <2>4, <2>5
<1>4. CASE q.kind # "analytics"
  <2>1. /\ f.today = <<Totals(Within(c, q.today)), Totals(Within(m, q.today))>>
        /\ f.series = <<DaySeries(q.range, Buckets(c, q.range, "day")), DaySeries(q.range, Buckets(m, q.range, "day"))>>
    BY <1>4 DEF Figures
  <2> HIDE DEF c, m
  <2>2. f.today[t] = Totals(Within(e, q.today)) /\ f.series[t] = DaySeries(q.range, Buckets(e, q.range, "day"))
    BY <2>1
  <2> HIDE DEF e
  <2>3. PICK first, last : IsDays(q.range, first, last)
    BY DEF IsReport
  <2>4. PICK d : IsDays(q.today, d, d)
    BY DEF IsReport
  <2>5. q.today.zone = q.range.zone
    BY DEF IsReport
  <2>6. ASSUME q.range.to >= q.today.to, q.range.from <= q.today.from
        PROVE  f.series[t][Key(LocalDay(q.today.from, q.today.zone), "day")] = Totals(Within(e, q.today))
    BY <1>2, <2>2, <2>3, <2>4, <2>5, <2>6, TodayIs
  <2>7. QED
    BY <1>4, <2>2, <2>6
<1>5. QED
  BY <1>3, <1>4

\* Others' figures stay; so the step of a request is that of its own.
LEMMA OthersAgree ==
  ASSUME FigureInv, RequestInv, NEW r \in Request, NEW q, request' = [request EXCEPT ![r] = q],
         q.pc = "reading" => IsReport(q), Agrees(q), UNCHANGED <<now, calls, emails>>, IsQuestion(chosen')
  PROVE  FigureInv'
<1>1. request' = [p \in Request |-> IF p = r THEN q ELSE request[p]]
  BY DEF RequestInv
<1>2. \A p \in Request : (request'[p].pc = "reading" => IsReport(request'[p])) /\ Agrees(request'[p])
  BY <1>1 DEF FigureInv
<1>3. QED
  BY <1>2 DEF FigureInv, Recorded, IsReport, Agrees

\* Nothing has been asked or recorded as it begins.
LEMMA FigureInitInv == ReportInit => FigureInv
<1> SUFFICES ASSUME ReportInit PROVE FigureInv
  OBVIOUS
<1>1. now = 0 /\ calls = {} /\ emails = {} /\ chosen \in Questions /\ \A r \in Request : request[r].pc = "idle"
  BY DEF ReportInit, Idle
<1>2. IsQuestion(chosen)
  BY <1>1, ReportAssumption DEF IsQuestion, IsZone
<1>3. Recorded({})
  BY FS_EmptySet DEF Recorded
<1>4. \A r \in Request : Agrees(request[r])
  BY <1>1 DEF Agrees
<1>5. QED
  BY <1>1, <1>2, <1>3, <1>4 DEF FigureInv

\* The tables grow by records and records change their status.
LEMMA LoggedRecord ==
  ASSUME NEW records, Recorded(records), NEW e, DOMAIN e = {"id", "space", "contact", "at", "status"}, e.at \in Int
  PROVE  Recorded(records \cup {e})
BY FS_AddElement DEF Recorded

\* A record settled is a record.
LEMMA SettledRecord ==
  ASSUME NEW records, Recorded(records), NEW e \in records, NEW status
  PROVE  Recorded((records \ {e}) \cup {[e EXCEPT !.status = status]})
<1> DEFINE new == [e EXCEPT !.status = status]
<1>1. DOMAIN new = {"id", "space", "contact", "at", "status"} /\ new.at \in Int
  BY DEF Recorded
<1>2. Recorded(records \ {e})
  <2>1. records \ {e} \in SUBSET records
    OBVIOUS
  <2>2. QED
    BY <2>1, FS_Subset DEF Recorded
<1> HIDE DEF new
<1>3. QED
  BY <1>1, <1>2, LoggedRecord DEF new

\* Every step keeps the figures in agreement.
LEMMA FigureStep ==
  ASSUME FigureInv, ReportInv, [ReportNext]_reportVars
  PROVE  FigureInv'
<1>0. RequestInv
  BY DEF ReportInv
<1>1. ASSUME request' = request, chosen' = chosen, now' \in Int, Recorded(calls'), Recorded(emails') PROVE FigureInv'
  <2>1. FigureInv' <=> /\ now' \in Int /\ Recorded(calls') /\ Recorded(emails') /\ IsQuestion(chosen')
                       /\ \A r \in Request : (request'[r].pc = "reading" => IsReport(request'[r])) /\ Agrees(request'[r])
    BY DEF FigureInv, Recorded, IsQuestion, IsReport, Agrees
  <2>2. QED
    BY <1>1, <2>1 DEF FigureInv
<1>2. ASSUME NEW r \in Request, Read(r) PROVE FigureInv'
  <2>1. request[r].pc = "reading" /\ UNCHANGED <<now, calls, emails, chosen>>
    BY <1>2 DEF Read, tables
  <2>2. PICK f \in Figures(request[r]) : request' = [request EXCEPT ![r].figures = f]
    BY <1>2 DEF Read
  <2> DEFINE q == [request[r] EXCEPT !.figures = f]
  <2>3. request' = [request EXCEPT ![r] = q]
    BY <2>2 DEF RequestInv
  <2>4. /\ q.pc = "reading" /\ q.figures = f /\ q.kind = request[r].kind
        /\ q.range = request[r].range /\ q.today = request[r].today
    <3>1. DOMAIN request[r] = Asked
      BY <1>0, <2>1 DEF RequestInv, Idle
    <3>2. QED
      BY <2>1, <3>1 DEF Asked
  <2> HIDE DEF q
  <2>5. IsReport(request[r]) /\ IsReport(q)
    BY <2>1, <2>4 DEF FigureInv, IsReport
  <2>6. Agrees(q)
    BY <2>4, <2>5, FiguresAgree DEF Agrees
  <2>7. IsQuestion(chosen')
    BY <2>1 DEF FigureInv
  <2>8. QED
    BY <1>0, <2>1, <2>3, <2>5, <2>6, <2>7, OthersAgree
<1>3. ASSUME NEW r \in Request, NEW q, request' = [request EXCEPT ![r] = q], q.pc # "reading",
             UNCHANGED <<now, calls, emails>>, IsQuestion(chosen')
      PROVE  FigureInv'
  <2>1. Agrees(q)
    BY <1>3 DEF Agrees
  <2>2. QED
    BY <1>0, <1>3, <2>1, OthersAgree
<1>4. ASSUME NEW r \in Request, Answer(r) PROVE FigureInv'
  <2> DEFINE answer == [space |-> request[r].space, range |-> request[r].range, by |-> request[r].by,
                        kind |-> request[r].kind]
             q == [request[r] EXCEPT !.pc = "served", !.figures = answer]
  <2>1. /\ request[r].pc = "reading" /\ request' = [request EXCEPT ![r].pc = "served", ![r].figures = answer]
        /\ UNCHANGED <<now, calls, emails, chosen>>
    BY <1>4 DEF Answer, tables
  <2> HIDE DEF answer
  <2>2. request' = [request EXCEPT ![r] = q]
    BY <1>0, <2>1 DEF RequestInv
  <2>3. q.pc = "served"
    <3>1. DOMAIN request[r] = Asked
      BY <1>0, <2>1 DEF RequestInv, Idle
    <3>2. QED
      BY <3>1 DEF Asked
  <2>4. IsQuestion(chosen')
    BY <2>1 DEF FigureInv
  <2> HIDE DEF q
  <2>5. QED
    BY <1>3, <2>1, <2>2, <2>3, <2>4
<1>5. ASSUME NEW r \in Request, Show(r) \/ Fails(r) PROVE FigureInv'
  <2>1. request' = [request EXCEPT ![r] = Idle] /\ UNCHANGED <<now, calls, emails>>
    BY <1>5 DEF Show, Fails, tables
  <2>2. chosen' = chosen \/ \E b : chosen' = [chosen EXCEPT !.by = b]
    BY <1>5 DEF Show, Fails
  <2>3. IsQuestion(chosen')
    BY <2>2 DEF FigureInv, IsQuestion
  <2>4. Idle.pc # "reading"
    BY DEF Idle
  <2>5. QED
    BY <1>3, <2>1, <2>3, <2>4
<1>6. ASSUME NEW r \in Request, NEW kind \in {"analytics", "dashboard"}, NEW s, NEW question, IsQuestion(question),
             Begin(r, kind, s, question), UNCHANGED <<now, calls, emails>>, IsQuestion(chosen')
      PROVE  FigureInv'
  <2>1. PICK q : request' = [request EXCEPT ![r] = q] /\ (q.pc = "reading" => IsReport(q) /\ q.figures = << >>)
    BY <1>6, BegunReport
  <2>2. Agrees(q)
    BY <2>1 DEF Agrees
  <2>3. QED
    BY <1>0, <1>6, <2>1, <2>2, OthersAgree
<1>7. \A question \in Questions : IsQuestion(question)
  BY ReportAssumption DEF IsQuestion, IsZone
<1>8. ASSUME NEW r \in Request, NEW question \in Questions \cup {chosen}, Choose(r, question) PROVE FigureInv'
  <2>1. IsQuestion(question)
    BY <1>7 DEF FigureInv
  <2>2. Begin(r, screen, Ours, question) /\ screen \in {"analytics", "dashboard"}
        /\ UNCHANGED <<now, calls, emails>> /\ chosen' = question
    BY <1>8 DEF Choose, tables, ReportInv, ScreenInv
  <2>3. QED
    BY <1>6, <2>1, <2>2
<1>9. ASSUME NEW r \in Request, NEW s \in Space, Elsewhere(r, s) PROVE FigureInv'
  <2>1. Begin(r, "analytics", s, chosen) /\ UNCHANGED <<now, calls, emails, chosen>>
    BY <1>9 DEF Elsewhere, tables
  <2>2. IsQuestion(chosen)
    BY DEF FigureInv
  <2>3. QED
    BY <1>6, <2>1, <2>2
<1>10. ASSUME NEW c, NEW table, Log(Ours, c, table) PROVE FigureInv'
  <2> DEFINE e == [id |-> Cardinality(calls \cup emails) + 1, space |-> Ours, contact |-> c, at |-> now, status |-> "queued"]
  <2>1. /\ (calls' = calls \cup {e} /\ emails' = emails) \/ (emails' = emails \cup {e} /\ calls' = calls)
        /\ request' = request /\ chosen' = chosen /\ now' = now
    BY <1>10 DEF Log
  <2>2. DOMAIN e = {"id", "space", "contact", "at", "status"} /\ e.at = now
    OBVIOUS
  <2> HIDE DEF e
  <2>3. Recorded(calls') /\ Recorded(emails') /\ now' \in Int
    BY <2>1, <2>2, LoggedRecord DEF FigureInv
  <2>4. QED
    BY <1>1, <2>1, <2>3
<1>11. ASSUME NEW e, NEW table, NEW status, Settled(e, table, status) PROVE FigureInv'
  <2>1. /\ \/ e \in calls /\ calls' = (calls \ {e}) \cup {[e EXCEPT !.status = status]} /\ emails' = emails
           \/ e \in emails /\ emails' = (emails \ {e}) \cup {[e EXCEPT !.status = status]} /\ calls' = calls
        /\ request' = request /\ chosen' = chosen /\ now' = now
    BY <1>11 DEF Settled
  <2>2. ASSUME NEW records, Recorded(records), e \in records
        PROVE  Recorded((records \ {e}) \cup {[e EXCEPT !.status = status]})
    BY <2>2, SettledRecord
  <2>3. Recorded(calls) /\ Recorded(emails) /\ now \in Int
    BY DEF FigureInv
  <2>4. Recorded(calls')
    <3>1. CASE calls' = calls
      BY <2>3, <3>1
    <3>2. CASE e \in calls /\ calls' = (calls \ {e}) \cup {[e EXCEPT !.status = status]}
      BY <2>2, <2>3, <3>2
    <3>3. QED
      BY <2>1, <3>1, <3>2
  <2>5. Recorded(emails')
    <3>1. CASE emails' = emails
      BY <2>3, <3>1
    <3>2. CASE e \in emails /\ emails' = (emails \ {e}) \cup {[e EXCEPT !.status = status]}
      BY <2>2, <2>3, <3>2
    <3>3. QED
      BY <2>1, <3>1, <3>2
  <2>6. now' \in Int
    BY <2>1, <2>3
  <2>7. QED
    BY <1>1, <2>1, <2>4, <2>5, <2>6
<1>12. ASSUME Tick \/ UNCHANGED reportVars PROVE FigureInv'
  <2>1. /\ request' = request /\ chosen' = chosen /\ calls' = calls /\ emails' = emails
        /\ now' = now \/ now' = now + 1
    BY <1>12 DEF Tick, reportVars, tables
  <2>2. now' \in Int /\ Recorded(calls') /\ Recorded(emails')
    BY <2>1 DEF FigureInv
  <2>3. QED
    BY <1>1, <2>1, <2>2
<1>13. QED
  BY <1>2, <1>4, <1>5, <1>8, <1>9, <1>10, <1>11, <1>12 DEF ReportNext

(***************************************************************************)
(* The figures of a report agree (analytics.service.ts, dashboard.service  *)
(* and date-range.ts), for any records, ranges, buckets and zones whose    *)
(* clocks change once by less than half a day, neither skipping a midnight *)
(* nor passing one twice in the ways Regular() excepts.                    *)
(***************************************************************************)
THEOREM TheFiguresAddUp == ReportSpec => []FiguresAddUp
<1>1. FigureInv => FiguresAddUp
  BY DEF FigureInv, FiguresAddUp, Agrees
<1>2. ReportInv /\ FigureInv /\ [ReportNext]_reportVars => ReportInv' /\ FigureInv'
  BY ReportStep, FigureStep
<1>3. ReportInit => ReportInv /\ FigureInv
  BY ReportInitInv, FigureInitInv
<1>4. QED
  BY <1>1, <1>2, <1>3, PTL DEF ReportSpec

-----------------------------------------------------------------------------
(***************************************************************************)
(* Proofs: telephone numbers.                                              *)
(***************************************************************************)

\* Prefixes of two digits.
LEMMA PrefixOf ==
  ASSUME NEW S, NEW a \in S, NEW b \in S, NEW s \in Seq(S), Len(s) >= 2
  PROVE  IsPrefix(<<a, b>>, s) <=> s[1] = a /\ s[2] = b
<1> DEFINE p == <<a, b>>
<1>1. p \in Seq(S) /\ Len(p) = 2 /\ p[1] = a /\ p[2] = b
  OBVIOUS
<1> HIDE DEF p
<1>2. /\ \A i \in 1 .. 2 : p[i] \in S
      /\ \A i \in 1 .. 2 : s[i] \in S
  BY <1>1, LenProperties
<1>3. /\ SubSeq(p, 1, 2) \in Seq(S) /\ Len(SubSeq(p, 1, 2)) = 2
      /\ SubSeq(p, 1, 2)[1] = a /\ SubSeq(p, 1, 2)[2] = b
  BY <1>1, <1>2, SubSeqProperties
<1>4. /\ SubSeq(s, 1, 2) \in Seq(S) /\ Len(SubSeq(s, 1, 2)) = 2
      /\ SubSeq(s, 1, 2)[1] = s[1] /\ SubSeq(s, 1, 2)[2] = s[2]
  BY <1>2, SubSeqProperties
<1>5. IsPrefix(p, s) <=> SubSeq(p, 1, 2) = SubSeq(s, 1, 2)
  <2>1. Len(s) \in Nat
    BY LenProperties
  <2>2. QED
    BY <1>1, <2>1 DEF IsPrefix
<1>6. SubSeq(p, 1, 2) = SubSeq(s, 1, 2) <=> s[1] = a /\ s[2] = b
  BY <1>3, <1>4, SeqEqual
<1>7. QED
  BY <1>5, <1>6 DEF p

\* Two sequences, one after the other.
Join(st, s, m, t, k, S) ==
  /\ st \in Seq(S) /\ Len(st) = m + k
  /\ \A i \in 1 .. m : st[i] = s[i]
  /\ \A i \in 1 .. k : st[m + i] = t[i]
  /\ SubSeq(st, m + 1, m + k) = t

LEMMA Joined ==
  ASSUME NEW S, NEW s \in Seq(S), NEW t \in Seq(S), NEW m \in Nat, NEW k \in Nat, Len(s) = m, Len(t) = k
  PROVE  Join(s \o t, s, m, t, k, S)
<1> DEFINE st == s \o t
           u == SubSeq(st, m + 1, m + k)
<1>1. /\ st \in Seq(S) /\ Len(st) = m + k
      /\ \A i \in 1 .. m + k : st[i] = IF i <= m THEN s[i] ELSE t[i - m]
  BY ConcatProperties
<1>2. \A i \in 1 .. m + k : st[i] \in S
  BY <1>1, ElementOfSeq
<1> HIDE DEF st
<1>3. /\ \A i \in 1 .. m : st[i] = s[i]
      /\ \A i \in 1 .. k : st[m + i] = t[i]
  BY <1>1
<1>4. \A i \in m + 1 .. m + k : st[i] \in S
  BY <1>2
<1>5. /\ u \in Seq(S)
      /\ Len(u) = IF m + 1 <= m + k THEN m + k - (m + 1) + 1 ELSE 0
      /\ \A i \in 1 .. m + k - (m + 1) + 1 : u[i] = st[m + 1 + i - 1]
  BY <1>4, SubSeqProperties
<1> HIDE DEF u
<1>6. Len(u) = k
  BY <1>5
<1>7. ASSUME NEW i \in 1 .. k PROVE u[i] = t[i]
  <2>1. i \in 1 .. m + k - (m + 1) + 1 /\ m + 1 + i - 1 = m + i
    BY <1>7
  <2>2. QED
    BY <1>3, <1>5, <2>1
<1>8. u = t
  BY <1>5, <1>6, <1>7, SeqEqual
<1>9. QED
  BY <1>1, <1>3, <1>8 DEF u, st, Join

\* What the digits of a number come to, by their length and how they begin.
LEMMA NormalizeOf ==
  ASSUME NEW w, NEW d, w.digits = d, NEW m \in Nat, Len(d) = m, 7 <= m, m <= 15
  PROVE  /\ w.plus => NormalizePhone(w) = d
         /\ ~w.plus /\ IsPrefix(<<0, 0>>, d) /\ m > 9 => NormalizePhone(w) = SubSeq(d, 3, m)
         /\ ~w.plus /\ ~IsPrefix(<<0, 0>>, d) =>
              /\ IsPrefix(Home, d) /\ m = 12 => NormalizePhone(w) = d
              /\ m = 10 => NormalizePhone(w) = Home \o d
              /\ m = 11 /\ Head(d) = 0 => NormalizePhone(w) = Home \o Tail(d)
<1>1. Len(Home) + NationalLength = 12 /\ NationalLength + 1 = 11 /\ NationalLength = 10
  BY DEF NationalLength, Home
<1>2. ~(m < MinDigits \/ m > MaxDigits)
  BY DEF MinDigits, MaxDigits
<1>3. QED
  BY <1>1, <1>2 DEF NormalizePhone

\* However a national number is written, it is normalized to the same.
LEMMA SpellingsAgree ==
  ASSUME NEW S, 0 \in S, 1 \in S, 9 \in S,
         NEW n \in Seq(S), Len(n) = NationalLength, Head(n) # 0, NEW w \in Spellings(n)
  PROVE  NormalizePhone(w) = Home \o n
<1> DEFINE z == <<0>>
           zz == <<0, 0>>
           h == Home \o n
<1>1. /\ Home \in Seq(S) /\ Len(Home) = 2 /\ Home[1] = 9 /\ Home[2] = 1
      /\ z \in Seq(S) /\ Len(z) = 1 /\ z[1] = 0
      /\ zz \in Seq(S) /\ Len(zz) = 2 /\ zz[1] = 0 /\ zz[2] = 0
  BY DEF Home
<1>2. Len(n) = 10 /\ n[1] # 0 /\ n[1] = Head(n)
  BY DEF NationalLength
<1>0. /\ 1 \in Nat /\ 2 \in Nat /\ 10 \in Nat /\ 11 \in Nat /\ 12 \in Nat /\ 14 \in Nat
      /\ 7 <= 10 /\ 10 <= 15 /\ 7 <= 11 /\ 11 <= 15 /\ 7 <= 12 /\ 12 <= 15 /\ 7 <= 14 /\ 14 <= 15 /\ 14 > 9
  OBVIOUS
<1> HIDE DEF z
<1>3. CASE w = [plus |-> FALSE, digits |-> n]
  <2>1. w.digits = n /\ ~w.plus
    BY <1>3
  <2>2. ~IsPrefix(zz, n)
    BY <1>2, PrefixOf
  <2>3. QED
    BY <1>0, <1>2, <2>1, <2>2, NormalizeOf, Zenon
<1>4. CASE w = [plus |-> FALSE, digits |-> z \o n]
  <2> DEFINE d == z \o n
  <2>1. w.digits = d /\ ~w.plus
    BY <1>4
  <2>2. /\ d \in Seq(S) /\ Len(d) = 1 + 10 /\ SubSeq(d, 1 + 1, 1 + 10) = n
        /\ \A i \in 1 .. 1 : d[i] = z[i]
        /\ \A i \in 1 .. 10 : d[1 + i] = n[i]
    <3>1. z \in Seq(S) /\ Len(z) = 1 /\ 1 \in Nat /\ n \in Seq(S) /\ Len(n) = 10 /\ 10 \in Nat
      BY <1>1, <1>2
    <3> HIDE DEF z
    <3>2. Join(d, z, 1, n, 10, S)
      BY <3>1, Joined, Zenon
    <3> HIDE DEF d
    <3>3. QED
      BY <3>2 DEF Join
  <2> HIDE DEF d
  <2>3. d[1] = 0 /\ d[1 + 1] = n[1]
    BY <1>1, <2>2
  <2>4. ~IsPrefix(zz, d)
    BY <1>2, <2>2, <2>3, PrefixOf
  <2>5. d # << >> /\ Head(d) = 0
    BY <2>2, <2>3
  <2>6. Tail(d) = n
    <3>1. Tail(d) = SubSeq(d, 2, Len(d))
      BY <2>2, <2>5, TailIsSubSeq, Zenon
    <3>2. 1 + 1 = 2 /\ Len(d) = 1 + 10
      BY <2>2
    <3>3. QED
      BY <2>2, <3>1, <3>2
  <2>7. QED
    <3>1. Len(d) = 11
      BY <2>2
    <3>2. QED
      BY <1>0, <2>1, <2>4, <2>5, <2>6, <3>1, NormalizeOf, Zenon
<1>5. h \in Seq(S) /\ Len(h) = 2 + 10 /\ \A i \in 1 .. 2 : h[i] = Home[i]
  <2>1. Home \in Seq(S) /\ Len(Home) = 2 /\ 2 \in Nat /\ n \in Seq(S) /\ Len(n) = 10 /\ 10 \in Nat
    BY <1>1, <1>2
  <2>2. Join(h, Home, 2, n, 10, S)
    BY <2>1, Joined, Zenon
  <2> HIDE DEF h
  <2>3. QED
    BY <2>2 DEF Join
<1>6. zz \o Home \o n = zz \o h
  BY <1>1, ConcatAssociative
<1> HIDE DEF h
<1>7. CASE w = [plus |-> FALSE, digits |-> h]
  <2>1. w.digits = h /\ ~w.plus
    BY <1>7
  <2>2. h[1] = 9 /\ h[2] = 1
    BY <1>1, <1>5
  <2>3. ~IsPrefix(zz, h)
    BY <1>5, <2>2, PrefixOf
  <2>4. IsPrefix(<<9, 1>>, h)
    BY <1>5, <2>2, PrefixOf
  <2>5. NormalizePhone(w) = h
    <3>1. Len(h) = 12
      BY <1>5
    <3>2. QED
      BY <1>0, <2>1, <2>3, <2>4, <3>1, NormalizeOf, Zenon DEF Home
  <2>6. QED
    BY <2>5 DEF h
<1>8. CASE w = [plus |-> FALSE, digits |-> zz \o h]
  <2> DEFINE d == zz \o h
  <2>1. w.digits = d /\ ~w.plus
    BY <1>8
  <2> HIDE DEF zz
  <2>2. /\ d \in Seq(S) /\ Len(d) = 2 + 12 /\ SubSeq(d, 2 + 1, 2 + 12) = h
        /\ \A i \in 1 .. 2 : d[i] = zz[i]
    <3>1. Len(h) = 12
      BY <1>5
    <3>2. zz \in Seq(S) /\ Len(zz) = 2 /\ 2 \in Nat /\ 12 \in Nat /\ h \in Seq(S)
      BY <1>1, <1>5 DEF zz
    <3>3. Join(d, zz, 2, h, 12, S)
      BY <3>1, <3>2, Joined, Zenon
    <3> HIDE DEF d
    <3>4. QED
      BY <3>3 DEF Join
  <2> HIDE DEF d
  <2>3. d[1] = 0 /\ d[2] = 0
    BY <1>1, <2>2
  <2>4. IsPrefix(<<0, 0>>, d)
    <3>1. Len(d) >= 2
      BY <2>2
    <3>2. QED
      BY <2>2, <2>3, <3>1, PrefixOf, Zenon
  <2>5. NormalizePhone(w) = h
    <3>1. Len(d) = 14 /\ SubSeq(d, 3, 14) = h
      BY <2>2
    <3>2. QED
      BY <1>0, <2>1, <2>4, <3>1, NormalizeOf, Zenon
  <2>6. QED
    BY <2>5 DEF h
<1>9. CASE w = [plus |-> TRUE, digits |-> h]
  <2>1. w.digits = h /\ w.plus
    BY <1>9
  <2>2. NormalizePhone(w) = h
    <3>1. Len(h) = 12
      BY <1>5
    <3>2. QED
      BY <1>0, <2>1, <3>1, NormalizeOf, Zenon
  <2>3. QED
    BY <2>2 DEF h
<1>10. QED
  BY <1>3, <1>4, <1>6, <1>7, <1>8, <1>9 DEF Spellings, z, zz, h

LEMMA HolderStep == HolderInv /\ [DialingNext]_dialingVars => HolderInv'
<1> SUFFICES ASSUME HolderInv, [DialingNext]_dialingVars PROVE HolderInv'
  OBVIOUS
<1>1. ASSUME NEW phone, Keep(phone, NormalizePhone(phone)) PROVE HolderInv'
  <2>1. PICK id : holder' = holder \cup {[id |-> id, phone |-> phone, normalized |-> NormalizePhone(phone)]}
    BY <1>1 DEF Keep
  <2>2. placed'.status = 0 /\ \A h \in holder : h.normalized # NormalizePhone(phone)
    BY <1>1 DEF Keep, NotPlaced
  <2> DEFINE new == [id |-> id, phone |-> phone, normalized |-> NormalizePhone(phone)]
  <2>3. new.phone = phone /\ new.normalized = NormalizePhone(phone)
    OBVIOUS
  <2> HIDE DEF new
  <2>4. holder' = holder \cup {new}
    BY <2>1 DEF new
  <2>5. QED
    BY <2>2, <2>3, <2>4 DEF HolderInv
<1>2. ASSUME NEW h \in holder, NEW agent \in Agent, NEW placing \in Placings, StartCall(h, agent, placing)
      PROVE  HolderInv'
  <2>1. holder' = holder
    BY <1>2 DEF StartCall
  <2>2. placed'.status = 201 => placed'.id = h.id /\ placed'.to = NormalizePhone(h.phone)
    <3>1. ASSUME NEW x, NEW y, NEW z, NEW v
          PROVE  LET p == [status |-> 201, id |-> x, to |-> y, from |-> z, callerId |-> v]
                 IN  p.id = x /\ p.to = y
      OBVIOUS
    <3>2. ASSUME NEW e PROVE HttpStatus(e) # 201
      BY DEF HttpStatus
    <3>3. ASSUME NEW x, NEW y PROVE [status |-> x, code |-> y].status = x
      OBVIOUS
    <3>4. \/ \E x, y : x # 201 /\ placed' = [status |-> x, code |-> y]
          \/ \E z, v : placed' = [status |-> 201, id |-> h.id, to |-> NormalizePhone(h.phone), from |-> z, callerId |-> v]
      BY <1>2, <3>2 DEF StartCall
    <3>5. QED
      BY <3>1, <3>3, <3>4
  <2>3. QED
    BY <2>1, <2>2 DEF HolderInv
<1>3. CASE UNCHANGED dialingVars
  BY <1>3 DEF HolderInv, dialingVars
<1>4. QED
  BY <1>1, <1>2, <1>3 DEF DialingNext, CreateContact, ImportContact

(***************************************************************************)
(* No two contacts are the same line, whatever numbers are written or      *)
(* imported and however, and a call goes to the line of its contact.       *)
(***************************************************************************)
THEOREM ContactsAreLines == DialingSpec => []OneContactPerLine
<1>1. DialingInit => HolderInv
  <2>1. NotPlaced.status = 0
    BY DEF NotPlaced
  <2>2. QED
    BY <2>1 DEF DialingInit, HolderInv
<1>2. HolderInv => OneContactPerLine
  <2> SUFFICES ASSUME HolderInv,
                      NEW g \in holder, NEW h \in holder, NEW n \in Nationals, {g.phone, h.phone} \subseteq Spellings(n)
               PROVE  g = h
    BY DEF OneContactPerLine, HolderInv
  <2>1. n \in Seq(0 .. 9) /\ Len(n) = NationalLength /\ Head(n) # 0
    BY DialingAssumption DEF Nationals
  <2>2. NormalizePhone(g.phone) = Home \o n /\ NormalizePhone(h.phone) = Home \o n
    BY <2>1, SpellingsAgree
  <2>3. QED
    BY <2>2 DEF HolderInv
<1>3. QED
  BY <1>1, <1>2, HolderStep, PTL DEF DialingSpec

-----------------------------------------------------------------------------
(***************************************************************************)
(* Proofs: templates.  FlattenSeq() joins piece after piece, so Strip() of *)
(* a joined text joins what it leaves of each part; and what a contact's   *)
(* fields give has no tags, so the author's are all there are.             *)
(***************************************************************************)
\* What the first k of the pieces come to, for every k.
Joins(g, q) ==
  /\ DOMAIN g = 0 .. Len(q) /\ g[0] = << >>
  /\ \A i \in 1 .. Len(q) : g[i] = g[i - 1] \o q[i]

\* FlattenSeq() is defined by a function that exists.
LEMMA FlattenedIs ==
  ASSUME NEW X, NEW q \in Seq(Seq(X)), q # << >>
  PROVE  \E f : /\ f = [i \in 1 .. Len(q) |-> IF i = 1 THEN q[i] ELSE f[i - 1] \o q[i]]
                /\ FlattenSeq(q) = f[Len(q)]
<1> DEFINE n == Len(q)
           Part(f, k) == f = [i \in 1 .. k |-> IF i = 1 THEN q[i] ELSE f[i - 1] \o q[i]]
           Bad == {k \in Nat : ~ \E f : Part(f, k)}
<1>1. Bad = {}
  <2>1. SUFFICES ASSUME Bad # {} PROVE FALSE
    OBVIOUS
  <2>2. PICK k \in Bad : \A m \in Bad : k <= m
    BY <2>1, LeastThereIs
  <2>3. k # 0
    <3>1. Part([i \in 1 .. 0 |-> q[i]], 0)
      OBVIOUS
    <3>2. QED
      BY <3>1
  <2>4. k - 1 \in Nat /\ k - 1 \notin Bad
    <3> HIDE DEF Part
    <3>1. k \in Nat /\ (k - 1 \in Bad => k <= k - 1)
      BY <2>2
    <3>2. QED
      BY <2>3, <3>1
  <2>5. PICK f : Part(f, k - 1)
    BY <2>4
  <2> DEFINE h == [i \in 1 .. k |-> IF i = 1 THEN q[i] ELSE f[i - 1] \o q[i]]
  <2>6. ASSUME NEW i \in 1 .. k, i # 1 PROVE h[i - 1] = f[i - 1]
    <3>1. i - 1 \in 1 .. k /\ i - 1 \in 1 .. k - 1
      BY <2>4, <2>6
    <3>2. QED
      BY <2>5, <3>1
  <2>7. Part(h, k)
    BY <2>6
  <2>8. QED
    BY <2>2, <2>7
<1>2. n \in Nat /\ n # 0
  OBVIOUS
<1>3. PICK f : Part(f, n)
  <2> HIDE DEF Part, n
  <2>1. QED
    BY <1>1, <1>2
<1>4. LET flatten == CHOOSE f0 : Part(f0, n) IN FlattenSeq(q) = flatten[n] /\ Part(flatten, n)
  BY <1>2, <1>3 DEF FlattenSeq
<1>5. QED
  BY <1>4

\* There is one way to join.
LEMMA JoinsAgree ==
  ASSUME NEW q, Len(q) \in Nat, NEW g, Joins(g, q), NEW h, Joins(h, q), NEW k \in 0 .. Len(q)
  PROVE  g[k] = h[k]
<1> DEFINE Bad == {i \in 0 .. Len(q) : g[i] # h[i]}
<1>1. SUFFICES ASSUME Bad # {} PROVE FALSE
  OBVIOUS
<1>2. PICK m \in Bad : \A i \in Bad : m <= i
  <2>1. Bad \in SUBSET Nat
    OBVIOUS
  <2>2. QED
    BY <1>1, <2>1, LeastThereIs
<1>3. m \in 1 .. Len(q) /\ m - 1 \in 0 .. Len(q)
  BY <1>2 DEF Joins
<1>4. g[m - 1] = h[m - 1]
  BY <1>2, <1>3
<1>5. QED
  BY <1>2, <1>3, <1>4 DEF Joins

\* Joins of texts are texts.
LEMMA JoinsTyped ==
  ASSUME NEW X, NEW q \in Seq(Seq(X)), NEW g, Joins(g, q)
  PROVE  \A k \in 0 .. Len(q) : g[k] \in Seq(X)
<1> DEFINE Bad == {i \in 0 .. Len(q) : g[i] \notin Seq(X)}
<1>1. SUFFICES ASSUME Bad # {} PROVE FALSE
  OBVIOUS
<1>2. PICK m \in Bad : \A i \in Bad : m <= i
  <2>1. Bad \in SUBSET Nat
    OBVIOUS
  <2>2. QED
    BY <1>1, <2>1, LeastThereIs
<1>3. m # 0
  <2>1. g[0] = << >>
    BY DEF Joins
  <2>2. g[0] \in Seq(X)
    BY <2>1
  <2>3. QED
    BY <1>2, <2>2
<1>4. m \in 1 .. Len(q) /\ m - 1 \in 0 .. Len(q) /\ m - 1 < m
  BY <1>2, <1>3
<1>5. g[m - 1] \in Seq(X)
  BY <1>2, <1>4
<1>6. q[m] \in Seq(X) /\ g[m] = g[m - 1] \o q[m]
  <2>1. q[m] \in Seq(X)
    BY <1>4
  <2>2. g[m] = g[m - 1] \o q[m]
    BY <1>4 DEF Joins
  <2>3. QED
    BY <2>1, <2>2
<1>7. g[m] \in Seq(X)
  BY <1>5, <1>6, ConcatProperties
<1>8. QED
  BY <1>2, <1>7

\* FlattenSeq() is the last of the joins.
LEMMA JoinsFlatten ==
  ASSUME NEW X, NEW q \in Seq(Seq(X))
  PROVE  \E g : Joins(g, q) /\ FlattenSeq(q) = g[Len(q)]
<1>1. CASE q = << >>
  <2>1. FlattenSeq(q) = << >> /\ Len(q) = 0
    BY <1>1 DEF FlattenSeq
  <2>2. Joins([i \in 0 .. 0 |-> << >>], q)
    BY <2>1 DEF Joins
  <2>3. QED
    BY <2>1, <2>2
<1>2. CASE q # << >>
  <2>1. PICK f : /\ f = [i \in 1 .. Len(q) |-> IF i = 1 THEN q[i] ELSE f[i - 1] \o q[i]]
                 /\ FlattenSeq(q) = f[Len(q)]
    BY <1>2, FlattenedIs
  <2> DEFINE g == [i \in 0 .. Len(q) |-> IF i = 0 THEN << >> ELSE f[i]]
  <2>2. ASSUME NEW i \in 1 .. Len(q) PROVE g[i] = g[i - 1] \o q[i]
    <3>1. g[i] = f[i] /\ q[i] \in Seq(X)
      OBVIOUS
    <3>2. CASE i = 1
      <4>1. f[i] = q[i] /\ g[i - 1] = << >>
        BY <2>1, <3>2
      <4>2. QED
        BY <3>1, <4>1, ConcatEmptySeq
    <3>3. CASE i # 1
      <4>1. f[i] = f[i - 1] \o q[i]
        BY <2>1, <3>3
      <4>2. g[i - 1] = f[i - 1]
        BY <3>3
      <4>3. QED
        BY <3>1, <4>1, <4>2
    <3>4. QED
      BY <3>2, <3>3
  <2>3. Joins(g, q)
    <3>1. DOMAIN g = 0 .. Len(q) /\ g[0] = << >>
      OBVIOUS
    <3> HIDE DEF g
    <3>2. QED
      BY <2>2, <3>1 DEF Joins
  <2>4. Len(q) \in 0 .. Len(q) /\ Len(q) # 0
    BY <1>2
  <2>5. FlattenSeq(q) = g[Len(q)]
    BY <2>1, <2>4
  <2>6. QED
    BY <2>3, <2>5
<1>3. QED
  BY <1>1, <1>2

\* Whatever joins the pieces says what FlattenSeq() is.
LEMMA FlattenIsJoined ==
  ASSUME NEW X, NEW q \in Seq(Seq(X)), NEW g, Joins(g, q)
  PROVE  FlattenSeq(q) = g[Len(q)] /\ FlattenSeq(q) \in Seq(X)
<1>1. PICK h : Joins(h, q) /\ FlattenSeq(q) = h[Len(q)]
  BY JoinsFlatten
<1>2. Len(q) \in 0 .. Len(q)
  OBVIOUS
<1>3. QED
  BY <1>1, <1>2, JoinsAgree, JoinsTyped

\* What Strip() joins
Remains(s, S) == [i \in DOMAIN s |-> IF s[i] \in S THEN << >> ELSE <<s[i]>>]

\* What they are, of a text over X
RemainsOf(s, S, X) ==
  /\ Remains(s, S) \in Seq(Seq(X)) /\ Remains(s, S) \in Seq(Seq(X \ S))
  /\ Len(Remains(s, S)) = Len(s)
  /\ \A i \in 1 .. Len(s) : Remains(s, S)[i] = IF s[i] \in S THEN << >> ELSE <<s[i]>>

\* What Strip() joins are texts, without what it strips.
LEMMA RemainsAreTexts ==
  ASSUME NEW X, NEW s \in Seq(X), NEW S
  PROVE  RemainsOf(s, S, X)
<1>1. Remains(s, S) \in [1 .. Len(s) -> Seq(X \ S)]
  <2>1. \A i \in 1 .. Len(s) : s[i] \notin S => <<s[i]>> \in Seq(X \ S)
    OBVIOUS
  <2>2. << >> \in Seq(X \ S)
    OBVIOUS
  <2>3. DOMAIN s = 1 .. Len(s)
    OBVIOUS
  <2> DEFINE e(i) == IF s[i] \in S THEN << >> ELSE <<s[i]>>
  <2>4. \A i \in 1 .. Len(s) : e(i) \in Seq(X \ S)
    BY <2>1, <2>2
  <2> HIDE DEF e
  <2>5. [i \in 1 .. Len(s) |-> e(i)] \in [1 .. Len(s) -> Seq(X \ S)]
    BY <2>4
  <2>6. QED
    BY <2>3, <2>5 DEF Remains, e
<1>2. Seq(X \ S) \subseteq Seq(X)
  BY SeqMonotonic
<1>3. Remains(s, S) \in [1 .. Len(s) -> Seq(X)]
  BY <1>1, <1>2
<1>4. Len(s) \in Nat
  OBVIOUS
<1>5. QED
  BY <1>1, <1>3, <1>4 DEF Remains, RemainsOf

\* So is what it makes of them.
LEMMA StripJoins ==
  ASSUME NEW X, NEW s \in Seq(X), NEW S
  PROVE  /\ Strip(s, S) \in Seq(X) /\ Strip(s, S) \in Seq(X \ S)
         /\ \E g : /\ Joins(g, Remains(s, S)) /\ Strip(s, S) = g[Len(s)]
                  /\ \A k \in 0 .. Len(s) : g[k] \in Seq(X)
<1>1. PICK g : Joins(g, Remains(s, S)) /\ FlattenSeq(Remains(s, S)) = g[Len(Remains(s, S))]
  BY RemainsAreTexts, JoinsFlatten DEF RemainsOf
<1>2. Strip(s, S) = FlattenSeq(Remains(s, S))
  BY DEF Strip, Remains
<1>3. Strip(s, S) \in Seq(X) /\ Strip(s, S) \in Seq(X \ S)
  BY <1>1, <1>2, RemainsAreTexts, FlattenIsJoined DEF RemainsOf
<1>4. \A k \in 0 .. Len(s) : g[k] \in Seq(X)
  <2>1. Remains(s, S) \in Seq(Seq(X)) /\ Len(Remains(s, S)) = Len(s)
    BY RemainsAreTexts DEF RemainsOf
  <2>2. \A k \in 0 .. Len(Remains(s, S)) : g[k] \in Seq(X)
    BY <1>1, <2>1, JoinsTyped
  <2>3. QED
    BY <2>1, <2>2
<1>5. QED
  BY <1>1, <1>2, <1>3, <1>4, RemainsAreTexts DEF RemainsOf

\* Of nothing it leaves nothing.
LEMMA StripEmpty ==
  ASSUME NEW S
  PROVE  Strip(<< >>, S) = << >>
<1>1. [i \in DOMAIN << >> |-> IF << >>[i] \in S THEN << >> ELSE << << >>[i]>>] = << >>
  OBVIOUS
<1>2. FlattenSeq(<< >>) = << >>
  BY DEF FlattenSeq
<1>3. QED
  BY <1>1, <1>2 DEF Strip

\* How three texts are joined makes no difference.
Grouped(u, v, w) == u \o (v \o w) = (u \o v) \o w

\* Concatenation is associative.
LEMMA ConcatGroups ==
  ASSUME NEW X, NEW u \in Seq(X), NEW v \in Seq(X), NEW w \in Seq(X)
  PROVE  Grouped(u, v, w)
<1>1. u \o v \in Seq(X) /\ v \o w \in Seq(X)
  BY ConcatProperties
<1>2. u \o (v \o w) \in Seq(X) /\ (u \o v) \o w \in Seq(X)
  BY <1>1, ConcatProperties
<1>3. Len(u) \in Nat /\ Len(v) \in Nat /\ Len(w) \in Nat
  OBVIOUS
<1>4. Len(u \o (v \o w)) = Len(u) + Len(v) + Len(w) /\ Len((u \o v) \o w) = Len(u) + Len(v) + Len(w)
  BY <1>1, <1>3, ConcatProperties
<1>5. QED
  BY <1>1, <1>2, <1>3, <1>4, ConcatProperties, SeqEqual DEF Grouped

\* Strip() of two texts joined is what it leaves of each, joined.
LEMMA StripConcat ==
  ASSUME NEW X, NEW a \in Seq(X), NEW b \in Seq(X), NEW S
  PROVE  Strip(a \o b, S) = Strip(a, S) \o Strip(b, S)
<1> DEFINE c == a \o b
<1>1. c \in Seq(X) /\ Len(c) = Len(a) + Len(b) /\ Len(a) \in Nat /\ Len(b) \in Nat
  BY ConcatProperties
<1>2. \A i \in 1 .. Len(c) : c[i] = IF i <= Len(a) THEN a[i] ELSE b[i - Len(a)]
  BY <1>1, ConcatProperties
<1> HIDE DEF c
<1>3. PICK f : /\ Joins(f, Remains(a, S)) /\ Strip(a, S) = f[Len(a)]
               /\ \A k \in 0 .. Len(a) : f[k] \in Seq(X)
  BY StripJoins
<1>4. PICK h : /\ Joins(h, Remains(b, S)) /\ Strip(b, S) = h[Len(b)]
               /\ \A k \in 0 .. Len(b) : h[k] \in Seq(X)
  BY StripJoins
<1> DEFINE g == [i \in 0 .. Len(c) |-> IF i <= Len(a) THEN f[i] ELSE f[Len(a)] \o h[i - Len(a)]]
<1>5. /\ Remains(c, S) \in Seq(Seq(X)) /\ Len(Remains(c, S)) = Len(c)
      /\ \A i \in 1 .. Len(c) : Remains(c, S)[i] = IF c[i] \in S THEN << >> ELSE <<c[i]>>
  <2>1. RemainsOf(c, S, X)
    BY <1>1, RemainsAreTexts, Zenon
  <2>2. QED
    BY <2>1 DEF RemainsOf
<1>5a. /\ Len(Remains(a, S)) = Len(a)
       /\ \A i \in 1 .. Len(a) : Remains(a, S)[i] = IF a[i] \in S THEN << >> ELSE <<a[i]>>
  <2>1. RemainsOf(a, S, X)
    BY RemainsAreTexts, Zenon
  <2>2. QED
    BY <2>1 DEF RemainsOf
<1>5c. /\ Len(Remains(b, S)) = Len(b) /\ Remains(b, S) \in Seq(Seq(X))
       /\ \A i \in 1 .. Len(b) : Remains(b, S)[i] = IF b[i] \in S THEN << >> ELSE <<b[i]>>
  <2>1. RemainsOf(b, S, X)
    BY RemainsAreTexts, Zenon
  <2>2. QED
    BY <2>1 DEF RemainsOf
<1>5b. \A i \in 1 .. Len(b) : Remains(b, S)[i] \in Seq(X)
  BY <1>5c
<1>6. ASSUME NEW i \in 1 .. Len(c) PROVE g[i] = g[i - 1] \o Remains(c, S)[i]
  <2>1. CASE i <= Len(a)
    <3>1. i \in 1 .. Len(a) /\ i - 1 <= Len(a) /\ i - 1 \in 0 .. Len(c) /\ i \in 0 .. Len(c)
      BY <1>1, <2>1
    <3>2. Remains(c, S)[i] = Remains(a, S)[i]
      BY <1>2, <1>5, <1>5a, <2>1, <3>1
    <3>3. g[i] = f[i] /\ g[i - 1] = f[i - 1]
      BY <2>1, <3>1
    <3>4. f[i] = f[i - 1] \o Remains(a, S)[i]
      BY <1>3, <1>5a, <3>1 DEF Joins
    <3>5. QED
      BY <3>2, <3>3, <3>4
  <2>2. CASE i > Len(a)
    <3> DEFINE j == i - Len(a)
    <3>1. /\ j \in 1 .. Len(b) /\ j - 1 \in 0 .. Len(b) /\ ~(i <= Len(a))
          /\ i - 1 \in 0 .. Len(c) /\ i \in 0 .. Len(c) /\ (i - 1) - Len(a) = j - 1
          /\ (i - 1 <= Len(a) => i - 1 = Len(a) /\ j - 1 = 0)
      BY <1>1, <2>2
    <3>2. Remains(c, S)[i] = Remains(b, S)[j]
      BY <1>2, <1>5, <1>5c, <3>1
    <3> HIDE DEF j
    <3>3. g[i] = f[Len(a)] \o h[j]
      BY <3>1 DEF j
    <3>4. f[Len(a)] \in Seq(X) /\ h[j - 1] \in Seq(X) /\ Remains(b, S)[j] \in Seq(X)
      BY <1>1, <1>3, <1>4, <1>5b, <3>1
    <3>5. g[i - 1] = f[Len(a)] \o h[j - 1]
      <4>1. CASE i - 1 <= Len(a)
        <5>1. h[j - 1] = << >> /\ g[i - 1] = f[Len(a)]
          BY <1>4, <3>1, <4>1 DEF Joins
        <5>2. QED
          BY <3>4, <5>1, ConcatEmptySeq
      <4>2. CASE ~(i - 1 <= Len(a))
        BY <3>1, <4>2
      <4>3. QED
        BY <4>1, <4>2
    <3>6. h[j] = h[j - 1] \o Remains(b, S)[j]
      BY <1>4, <1>5c, <3>1 DEF Joins
    <3>7. f[Len(a)] \o (h[j - 1] \o Remains(b, S)[j]) = (f[Len(a)] \o h[j - 1]) \o Remains(b, S)[j]
      <4>1. Grouped(f[Len(a)], h[j - 1], Remains(b, S)[j])
        BY <3>4, ConcatGroups, Zenon
      <4>2. QED
        BY <4>1, Zenon DEF Grouped
    <3>8. QED
      BY <3>2, <3>3, <3>5, <3>6, <3>7
  <2>3. i <= Len(a) \/ i > Len(a)
    BY <1>1
  <2>4. QED
    BY <2>1, <2>2, <2>3
<1>7. Joins(g, Remains(c, S))
  <2>1. DOMAIN g = 0 .. Len(c) /\ g[0] = << >>
    BY <1>1, <1>3 DEF Joins
  <2> HIDE DEF g
  <2>2. QED
    BY <1>5, <1>6, <2>1 DEF Joins
<1>8. FlattenSeq(Remains(c, S)) = g[Len(c)]
  BY <1>5, <1>7, FlattenIsJoined
<1>9. g[Len(c)] = f[Len(a)] \o h[Len(b)]
  <2>1. CASE Len(b) = 0
    <3>1. h[Len(b)] = << >> /\ g[Len(c)] = f[Len(a)] /\ f[Len(a)] \in Seq(X)
      BY <1>1, <1>3, <1>4, <2>1 DEF Joins
    <3>2. QED
      BY <3>1, ConcatEmptySeq
  <2>2. CASE Len(b) # 0
    <3>1. Len(c) \in 0 .. Len(c) /\ ~(Len(c) <= Len(a)) /\ Len(c) - Len(a) = Len(b)
      BY <1>1, <2>2
    <3>2. QED
      BY <3>1
  <2>3. QED
    BY <2>1, <2>2
<1>10. Strip(c, S) = FlattenSeq(Remains(c, S))
  BY DEF Strip, Remains
<1>11. QED
  BY <1>3, <1>4, <1>8, <1>9, <1>10 DEF c

\* So it is of any number of texts.
LEMMA StripFlattened ==
  ASSUME NEW X, NEW q \in Seq(Seq(X)), NEW S
  PROVE  Strip(FlattenSeq(q), S) = FlattenSeq([i \in DOMAIN q |-> Strip(q[i], S)])
<1> DEFINE p == [i \in DOMAIN q |-> Strip(q[i], S)]
<1>1. PICK f : Joins(f, q) /\ FlattenSeq(q) = f[Len(q)]
  BY JoinsFlatten
<1>2. \A k \in 0 .. Len(q) : f[k] \in Seq(X)
  BY <1>1, JoinsTyped
<1>3. \A i \in 1 .. Len(q) : q[i] \in Seq(X)
  OBVIOUS
<1>4. DOMAIN q = 1 .. Len(q) /\ Len(q) \in Nat
  OBVIOUS
<1>5. p \in Seq(Seq(X)) /\ Len(p) = Len(q) /\ \A i \in 1 .. Len(q) : p[i] = Strip(q[i], S)
  <2>1. \A i \in 1 .. Len(q) : Strip(q[i], S) \in Seq(X)
    BY <1>3, StripJoins
  <2>2. p \in [1 .. Len(q) -> Seq(X)]
    BY <1>4, <2>1
  <2>3. p \in Seq(Seq(X)) /\ Len(p) = Len(q)
    <3> HIDE DEF p
    <3>1. QED
      BY <1>4, <2>2
  <2>4. QED
    BY <1>4, <2>3
<1> DEFINE g == [i \in 0 .. Len(q) |-> Strip(f[i], S)]
<1>6. ASSUME NEW i \in 1 .. Len(q) PROVE g[i] = g[i - 1] \o p[i]
  <2>1. i - 1 \in 0 .. Len(q) /\ i \in 0 .. Len(q)
    BY <1>4
  <2>2. f[i] = f[i - 1] \o q[i]
    BY <1>1 DEF Joins
  <2>3. f[i - 1] \in Seq(X) /\ q[i] \in Seq(X)
    BY <1>2, <1>3, <2>1
  <2>4. Strip(f[i - 1] \o q[i], S) = Strip(f[i - 1], S) \o Strip(q[i], S)
    <3>1. \A u, v \in Seq(X) : Strip(u \o v, S) = Strip(u, S) \o Strip(v, S)
      BY StripConcat
    <3>2. QED
      BY <2>3, <3>1
  <2>5. QED
    BY <1>5, <2>1, <2>2, <2>4
<1> HIDE DEF p
<1>7. Joins(g, p)
  <2>1. f[0] = << >> /\ 0 \in 0 .. Len(q)
    BY <1>1, <1>4 DEF Joins
  <2>2. DOMAIN g = 0 .. Len(q) /\ g[0] = << >>
    BY <2>1, StripEmpty
  <2> HIDE DEF g
  <2>3. QED
    BY <1>5, <1>6, <2>2 DEF Joins
<1>8. FlattenSeq(p) = g[Len(p)]
  BY <1>5, <1>7, FlattenIsJoined
<1>9. Len(q) \in 0 .. Len(q)
  BY <1>4
<1>10. QED
  BY <1>1, <1>5, <1>8, <1>9 DEF p

\* One piece is left or not.
LEMMA StripOne ==
  ASSUME NEW x, NEW S
  PROVE  Strip(<<x>>, S) = IF x \in S THEN << >> ELSE <<x>>
<1> DEFINE y == IF x \in S THEN << >> ELSE <<x>>
           r == Remains(<<x>>, S)
<1>1. r = <<y>>
  BY DEF Remains
<1>2. y \in Seq({x})
  <2>1. << >> \in Seq({x}) /\ <<x>> \in Seq({x})
    OBVIOUS
  <2>2. QED
    BY <2>1
<1> HIDE DEF y
<1>3. FlattenSeq(<<y>>) = y
  <2> DEFINE g == [i \in 0 .. 1 |-> IF i = 0 THEN << >> ELSE y]
  <2>1. << >> \o y = y
    BY <1>2, ConcatEmptySeq
  <2>2. Len(<<y>>) = 1 /\ <<y>>[1] = y /\ <<y>> \in Seq(Seq({x}))
    BY <1>2
  <2>3. DOMAIN g = 0 .. 1 /\ g[0] = << >> /\ g[1] = y
    OBVIOUS
  <2> HIDE DEF g
  <2>4. \A i \in 1 .. 1 : g[i] = g[i - 1] \o <<y>>[i]
    BY <2>1, <2>2, <2>3
  <2>5. Joins(g, <<y>>)
    BY <2>2, <2>3, <2>4 DEF Joins
  <2>6. QED
    BY <2>2, <2>3, <2>5, FlattenIsJoined
<1>4. Strip(<<x>>, S) = FlattenSeq(r)
  BY DEF Strip, Remains
<1>5. QED
  BY <1>1, <1>3, <1>4 DEF y

\* Nothing is left when everything goes.
LEMMA StripAll ==
  ASSUME NEW S, NEW s \in Seq(S)
  PROVE  Strip(s, S) = << >>
<1>1. Strip(s, S) \in Seq(S \ S)
  BY StripJoins
<1>2. QED
  BY <1>1

\* To strip twice is to strip both at once.
LEMMA StripTwice ==
  ASSUME NEW X, NEW s \in Seq(X), NEW S, NEW T
  PROVE  Strip(Strip(s, S), T) = Strip(s, S \cup T)
<1> DEFINE q == Remains(s, S)
<1>1. /\ q \in Seq(Seq(X)) /\ Len(q) = Len(s)
      /\ \A i \in 1 .. Len(s) : q[i] = IF s[i] \in S THEN << >> ELSE <<s[i]>>
  <2>1. RemainsOf(s, S, X)
    BY RemainsAreTexts, Zenon
  <2>2. QED
    BY <2>1 DEF RemainsOf
<1>2. Strip(s, S) = FlattenSeq(q)
  BY DEF Strip, Remains
<1> HIDE DEF q
<1>2a. DOMAIN q = 1 .. Len(s) /\ DOMAIN s = 1 .. Len(s)
  BY <1>1
<1>3. Strip(FlattenSeq(q), T) = FlattenSeq([i \in DOMAIN q |-> Strip(q[i], T)])
  BY <1>1, StripFlattened
<1>4. ASSUME NEW i \in 1 .. Len(s)
      PROVE  Strip(q[i], T) = IF s[i] \in S \cup T THEN << >> ELSE <<s[i]>>
  BY <1>1, StripEmpty, StripOne
<1>5. [i \in DOMAIN q |-> Strip(q[i], T)] = Remains(s, S \cup T)
  BY <1>2a, <1>4 DEF Remains
<1>6. QED
  BY <1>2, <1>3, <1>5 DEF Strip, Remains

\* A placeholder stays one when text is added.
LEMMA PathsOfBoth ==
  ASSUME NEW X, NEW a \in Seq(X), NEW b \in Seq(X)
  PROVE  Paths(a) \cup Paths(b) \subseteq Paths(a \o b)
<1> DEFINE c == a \o b
<1>1. c \in Seq(X) /\ Len(c) = Len(a) + Len(b) /\ Len(a) \in Nat /\ Len(b) \in Nat
  BY ConcatProperties
<1>2. \A i \in 1 .. Len(c) : c[i] = IF i <= Len(a) THEN a[i] ELSE b[i - Len(a)]
  BY <1>1, ConcatProperties
<1> HIDE DEF c
<1>3. DOMAIN a = 1 .. Len(a) /\ DOMAIN b = 1 .. Len(b) /\ DOMAIN c = 1 .. Len(c)
  BY <1>1
<1>4. ASSUME NEW i \in Placeholders(a) PROVE a[i + 1] \in Paths(c)
  <2>1. i \in 1 .. Len(a) /\ i + 2 <= Len(a)
    BY <1>3 DEF Placeholders
  <2>2. c[i] = a[i] /\ c[i + 1] = a[i + 1] /\ c[i + 2] = a[i + 2] /\ i + 2 <= Len(c) /\ i \in 1 .. Len(c)
    BY <1>1, <1>2, <2>1
  <2>3. i \in Placeholders(c)
    BY <1>3, <2>2 DEF Placeholders
  <2>4. QED
    BY <2>2, <2>3 DEF Paths
<1>5. ASSUME NEW i \in Placeholders(b) PROVE b[i + 1] \in Paths(c)
  <2> DEFINE k == Len(a) + i
  <2>1. i \in 1 .. Len(b) /\ i + 2 <= Len(b)
    BY <1>3 DEF Placeholders
  <2>2. /\ k \in 1 .. Len(c) /\ k + 2 <= Len(c) /\ k + 1 \in 1 .. Len(c) /\ k + 2 \in 1 .. Len(c)
        /\ ~(k <= Len(a)) /\ ~(k + 1 <= Len(a)) /\ ~(k + 2 <= Len(a))
        /\ k - Len(a) = i /\ (k + 1) - Len(a) = i + 1 /\ (k + 2) - Len(a) = i + 2
    BY <1>1, <2>1
  <2> HIDE DEF k
  <2>3. c[k] = b[i] /\ c[k + 1] = b[i + 1] /\ c[k + 2] = b[i + 2]
    BY <1>2, <2>2
  <2>4. k \in Placeholders(c)
    BY <1>3, <2>2, <2>3 DEF Placeholders
  <2>5. QED
    BY <2>3, <2>4 DEF Paths
<1>6. QED
  BY <1>4, <1>5 DEF c, Paths

\* A field has no tags once it is escaped.
LEMMA EscapedIsPlain ==
  ASSUME NEW fields \in Card, NEW path \in Known \cup Unknown
  PROVE  EscapeHtml(Resolve(path, fields)) \in Seq(Piece \ Tag)
<1>1. Resolve(path, fields) \in Seq(Piece)
  BY TemplateAssumption DEF Resolve
<1> DEFINE s == Resolve(path, fields)
<1> HIDE DEF s
<1>2. \A i \in 1 .. Len(s) : (IF s[i] \in Tag THEN Quoted[s[i]] ELSE s[i]) \in Piece \ Tag
  BY <1>1, TemplateAssumption DEF s
<1>3. DOMAIN s = 1 .. Len(s) /\ Len(s) \in Nat
  BY <1>1 DEF s
<1>4. EscapeHtml(s) \in [1 .. Len(s) -> Piece \ Tag]
  BY <1>2, <1>3 DEF EscapeHtml
<1>5. EscapeHtml(s) \in Seq(Piece \ Tag)
  BY <1>3, <1>4
<1>6. QED
  BY <1>5 DEF s

\* renderHtml() before it sanitizes
Shown(s, fields) == Replace(s, LAMBDA path : EscapeHtml(Resolve(path, fields)))

\* So the tags of a text are what they were when its fields are filled in.
LEMMA FieldsAddNoTags ==
  ASSUME NEW s \in Seq(Piece), NEW fields \in Card
  PROVE  /\ Shown(s, fields) \in Seq(Piece)
         /\ \A T : Piece \ Tag \subseteq T => Strip(Shown(s, fields), T) = Strip(s, T)
<1> DEFINE P == Placeholders(s)
           piece(i) == IF i \in P THEN EscapeHtml(Resolve(s[i + 1], fields))
                       ELSE IF {i - 1, i - 2} \cap P # {} THEN << >>
                       ELSE <<s[i]>>
           q == [i \in DOMAIN s |-> piece(i)]
<1>1. DOMAIN s = 1 .. Len(s) /\ Len(s) \in Nat /\ \A i \in 1 .. Len(s) : s[i] \in Piece
  OBVIOUS
<1>2. \A i \in P : /\ i \in 1 .. Len(s) /\ s[i] = Opening /\ s[i + 1] \in Known \cup Unknown /\ s[i + 2] = End
  BY <1>1 DEF Placeholders
<1>3. \A i \in P : EscapeHtml(Resolve(s[i + 1], fields)) \in Seq(Piece \ Tag)
  BY <1>2, EscapedIsPlain
<1>4. \A i \in P : s[i] \notin Tag /\ s[i + 1] \notin Tag /\ s[i + 2] \notin Tag
  BY <1>2, TemplateAssumption
<1>5. Shown(s, fields) = FlattenSeq(q)
  BY DEF Shown, Replace
<1>6. \A i \in 1 .. Len(s) : piece(i) \in Seq(Piece)
  <2>1. Seq(Piece \ Tag) \subseteq Seq(Piece)
    BY SeqMonotonic
  <2>2. << >> \in Seq(Piece) /\ \A i \in 1 .. Len(s) : <<s[i]>> \in Seq(Piece)
    BY <1>1
  <2>3. QED
    BY <1>3, <2>1, <2>2
<1>7. ASSUME NEW i \in 1 .. Len(s), i \in P \/ {i - 1, i - 2} \cap P # {}
      PROVE  s[i] \in Piece \ Tag
  <2>1. CASE i \in P
    BY <1>1, <1>4, <2>1
  <2>2. ASSUME NEW k \in {1, 2}, i - k \in P PROVE s[i] \in Piece \ Tag
    <3>1. (i - k) + k = i
      OBVIOUS
    <3>2. QED
      BY <1>1, <1>4, <2>2, <3>1
  <2>3. QED
    BY <1>7, <2>1, <2>2
<1>8. ASSUME NEW T, Piece \ Tag \subseteq T, NEW i \in 1 .. Len(s)
      PROVE  Strip(piece(i), T) = IF s[i] \in T THEN << >> ELSE <<s[i]>>
  <2>1. CASE i \in P
    <3>1. EscapeHtml(Resolve(s[i + 1], fields)) \in Seq(T)
      BY <1>3, <1>8, <2>1, SeqMonotonic
    <3>2. Strip(EscapeHtml(Resolve(s[i + 1], fields)), T) = << >>
      BY <3>1, StripAll
    <3>3. QED
      BY <1>7, <1>8, <2>1, <3>2
  <2>2. CASE i \notin P /\ {i - 1, i - 2} \cap P # {}
    BY <1>7, <1>8, <2>2, StripEmpty
  <2>3. CASE i \notin P /\ {i - 1, i - 2} \cap P = {}
    BY <2>3, StripOne
  <2>4. QED
    BY <2>1, <2>2, <2>3
<1> HIDE DEF piece
<1>9. q \in Seq(Seq(Piece)) /\ DOMAIN q = 1 .. Len(s) /\ \A i \in 1 .. Len(s) : q[i] = piece(i)
  <2>1. q \in [1 .. Len(s) -> Seq(Piece)]
    BY <1>1, <1>6
  <2>2. QED
    BY <1>1, <2>1
<1> HIDE DEF q
<1>10. Shown(s, fields) \in Seq(Piece)
  <2>1. PICK g : Joins(g, q)
    BY <1>9, JoinsFlatten
  <2>2. QED
    BY <1>5, <1>9, <2>1, FlattenIsJoined
<1>11. ASSUME NEW T, Piece \ Tag \subseteq T PROVE Strip(Shown(s, fields), T) = Strip(s, T)
  <2>1. Strip(FlattenSeq(q), T) = FlattenSeq([i \in DOMAIN q |-> Strip(q[i], T)])
    BY <1>9, StripFlattened
  <2>2. [i \in DOMAIN q |-> Strip(q[i], T)] = Remains(s, T)
    BY <1>1, <1>8, <1>9, <1>11 DEF Remains
  <2>3. QED
    BY <1>5, <2>1, <2>2 DEF Strip, Remains
<1>12. QED
  BY <1>10, <1>11

\* Tags() strips all that is no tag.
LEMMA TagsAre ==
  ASSUME NEW s \in Seq(Piece)
  PROVE  Tags(s) = Strip(s, Piece \ Tag)
<1>1. \A i \in DOMAIN s : s[i] \in ToSet(s) \ Tag <=> s[i] \in Piece \ Tag
  BY DEF ToSet
<1>2. Remains(s, ToSet(s) \ Tag) = Remains(s, Piece \ Tag)
  BY <1>1 DEF Remains
<1>3. QED
  BY <1>2 DEF Tags, Strip, Remains

\* Those of a sanitized text are the ones allowed.
LEMMA SanitizedTags ==
  ASSUME NEW s \in Seq(Piece)
  PROVE  Sanitize(s) \in Seq(Piece) /\ Tags(Sanitize(s)) = Strip(s, Unsafe \cup (Piece \ Tag))
<1>1. Sanitize(s) \in Seq(Piece)
  BY StripJoins DEF Sanitize
<1>2. QED
  BY <1>1, TagsAre, StripTwice DEF Sanitize

\* Rendering and then sanitizing leaves the tags that sanitizing leaves.
LEMMA RenderedTags ==
  ASSUME NEW s \in Seq(Piece), NEW fields \in Card
  PROVE  Tags(RenderHtml(s, fields)) = Tags(Sanitize(s))
<1>1. RenderHtml(s, fields) = Sanitize(Shown(s, fields))
  BY DEF RenderHtml, Shown
<1>2. Shown(s, fields) \in Seq(Piece)
  BY FieldsAddNoTags
<1>3. Strip(Shown(s, fields), Unsafe \cup (Piece \ Tag)) = Strip(s, Unsafe \cup (Piece \ Tag))
  BY FieldsAddNoTags
<1>4. QED
  BY <1>1, <1>2, <1>3, SanitizedTags

\* A rendered subject has no line break.
LEMMA SubjectIsALine ==
  ASSUME NEW s \in Seq(Piece), NEW fields \in Card
  PROVE  \A i \in DOMAIN RenderSubject(s, fields) : RenderSubject(s, fields)[i] # Break
<1> DEFINE P == Placeholders(s)
           piece(i) == IF i \in P THEN Resolve(s[i + 1], fields)
                       ELSE IF {i - 1, i - 2} \cap P # {} THEN << >>
                       ELSE <<s[i]>>
           q == [i \in DOMAIN s |-> piece(i)]
<1>1. DOMAIN s = 1 .. Len(s) /\ Len(s) \in Nat /\ \A i \in 1 .. Len(s) : s[i] \in Piece
  OBVIOUS
<1>2. \A i \in P : s[i + 1] \in Known \cup Unknown
  BY <1>1 DEF Placeholders
<1>3. RenderText(s, fields) = FlattenSeq(q)
  BY DEF RenderText, Replace
<1>4. \A i \in 1 .. Len(s) : piece(i) \in Seq(Piece)
  <2>1. \A i \in P : Resolve(s[i + 1], fields) \in Seq(Piece)
    BY <1>2, TemplateAssumption DEF Resolve
  <2>2. << >> \in Seq(Piece) /\ \A i \in 1 .. Len(s) : <<s[i]>> \in Seq(Piece)
    BY <1>1
  <2>3. QED
    BY <2>1, <2>2
<1> HIDE DEF piece
<1>5. q \in Seq(Seq(Piece))
  <2>1. q \in [1 .. Len(s) -> Seq(Piece)]
    BY <1>1, <1>4
  <2>2. QED
    BY <1>1, <2>1
<1> HIDE DEF q
<1>6. RenderText(s, fields) \in Seq(Piece)
  <2>1. PICK g : Joins(g, q)
    BY <1>5, JoinsFlatten
  <2>2. QED
    BY <1>3, <1>5, <2>1, FlattenIsJoined
<1>7. RenderSubject(s, fields) \in Seq(Piece \ {Break})
  BY <1>6, StripJoins DEF RenderSubject
<1>8. QED
  BY <1>7

\* Templates hold texts.
TextsInv ==
  /\ card \in Card
  /\ \A t \in template : t.subject \in Seq(Piece) /\ t.body \in Seq(Piece)

\* The inductive invariant
TemplatesInv == TextsInv /\ ContactsAddNoMarkup /\ TemplatesListTheirVariables

\* It holds at the start.
LEMMA TemplatesBegin == TemplatesInit => TemplatesInv
BY DEF TemplatesInit, TemplatesInv, TextsInv, ContactsAddNoMarkup, TemplatesListTheirVariables, NotRendered

\* A template is saved with the variables of its texts.
LEMMA SavedLists ==
  ASSUME NEW subject \in Text, NEW body \in Text
  PROVE  /\ subject \in Seq(Piece) /\ Sanitize(body) \in Seq(Piece)
         /\ (Paths(subject) \cup Paths(Sanitize(body))) \cap Known
              \subseteq ExtractVariables(subject \o Sanitize(body))
<1>1. subject \in Seq(Piece) /\ body \in Seq(Piece)
  BY TemplateAssumption
<1>2. Sanitize(body) \in Seq(Piece)
  BY <1>1, SanitizedTags
<1>3. Paths(subject) \cup Paths(Sanitize(body)) \subseteq Paths(subject \o Sanitize(body))
  BY <1>1, <1>2, PathsOfBoth
<1>4. QED
  BY <1>1, <1>2, <1>3 DEF ExtractVariables

\* What is rendered is faithful to the card it was rendered for.
LEMMA RenderedIsFaithful ==
  ASSUME NEW for, for \in {"preview", "message"}, NEW subject \in Seq(Piece), NEW body \in Seq(Piece),
         card \in Card, card' = card,
         NEW unresolved, rendered' = Rendered(for, subject, body, unresolved),
         for = "preview" => unresolved = FindUnresolved(subject \o body \o Closing, card)
  PROVE  ContactsAddNoMarkup'
<1> DEFINE composed == body \o Closing
           whole == (subject \o body) \o Closing
<1>1. composed \in Seq(Piece) /\ whole \in Seq(Piece)
  <2>1. Closing \in Seq(Piece) /\ subject \o body \in Seq(Piece)
    BY TemplateAssumption, ConcatProperties
  <2>2. QED
    BY <2>1, ConcatProperties
<1>2. Paths(subject) \cup Paths(composed) \subseteq Paths(whole)
  <2>1. Closing \in Seq(Piece)
    BY TemplateAssumption
  <2>2. Grouped(subject, body, Closing)
    BY <2>1, ConcatGroups, Zenon
  <2>3. whole = subject \o composed
    BY <2>2, Zenon DEF Grouped
  <2>4. QED
    BY <1>1, <2>3, PathsOfBoth
<1>3. Tags(RenderHtml(composed, card)) = Tags(Sanitize(composed))
  BY <1>1, RenderedTags
<1>4. \A i \in DOMAIN RenderSubject(subject, card) : RenderSubject(subject, card)[i] # Break
  BY SubjectIsALine
<1> HIDE DEF composed
<1>5. /\ rendered'.for = for /\ rendered'.drafted.subject = subject /\ rendered'.drafted.body = composed
      /\ rendered'.subject = RenderSubject(subject, card) /\ rendered'.body = RenderHtml(composed, card)
      /\ for = "preview" => rendered'.unresolved = FindUnresolved(whole, card)
  <2> DEFINE html == RenderHtml(composed, card)
             line == RenderSubject(subject, card)
             words == HtmlToPlainText(html)
  <2>1. rendered' = [for |-> for, drafted |-> [subject |-> subject, body |-> composed],
                     subject |-> line, body |-> html, plain |-> words, unresolved |-> unresolved]
    BY Zenon DEF Rendered, composed
  <2>2. for = "preview" => unresolved = FindUnresolved(whole, card)
    OBVIOUS
  <2> HIDE DEF html, line, words, whole
  <2>3. QED
    BY <2>1, <2>2 DEF html, line
<1> HIDE DEF whole
<1>6. for = "preview" =>
        {path \in Paths(subject) \cup Paths(composed) : Resolve(path, card) = << >>} \subseteq rendered'.unresolved
  BY <1>2, <1>5 DEF FindUnresolved
<1>7. QED
  BY <1>3, <1>4, <1>5, <1>6 DEF ContactsAddNoMarkup

\* Every step keeps it.
LEMMA TemplatesStep ==
  ASSUME TemplatesInv, [TemplatesNext]_templateVars
  PROVE  TemplatesInv'
<1> USE DEF TemplatesInv, TextsInv, TemplatesListTheirVariables
<1>1. ASSUME NEW name \in TemplateName, NEW subject \in Text, NEW body \in Text,
             CreateTemplate(name, subject, body) \/ \E t \in template : UpdateTemplate(t, name, subject, body)
      PROVE  TemplatesInv'
  <2> DEFINE clean == Sanitize(body)
             new == [name |-> name, subject |-> subject, body |-> clean,
                     variables |-> ExtractVariables(subject \o clean)]
  <2>1. /\ \E old : template' = (template \ old) \cup {new}
        /\ card' = card /\ rendered' = rendered
    <3>1. CASE CreateTemplate(name, subject, body)
      <4>1. template' = (template \ {}) \cup {new}
        BY <3>1 DEF CreateTemplate
      <4>2. QED
        BY <3>1, <4>1 DEF CreateTemplate
    <3>2. CASE \E t \in template : UpdateTemplate(t, name, subject, body)
      BY <3>2 DEF UpdateTemplate
    <3>3. QED
      BY <1>1, <3>1, <3>2
  <2>2. /\ new.subject \in Seq(Piece) /\ new.body \in Seq(Piece)
        /\ (Paths(new.subject) \cup Paths(new.body)) \cap Known \subseteq new.variables
    BY SavedLists
  <2> HIDE DEF new
  <2>3. TextsInv' /\ TemplatesListTheirVariables'
    BY <2>1, <2>2
  <2>4. ContactsAddNoMarkup'
    BY <2>1 DEF ContactsAddNoMarkup
  <2>5. QED
    BY <2>3, <2>4
<1>2. ASSUME NEW t \in template, DeleteTemplate(t) PROVE TemplatesInv'
  BY <1>2 DEF DeleteTemplate, ContactsAddNoMarkup
<1>3. ASSUME NEW subject \in Seq(Piece), NEW body \in Seq(Piece), Preview(subject, body) \/ ComposeFor(subject, body)
      PROVE  TemplatesInv'
  <2>1. ContactsAddNoMarkup'
    <3>1. CASE Preview(subject, body)
      BY <3>1, RenderedIsFaithful DEF Preview
    <3>2. CASE ComposeFor(subject, body)
      BY <3>2, RenderedIsFaithful DEF ComposeFor
    <3>3. QED
      BY <1>3, <3>1, <3>2
  <2>2. QED
    BY <1>3, <2>1 DEF Preview, ComposeFor
<1>4. ASSUME NEW c \in Card, EditContact(c) PROVE TemplatesInv'
  BY <1>4 DEF EditContact, ContactsAddNoMarkup, NotRendered
<1>5. CASE UNCHANGED templateVars
  BY <1>5 DEF templateVars, ContactsAddNoMarkup
<1>6. Text \subseteq Seq(Piece)
  BY TemplateAssumption
<1>7. QED
  BY <1>1, <1>2, <1>3, <1>4, <1>5, <1>6 DEF TemplatesNext

(***************************************************************************)
(* What templates answer for, whatever is written in a template, a message *)
(* or a contact's fields.                                                  *)
(***************************************************************************)
THEOREM TheTemplatesAreFaithful == TemplatesSpec => []TemplatesAreFaithful
<1>1. TemplatesInv => TemplatesAreFaithful
  BY DEF TemplatesInv, TemplatesAreFaithful
<1>2. QED
  BY <1>1, TemplatesBegin, TemplatesStep, PTL DEF TemplatesSpec

=============================================================================
