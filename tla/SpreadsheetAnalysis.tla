-------------------------- MODULE SpreadsheetAnalysis --------------------------
(***************************************************************************)
(* What the server makes of an uploaded spreadsheet (backend/src/modules/  *)
(* imports/: SpreadsheetParser, HeaderDetector, ValueAnalyzer,             *)
(* ColumnMapper, RowBuilder), as operators.                                *)
(*                                                                         *)
(* A cell stands for what its text is taken for: what it looks like as a   *)
(* value, and the fields it names or hints at as a heading.  Scores are    *)
(* the code's, in whole numbers; a score on a threshold that floating      *)
(* point misses by a rounding error counts as on it.                       *)
(***************************************************************************)
EXTENDS Integers, Sequences, FiniteSets, SequencesExt

CONSTANTS Cell, Blank,  \* the texts of cells; Blank is an empty one
          Looks,        \* what each looks like: "email", "phone", "name", "number", "text"
          Exact,        \* the fields it is a known heading of
          Hints,        \* the fields it contains a fragment of
          Vague,        \* headings too generic to be trusted
          Lengthy,      \* texts of more than 40 characters
          Dialled,      \* texts normalizePhone() makes a number of
          MaxRows, MaxColumns

\* In the order of the alias registry, which breaks ties.
AliasOrder == <<"phone", "email", "name", "firstName", "lastName", "company", "designation",
                "location", "tags", "notes">>
ValueOrder == <<"email", "phone", "name">>

Field == ToSet(AliasOrder)
NoField == "none"

ASSUME AnalysisAssumption ==
  /\ Blank \in Cell /\ Vague \cup Lengthy \cup Dialled \subseteq Cell \ {Blank}
  /\ Looks \in [Cell -> {"email", "phone", "name", "number", "text"}]
  /\ Exact \in [Cell -> SUBSET Field] /\ Hints \in [Cell -> SUBSET Field]
  /\ Exact[Blank] = {} /\ Hints[Blank] = {} /\ {MaxRows, MaxColumns} \subseteq Nat

-----------------------------------------------------------------------------
(***************************************************************************)
(* SpreadsheetParser: a file is the format it is called, the one it holds, *)
(* and its sheets, each a sequence of rows of equal width.                 *)
(***************************************************************************)

IsEmptyRow(row) == \A k \in DOMAIN row : row[k] = Blank

\* detectFormat(), readWorkbook(): what is not called .csv is read as .xlsx, .xls too.
Readable(file) == file.name = "csv" \/ (file.name \in {"xlsx", "xls"} /\ file.holds = "xlsx")

\* The first sheet that has rows, else the first.
ChosenSheet(sheets) ==
  LET full == {s \in DOMAIN sheets : \E r \in DOMAIN sheets[s] : ~IsEmptyRow(sheets[s][r])}
  IN  sheets[IF full = {} THEN 1 ELSE Min(full)]

\* slice(): what there is of it
Slice(s, m, n) == SubSeq(s, m, Min({n, Len(s)}))

\* toGrid(): up to the limits, without the empty rows at the end
ToGrid(sheet) ==
  LET within == {r \in DOMAIN sheet : r <= MaxRows}
      kept == {r \in within : ~IsEmptyRow(Slice(sheet[r], 1, MaxColumns))}
  IN  [r \in 1 .. (IF kept = {} THEN 0 ELSE Max(kept)) |-> Slice(sheet[r], 1, MaxColumns)]

Width(grid) == IF grid = << >> THEN 0 ELSE Len(grid[1])

-----------------------------------------------------------------------------
(***************************************************************************)
(* HeaderDetector                                                          *)
(***************************************************************************)

Filled(row) == {k \in DOMAIN row : row[k] # Blank}

\* matchesAnyAlias()
IsAlias(cell) == Exact[cell] \cup Hints[cell] # {}

Count(row, Test(_)) == Cardinality({k \in Filled(row) : Test(row[k])})

\* scoreAsHeaderRow(), in parts of 200 for each of the n filled cells: for
\* words, short cells, distinct ones and known headings, and against data
HeaderPoints(n, words, short, distinct, aliases, data) ==
  LET text == 60 * words + 40 * short + 30 * distinct
      score == IF aliases = 0 THEN Min({text, 90 * n}) ELSE text + 35 * Min({2, aliases}) * n
  IN  IF n < 2 THEN 0 ELSE Max({0, score - (IF 10 * data >= 3 * n THEN 100 * data ELSE 0)})

HeaderScore(row) ==
  HeaderPoints(Cardinality(Filled(row)),
               Count(row, LAMBDA c : Looks[c] \notin {"phone", "number"}),
               Count(row, LAMBDA c : c \notin Lengthy),
               Cardinality({row[k] : k \in Filled(row)}),
               Count(row, IsAlias),
               Max({Count(row, LAMBDA c : Looks[c] = "email"), Count(row, LAMBDA c : Looks[c] = "phone")}))

\* detect(): the first row with the best score for its n cells, if that is a
\* half or more; 0 when there is none.
BestRow(score, n) ==
  LET Better(r, s) == score[r] * n[s] > score[s] * n[r]
      best == {r \in DOMAIN score : score[r] >= 100 * n[r] /\ score[r] > 0 /\
                 \A s \in DOMAIN score : ~Better(s, r) /\ (s < r /\ score[s] > 0 => Better(r, s))}
  IN  IF best = {} THEN 0 ELSE Min(best)

\* Of the first ten rows; those without a score have no filled cells or are data.
HeaderRow(grid) ==
  BestRow([r \in 1 .. Min({10, Len(grid)}) |-> HeaderScore(grid[r])],
          [r \in 1 .. Min({10, Len(grid)}) |-> Cardinality(Filled(grid[r]))])

\* Where the data starts: below the header, or at the first row with anything in it.
DataStart(grid) ==
  LET header == HeaderRow(grid)
  IN  IF header # 0 THEN header + 1 ELSE Min({r \in DOMAIN grid : ~IsEmptyRow(grid[r])})

DataRows(grid) == {r \in DataStart(grid) .. Len(grid) : ~IsEmptyRow(grid[r])}

\* collectSamples(): the first twelve values of a column
Samples(grid, col) ==
  LET filled == {r \in DataRows(grid) : grid[r][col] # Blank}
  IN  {r \in filled : Cardinality({s \in filled : s < r}) < 12}

-----------------------------------------------------------------------------
(***************************************************************************)
(* ValueAnalyzer and ColumnMapper                                          *)
(***************************************************************************)

Heading(grid, col) ==
  LET header == HeaderRow(grid) IN IF header = 0 THEN Blank ELSE grid[header][col]

\* scoreLabel()
LabelScore(heading, f) ==
  IF f \in Exact[heading] THEN 100 ELSE IF f \in Hints[heading] THEN 70 ELSE 0

\* scoreValues(): by the share of the n samples that look like it
ShareScore(hits, n) ==
  LET base == IF 10 * hits >= 8 * n THEN 65 ELSE IF 2 * hits >= n THEN 50 ELSE 35
  IN  IF n = 0 THEN 0 ELSE (2 * base * hits + n) \div (2 * n)

\* analyze(): of some kinds of values a field is known.
ValueScore(grid, samples, col, f) ==
  IF f \notin ToSet(ValueOrder) THEN 0
  ELSE ShareScore(Cardinality({r \in samples : Looks[grid[r][col]] = f}), Cardinality(samples))

\* combine(): the two reinforce each other.
Combine(label, value) ==
  IF label = 0 THEN value ELSE Min({120, label + (3 * value + 5) \div 10})

Scores(grid, col) ==
  [f \in Field |-> Combine(LabelScore(Heading(grid, col), f), ValueScore(grid, Samples(grid, col), col, f))]

\* What a stable sort by score puts before each i.
Ahead(S, score, place) ==
  [i \in S |-> {j \in S : score[j] > score[i] \/ (score[j] = score[i] /\ place[j] < place[i])}]

\* Where combine() has a field before it sorts: those of the heading first.
Place(heading, f) ==
  LET order == IF LabelScore(heading, f) > 0 THEN AliasOrder ELSE ValueOrder \o AliasOrder
  IN  CHOOSE i \in DOMAIN order : order[i] = f

\* The fields a column may feed, the best first.
Candidates(heading, score) ==
  LET found == {f \in Field : score[f] > 0}
      ahead == Ahead(found, score, [f \in Field |-> Place(heading, f)])
  IN  [k \in 1 .. Cardinality(found) |-> CHOOSE f \in found : Cardinality(ahead[f]) = k - 1]

\* suggestColumn(), from the fields ranked: "sure" is that the user need not
\* confirm it.
SuggestColumn(heading, score, ranked) ==
  LET best == IF ranked = << >> THEN 0 ELSE score[ranked[1]]
      trusted == IF heading \in Vague THEN Min({best, 60}) ELSE best
  IN  IF best < 35
      THEN [field |-> NoField, sure |-> FALSE, others |-> Slice(ranked, 1, 3), score |-> best]
      ELSE [field |-> ranked[1], score |-> trusted, others |-> Slice(ranked, 2, 4),
            sure |-> trusted >= 85 /\ (Len(ranked) > 1 => trusted - score[ranked[2]] >= 15)]

\* Mutant of Settle: another field is suggested even if it is claimed.
SettleFirst(claimed, s) ==
  IF s.field = NoField \/ s.field \notin claimed THEN s
  ELSE [s EXCEPT !.sure = FALSE, !.field = IF s.others = << >> THEN NoField ELSE s.others[1]]

\* A field claimed before goes to nobody else: the column is left to the user,
\* with the next field of its own that is free, if there is one.
Settle(claimed, s) ==
  LET free == {k \in DOMAIN s.others : s.others[k] \notin claimed}
  IN  IF s.field = NoField \/ s.field \notin claimed THEN s
      ELSE [s EXCEPT !.sure = FALSE, !.field = IF free = {} THEN NoField ELSE s.others[Min(free)]]

\* What is stronger than each suggestion
Stronger(suggestions) ==
  Ahead(DOMAIN suggestions, [i \in DOMAIN suggestions |-> suggestions[i].score],
        [i \in DOMAIN suggestions |-> i])

\* resolveCollisions(): what the stronger suggestions have settled for is claimed.
ResolveCollisions(suggestions) ==
  LET settled[i \in DOMAIN suggestions] ==
        Settle({settled[j].field : j \in Stronger(suggestions)[i]} \ {NoField}, suggestions[i])
  IN  settled

Ranked(heading, score) == SuggestColumn(heading, score, Candidates(heading, score))

\* suggest()
Suggest(grid) ==
  ResolveCollisions([col \in 1 .. Width(grid) |-> Ranked(Heading(grid, col), Scores(grid, col))])

-----------------------------------------------------------------------------
(***************************************************************************)
(* RowBuilder, with a mapping of columns to fields                         *)
(***************************************************************************)

\* collectValues(): the first column of a field with something in it
ValueOf(row, mapping, f) ==
  LET from == {k \in DOMAIN mapping : mapping[k] = f /\ k \in DOMAIN row /\ row[k] # Blank}
  IN  IF from = {} THEN Blank ELSE row[Min(from)]

\* build(): whether the row becomes a contact
IsGood(row, mapping) ==
  LET phone == ValueOf(row, mapping, "phone")
      email == ValueOf(row, mapping, "email")
  IN  /\ phone \in Dialled \cup {Blank}
      /\ email = Blank \/ Looks[email] = "email"
      /\ {phone, email} # {Blank}
      /\ \E f \in {"name", "firstName", "lastName"} : ValueOf(row, mapping, f) # Blank

=============================================================================
