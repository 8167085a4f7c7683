------------------------------ MODULE MCReports ------------------------------
(***************************************************************************)
(* Reports on a day of four hours, for users of a zone whose clocks go     *)
(* back during the week and of one whose clocks go forward.                *)
(***************************************************************************)
EXTENDS Reports, TLC

CONSTANTS r1, r2

\* Midnight comes one hour after the start, and two or three hours before it
\* the clocks went back or forward.
Back == [before |-> 4, after |-> 3, at |-> -2]
Forth == [before |-> -2, after |-> -1, at |-> -3]

Question(preset, zone, from) == [preset |-> preset, zone |-> zone, from |-> from, to |-> 0, by |-> "any"]

\* The last days, or a day, or a range that is refused
MCQuestions == {Question("week", Back, 0), Question("custom", Back, 1),
                Question("today", Forth, 0), [Question("week", Forth, 0) EXCEPT !.by = "week"]}

MCMonthOf == [d \in -50 .. 50 |-> d \div 30]
MCSymmetry == Permutations({r1, r2})

=============================================================================
