------------------------------ MODULE MCSessions ------------------------------
(***************************************************************************)
(* Sessions for TLC: two people, each of whom may register more than once, *)
(* so that registrations of one address and one name meet.                 *)
(***************************************************************************)
EXTENDS Sessions, TLC

CONSTANTS ann, bob, h1, h2, t1

MCIdentity == {<<p, p>> : p \in {ann, bob}}
MCHandler == {h1, h2}
MCTab == {t1}
Symmetry == Permutations({ann, bob}) \cup Permutations(MCHandler) \cup Permutations(MCTab)

=============================================================================
