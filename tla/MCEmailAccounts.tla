--------------------------- MODULE MCEmailAccounts ---------------------------
(***************************************************************************)
(* EmailAccounts for TLC: one address for which two passwords are entered  *)
(* and three with one: with a limit of two, enough for a third account to  *)
(* slip in and a fourth to be refused.                                     *)
(***************************************************************************)
EXTENDS EmailAccounts, TLC

CONSTANTS a1, a2, a3, a4, p1, p2, h1, h2

MCOffer == {<<a1, p1>>, <<a1, p2>>, <<a2, p1>>, <<a3, p1>>, <<a4, p1>>}

MCHandler == {h1, h2}

MCSymmetry == Permutations({h1, h2}) \cup Permutations({a2, a3, a4})

=============================================================================
