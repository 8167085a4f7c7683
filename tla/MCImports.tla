------------------------------ MODULE MCImports ------------------------------
(***************************************************************************)
(* Imports for TLC: two e-mails and two phones, sheets whose rows repeat   *)
(* each other and the contacts by one channel or the other.                *)
(***************************************************************************)
EXTENDS Imports, TLC

CONSTANTS e1, e2, p1, p2, h1, h2

MCEmail == {e1, e2}

MCPhone == {p1, p2}

Of(e, p) == [email |-> e, phone |-> p]

Line(kind, e, p) == [kind |-> kind, email |-> e, phone |-> p]

MCFile ==
  {<<Line("good", e1, p2), Line("good", e2, p2), Line("bad", None, None)>>,
   <<Line("long", e2, None), Line("blank", None, None), Line("good", None, p1)>>}

MCAddressBook == {<<Of(e1, None)>>, <<Of(e1, p1), Of(None, p2)>>}

MCHandler == {h1, h2}

MCSymmetry == Permutations(MCHandler)

=============================================================================
