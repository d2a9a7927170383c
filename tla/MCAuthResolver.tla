--------------------------- MODULE MCAuthResolver ---------------------------
(* Model values and symmetry for AuthResolver. *)
EXTENDS AuthResolver, TLC

CONSTANTS c1, c2, c3
MCClient == {c1, c2, c3}
MCTwoClients == {c1, c2}
MCV6 == {c2}
Symmetry == Permutations({c1, c3})
=============================================================================
