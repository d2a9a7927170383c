--------------------------- MODULE MCConnections ---------------------------
(* Model values and symmetry for Connections. *)
EXTENDS Connections, TLC

CONSTANTS c1, c2, c3, tls, plain
MCClient == {c1, c2, c3}
MCTwoClients == {c1, c2}
MCListener == {tls, plain}
MCSSLListener == {tls}
Symmetry == Permutations(MCClient)
=============================================================================
