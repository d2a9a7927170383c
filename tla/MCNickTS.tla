------------------------------ MODULE MCNickTS ------------------------------
(* Networks and clients for NickTS. *)
EXTENDS NickTS

MCPair == {"a", "b"}
MCPairLink == {<<"a", "b">>, <<"b", "a">>}
MCLine == {"a", "b", "c"}
MCLineLink == MCPairLink \cup {<<"b", "c">>, <<"c", "b">>}

\* Side of a line of servers, whose names are in order along it.
MCSide ==
    [l \in Link |-> IF l[2] = "b" THEN Server \ {l[1]} ELSE {l[2]}]

MCTwoUids == {"ua", "ub"}
MCPairUids == {"ua", "va", "ub"}
MCHome ==
    [u \in Uid |-> IF u \in {"ua", "va"} THEN "a" ELSE IF u = "ub" THEN "b" ELSE "c"]
\* va and ub are connections of one person, ua is another's.
MCHost == [u \in Uid |-> IF u = "ua" THEN "h2" ELSE "h1"]
MCHosts == [u \in Uid |-> u]
MCClock == [u \in Uid |-> {1, 2}]
MCClocks ==
    [u \in Uid |-> IF u = "ua" THEN {2} ELSE IF u = "ub" THEN {4}
                   ELSE IF u = "uc" THEN {3} ELSE {1}]
=============================================================================
