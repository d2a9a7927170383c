---------------------------- MODULE MCServerTree ----------------------------
(* Networks for ServerTree. *)
EXTENDS ServerTree

MCFour == {"a", "b", "c", "d"}
MCPairs == {c \in MCFour \X MCFour : c[1] # c[2]}
MCAny == MCFour \X MCFour \X MCFour

MCHubs(calls, breaks, squits) ==
    [hub |-> MCFour, connects |-> MCPairs, linked |-> <<>>, calls |-> calls,
     hubMask |-> MCAny, leafMask |-> {}, breaks |-> breaks, squits |-> squits]

\* Three servers that close a ring, or a and b connecting to each other while
\* c connects to a; a link is lost or a server SQUIT at any moment.
MCRing ==
    [k \in Conn |-> IF k = 1 THEN {<<"a", "b">>}
                    ELSE IF k = 2 THEN {<<"b", "a">>, <<"b", "c">>}
                    ELSE IF k = 3 THEN {<<"c", "a">>} ELSE {}]

\* Behind c is d; c connects to b, then to a.
MCTail ==
    [MCHubs(<<{}, {<<"c", "b">>}, {<<"a", "b">>}, {<<"c", "a">>}>>, {}, {<<"a", "c">>})
       EXCEPT !.linked = <<"c", "d">>]

\* c is a leaf that neither a nor b may introduce.
MCLeaf ==
    [MCHubs(MCRing, {}, MCPairs)
       EXCEPT !.hub = {"a", "b"}, !.hubMask = MCAny \ {<<"a", "b", "c">>},
              !.leafMask = {<<"b", "a", "c">>}]

\* a has no block for c.
MCStranger ==
    [MCHubs(MCRing, {}, {}) EXCEPT !.connects = MCPairs \ {<<"a", "c">>}]

MCConfigs == {MCHubs(MCRing, Conn, MCPairs), MCTail, MCLeaf, MCStranger}
=============================================================================
