----------------------------- MODULE MCChannelTS -----------------------------
(* Networks, users and changes for ChannelTS. *)
EXTENDS ChannelTS

MCPair == {"a", "b"}
MCPairLink == {<<"a", "b">>, <<"b", "a">>}
MCLine == {"a", "b", "c"}
MCLineLink == MCPairLink \cup {<<"b", "c">>, <<"c", "b">>}

\* Side of a line of servers, whose names are in order along it.
MCSide ==
    [l \in Link |-> IF l[2] = "b" THEN Server \ {l[1]} ELSE {l[2]}]

MCTwoUsers == {"ua", "ub"}
MCThreeUsers == {"ua", "ub", "uc"}
MCSplitUsers == {"ua", "ub", "wb"}
MCHome ==
    [u \in User |-> IF u = "ua" THEN "a" ELSE IF u \in {"ub", "wb"} THEN "b" ELSE "c"]
MCClock == [s \in Server |-> IF s = "c" THEN {1} ELSE {1, 2}]
MCOneTime == [s \in Server |-> {1}]

MCOps == [what : {"op", "deop"}, arg : User]
MCFew == [what : {"op", "ban"}, arg : {"ub", "uc"}] \cup [what : {"flag"}, arg : Flag]

\* So many joins, leaves, mode changes, long ones, topics and breaks.
Mix(j, p, k, m, l, t, b) ==
    [join |-> j, leave |-> p, kick |-> k, mode |-> m, long |-> l, topic |-> t, break |-> b]

\* Three users on a line: joins against splits, leaves, kicks and mode changes.
MCBudget ==
    {Mix(3, 0, 0, 0, 0, 0, 1), Mix(2, 1, 0, 0, 0, 0, 1), Mix(2, 0, 1, 0, 0, 0, 1),
     Mix(2, 0, 0, 1, 0, 0, 1), Mix(2, 2, 1, 0, 0, 0, 0), Mix(2, 0, 1, 1, 0, 0, 0),
     Mix(2, 0, 0, 2, 0, 0, 0), Mix(2, 0, 0, 0, 1, 0, 0), Mix(1, 0, 0, 0, 0, 1, 1)}

\* An operator's single change and a long one, while two copies meet.
MCHackBudget == {Mix(3, 0, 0, 1, 1, 0, 0)}

\* A topic is set and cleared across a split.
MCTopicBudget == {Mix(2, 0, 0, 0, 0, 2, 1)}
=============================================================================
