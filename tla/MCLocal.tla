------------------------------ MODULE MCLocal ------------------------------
(***************************************************************************)
(* Parts that share no state, side by side: a behaviour is a behaviour of  *)
(* one of them.                                                            *)
(***************************************************************************)
EXTENDS Streams, Dbuf, ConfAttach, BanCache, Events, ServiceLists, MCLines, TLC

VARIABLE part

MCInit ==
    /\ part \in {"streams", "dbuf", "conf", "bans", "events", "lists", "lines"}
    /\ StreamInit /\ DbufInit /\ ConfInit /\ BanInit /\ EventInit /\ ListInit /\ LineInit
    /\ part # "streams" => client.transport = "plain"
    /\ part # "dbuf" => use = "recv"
    /\ part # "bans" => \A u \in Member : nick[u] = "n1" /\ host[u] = "h1"
    /\ part # "events" => ~splitmode
    /\ part # "lists" => ~masks /\ budget.delete = 0
    /\ part # "lines" => user.who = "here" /\ <<"DLINE", "all">> \in theme

MCNext ==
    /\ UNCHANGED part
    /\ \/ part = "streams" /\ StreamNext
          /\ UNCHANGED <<dbufVars, confVars, banVars, eventVars, listVars, lineVars>>
       \/ part = "dbuf" /\ DbufNext
          /\ UNCHANGED <<streamVars, confVars, banVars, eventVars, listVars, lineVars>>
       \/ part = "conf" /\ ConfNext
          /\ UNCHANGED <<streamVars, dbufVars, banVars, eventVars, listVars, lineVars>>
       \/ part = "bans" /\ BanNext
          /\ UNCHANGED <<streamVars, dbufVars, confVars, eventVars, listVars, lineVars>>
       \/ part = "events" /\ EventNext
          /\ UNCHANGED <<streamVars, dbufVars, confVars, banVars, listVars, lineVars>>
       \/ part = "lists" /\ ListNext
          /\ UNCHANGED <<streamVars, dbufVars, confVars, banVars, eventVars, lineVars>>
       \/ part = "lines" /\ LineNext
          /\ UNCHANGED <<streamVars, dbufVars, confVars, banVars, eventVars, listVars>>

MCSpec ==
    /\ MCInit
    /\ [][MCNext]_<<part, streamVars, dbufVars, confVars, banVars, eventVars,
                  listVars, lineVars>>
    /\ StreamFairness

-----------------------------------------------------------------------------

MCMaxLines == [plain |-> 4, tls |-> 3]

MCLimits(total, perCidr, bits) ==
    [total |-> total, perIp |-> 2, perCidr |-> perCidr, bits |-> bits]

MCItem(type, name, class) ==
    [type |-> type, name |-> name, class |-> class, exempt |-> FALSE]

MCItems == {MCItem("client", "home", "users"), MCItem("oper", "root", "opers")}

\* Both classes; the users' class with other bits; without CIDR limit; and only
\* the other, with limits for the default class.
MCFiles ==
    {[class |-> [users |-> MCLimits(3, 1, 8), opers |-> MCLimits(0, 0, 8)], items |-> MCItems],
     [class |-> [users |-> MCLimits(2, 2, 16)], items |-> MCItems],
     [class |-> [users |-> MCLimits(0, 0, 8)], items |-> MCItems],
     [class |-> [opers |-> MCLimits(1, 0, 8), default |-> MCLimits(0, 1, 16)],
      items |-> {MCItem("client", "away", "opers"),
                 [MCItem("client", "home", "gone") EXCEPT !.exempt = TRUE]}]}

MCConfClient == {"u1", "u2", "u3"}
MCHost == [u \in MCConfClient |-> IF u = "u3" THEN "away" ELSE "home"]
MCIp == [u1 |-> 1, u2 |-> 2, u3 |-> 2]
MCBlock == (8 :> [a \in {1, 2} |-> "net"]) @@ (16 :> [a \in {1, 2} |-> IF a = 1 THEN "lan1" ELSE "lan2"])
MCPeriod == [timeout_resolver |-> 1, comm_checktimeouts |-> 1]

\* A line of three servers, services at one end.
MCServer == {"a", "b", "c"}
MCLink == {<<"a", "b">>, <<"b", "a">>, <<"b", "c">>, <<"c", "b">>}
MCCovers == {<<"one", "one">>, <<"all", "all">>, <<"all", "one">>}
\* The user of the G-line "one", taken alone, bans "all".
MCReadAs == {<<"one", "all">>}
MCBudgets ==
    {[add |-> 2, delete |-> 1, clear |-> 0, break |-> 1],
     [add |-> 2, delete |-> 0, clear |-> 1, break |-> 1]}

\* The lines of a stream once more: up to an end of line each.
Ends(bytes) == {i \in DOMAIN bytes : bytes[i] = "eol"}

RECURSIVE LinesByEnds(_)
LinesByEnds(bytes) ==
    IF bytes # <<>> /\ bytes[1] \in {"space", "eol"} THEN LinesByEnds(Tail(bytes))
    ELSE IF Ends(bytes) = {} THEN <<>>
    ELSE LET end == CHOOSE i \in Ends(bytes) : \A j \in Ends(bytes) : i <= j
         IN <<SubSeq(bytes, 1, IF end - 1 < MaxLine THEN end - 1 ELSE MaxLine)>>
            \o LinesByEnds(SubSeq(bytes, end + 1, Len(bytes)))

ASSUME LinesAreByEnds ==
    \A n \in 0..MaxBytes : \A bytes \in [1..n -> Byte] : Lines(bytes) = LinesByEnds(bytes)

MCDefaultClass == [total |-> 0, perIp |-> 0, perCidr |-> 0, bits |-> 0]
=============================================================================
