----------------------------- MODULE MCNetwork -----------------------------
(***************************************************************************)
(* A line of three servers, in three scenarios: a channel ("channel"); one *)
(* user for each server under one nick, with a link that breaks ("split"); *)
(* and four users, no two TS equal, who all stay, so that every collision  *)
(* of nicks has its winner ("burst").                                      *)
(***************************************************************************)
EXTENDS MCChannelTS

CONSTANT NULL

VARIABLES scenario, nick, tsinfo, unregistered, used

nickVars == <<nick, tsinfo, unregistered, used>>

MCUid == {"ua", "ub", "uc", "va"}
MCUidHome == [u \in MCUid |-> IF u \in {"ua", "va"} THEN "a" ELSE IF u = "ub" THEN "b" ELSE "c"]
MCSplitHost == [u \in MCThreeUsers |-> IF u = "uc" THEN "h2" ELSE "h1"]
MCSplitClock == [u \in MCThreeUsers |-> CASE u = "ua" -> {1, 2} [] u = "ub" -> {1} [] OTHER -> {2}]
MCBurstClock ==
    [u \in MCUid |-> CASE u = "ua" -> {2} [] u = "ub" -> {4} [] u = "uc" -> {3} [] OTHER -> {1}]

NickSplit == INSTANCE NickTS WITH
    Uid <- MCThreeUsers, Home <- [u \in MCThreeUsers |-> MCUidHome[u]],
    Host <- MCSplitHost, Clock <- MCSplitClock, Oper <- {}, Nick <- {"n"},
    MaxChanges <- 0, MaxQuits <- 1, MaxKills <- 0, MaxBreaks <- 1

NickBurst == INSTANCE NickTS WITH
    Uid <- MCUid, Home <- MCUidHome, Host <- [u \in MCUid |-> u],
    Clock <- MCBurstClock, Oper <- {}, Nick <- {"n", "m"},
    MaxChanges <- 0, MaxQuits <- 0, MaxKills <- 0, MaxBreaks <- 0

\* What a scenario has no use for.
NoNicks == nick = {} /\ tsinfo = {} /\ unregistered = {} /\ used = {}
NoCopies == chan = [s \in Server |-> NoChannel] /\ past = {}

MCInit ==
    \/ scenario = "channel" /\ Init /\ NoNicks
    \/ scenario = "split" /\ NickSplit!Init /\ NoCopies
    \/ scenario = "burst" /\ NickBurst!Init /\ NoCopies

MCNext ==
    /\ UNCHANGED scenario
    /\ \/ scenario = "channel" /\ Next /\ UNCHANGED nickVars
       \/ scenario = "split" /\ NickSplit!Next /\ UNCHANGED <<chan, past>>
       \/ scenario = "burst" /\ NickBurst!Next /\ UNCHANGED <<chan, past>>

MCSpec == MCInit /\ [][MCNext]_<<scenario, vars, nickVars>>

\* While links break, no UID is introduced to a server that has it, and at rest
\* nobody is missing (NoIdCollision and NobodyMissing of NickTS).
SplitHeals ==
    scenario = "split" => NickSplit!NoIdCollision /\ NickSplit!NobodyMissing

\* When everybody stays, neighbours agree at rest, and who is gone on one side is
\* on its way out on the other (Converged and NoGhost of NickTS).
BurstHeals ==
    scenario = "burst" => NickBurst!Converged /\ NickBurst!NoGhost
=============================================================================
