-------------------------- MODULE ChannelTS_proof --------------------------
(***************************************************************************)
(* Proofs about ChannelTS, for every tree of servers, any users, clocks,   *)
(* flags, topics and bounds.                                               *)
(*                                                                         *)
(* First the types, and with them that with no long mode change nobody is  *)
(* ever an operator by a TS newer than the channel's (Fair).               *)
(*                                                                         *)
(* Then that neighbours at rest agree who is on the channel (MembersInv).  *)
(* There is one way through the tree from a server to a user; between the  *)
(* two ends of a link on it the invariant says what the far one, which     *)
(* knows the user through the near one, still has to hear.  A KICK is the  *)
(* only line that comes from anywhere; the two waves say that where        *)
(* nothing crosses it, it finds the user at its server.  Every action is   *)
(* brought into one form: a server parses a line, or none, and says one    *)
(* thing to the others (Acts), and what that means for a user is that it   *)
(* stays, enters or leaves (Affects).                                      *)
(***************************************************************************)
EXTENDS ChannelTS, SequenceTheorems, TLAPS

\* Every mode change of the budget fits on one line.
NoLong == \A b \in Budget : b["long"] = 0

\* Channels and lines that name operators of no newer TS than their own.
FairChannel == {c \in Channel : (NoLong => \A u \in User : c.op[u] <= c.ts)}

FairMessage ==
    {m \in Message :
       /\ m.type \in {"SJOIN"} /\ NoLong => \A u \in User : m.op[u] <= m.ts
       /\ m.type \in {"TMODE"} /\ NoLong => m.given <= m.ts
       /\ NoLong => m.type \notin {"MODE"}}

Fair ==
    /\ chan \in [Server -> FairChannel]
    /\ queue \in [Link -> Seq(FairMessage)]
    /\ link \in [Link -> {"down", "connecting", "up"}]
    /\ left \in [Event -> Nat] /\ (NoLong => left["long"] = 0)
    /\ past \subseteq Past

-----------------------------------------------------------------------------
(* The tree of links.                                                      *)

\* A link has two ends, and each has the rest of the network on its side.
LEMMA LinkEnds ==
    ASSUME NEW s \in Server, NEW v \in Peers(s)
    PROVE  /\ v \in Server /\ s \in Peers(v)
           /\ <<s, v>> \in Link /\ <<v, s>> \in Link /\ s # v
           /\ s \in Side[<<v, s>>] /\ s \notin Side[<<s, v>>]
           /\ Side[<<s, v>>] \cap Side[<<v, s>>] = {}
           /\ \A t \in Peers(s) \ {v} : Side[<<s, t>>] \subseteq Side[<<v, s>>]
           /\ \A x \in Side[<<s, v>>] \ {v} : Peers(x) \subseteq Side[<<s, v>>]
  <1>1. v \in Server /\ <<s, v>> \in Link /\ <<v, s>> \in Link /\ s \in Peers(v)
    BY ChannelNetworkAssumption DEF Peers
  <1>2. Side[<<s, v>>] \cap Side[<<v, s>>] = {}
    BY <1>1, ChannelNetworkAssumption
  <1>3. v \in Side[<<s, v>>] /\ s \in Side[<<v, s>>]
    BY <1>1, ChannelNetworkAssumption
  <1>4. \A t \in Peers(s) \ {v} : Side[<<s, t>>] \subseteq Side[<<v, s>>]
    BY <1>1, ChannelNetworkAssumption
  <1>5. \A x \in Side[<<s, v>>] \ {v} : Peers(x) \subseteq Side[<<s, v>>]
    BY <1>1, ChannelNetworkAssumption
  <1> QED BY <1>1, <1>2, <1>3, <1>4, <1>5

\* Every link is one of a server to a peer.
LEMMA LinkIsPair ==
    ASSUME NEW l \in Link
    PROVE  l[1] \in Server /\ l[2] \in Server /\ l[2] \in Peers(l[1]) /\ l[1] \in Peers(l[2])
           /\ l = <<l[1], l[2]>>
  <1>1. l[1] \in Server /\ l[2] \in Server /\ l = <<l[1], l[2]>>
    BY ChannelNetworkAssumption
  <1>2. l[2] \in Peers(l[1])
    BY <1>1 DEF Peers
  <1>3. \A s \in Server : \A v \in Peers(s) : s \in Peers(v)
    BY LinkEnds
  <1> QED BY <1>1, <1>2, <1>3

-----------------------------------------------------------------------------
(* The channel at one server.                                              *)

\* What is known of a channel's fields, and what makes one.
LEMMA ChannelFields ==
    ASSUME NEW c \in FairChannel
    PROVE  /\ c.ts \in Nat /\ c.member \in SUBSET User /\ c.op \in [User -> Nat]
           /\ c.deopped \in SUBSET User /\ c.modes \in SUBSET Modes
           /\ c.bans \in SUBSET User /\ c.topic \in Topic \cup {"none"}
           /\ c.topictime \in Nat
           /\ (NoLong => \A u \in User : c.op[u] <= c.ts)
  BY DEF FairChannel, Channel

LEMMA NoOpType == NoOp \in [User -> Nat] /\ \A u \in User : NoOp[u] = 0
  BY DEF NoOp

LEMMA NoChannelFair == NoChannel \in FairChannel
  BY NoOpType DEF NoChannel, FairChannel, Channel, Modes

\* remove_user_from_channel
LEMMA RemoveUsersFair ==
    ASSUME NEW c \in FairChannel, NEW X
    PROVE  RemoveUsers(c, X) \in FairChannel
  <1>1. /\ Without(c.op, X) \in [User -> Nat]
        /\ (NoLong => \A u \in User : Without(c.op, X)[u] <= c.ts)
    BY ChannelFields DEF Without
  <1>2. CASE c.member \subseteq X
    BY <1>2, NoChannelFair DEF RemoveUsers
  <1>3. CASE ~(c.member \subseteq X)
    <2> DEFINE w == Without(c.op, X)
               d == [c EXCEPT !.member = @ \ X, !.deopped = @ \ X, !.op = w]
    <2>1. w \in [User -> Nat] /\ (NoLong => \A u \in User : w[u] <= c.ts)
      BY <1>1
    <2> HIDE DEF w
    <2>2. d \in Channel /\ d.op = w /\ d.ts = c.ts
      BY <2>1 DEF FairChannel, Channel
    <2>3. d \in FairChannel
      BY <2>1, <2>2 DEF FairChannel
    <2> QED BY <1>3, <2>3 DEF RemoveUsers, w
  <1> QED BY <1>2, <1>3

\* remove_our_modes
LEMMA LoseModesFair ==
    ASSUME NEW c \in FairChannel, NEW ts \in Nat, NEW modes \in SUBSET Modes
    PROVE  LoseModes(c, ts, modes) \in FairChannel /\ LoseModes(c, ts, modes).ts = ts
  <1>1. LoseModes(c, ts, modes) \in Channel /\ LoseModes(c, ts, modes).op = NoOp
        /\ LoseModes(c, ts, modes).ts = ts
    BY NoOpType DEF LoseModes, FairChannel, Channel
  <1> QED BY <1>1, NoOpType DEF FairChannel

\* add_user_to_channel, of users whose status is not of a newer TS.
LEMMA AddUsersFair ==
    ASSUME NEW c \in FairChannel, NEW X \in SUBSET User, NEW op \in [User -> Nat],
           (NoLong => \A u \in User : op[u] <= c.ts)
    PROVE  AddUsers(c, X, op) \in FairChannel /\ AddUsers(c, X, op).ts = c.ts
  <1> DEFINE new == [u \in User |-> IF u \in X \ c.member THEN op[u] ELSE c.op[u]]
             d == [c EXCEPT !.member = @ \cup X, !.op = new]
  <1>1. new \in [User -> Nat] /\ (NoLong => \A u \in User : new[u] <= c.ts)
    BY ChannelFields
  <1>2. AddUsers(c, X, op) = d
    BY DEF AddUsers, FairChannel, Channel
  <1> HIDE DEF new
  <1>3. d \in Channel /\ d.op = new /\ d.ts = c.ts
    BY <1>1 DEF FairChannel, Channel
  <1> QED BY <1>1, <1>2, <1>3 DEF FairChannel

\* set_channel_mode, of a status given under no newer TS.
LEMMA SetModeFair ==
    ASSUME NEW c \in FairChannel, NEW x \in ModeChange, NEW given \in Nat,
           (NoLong => given <= c.ts)
    PROVE  SetMode(c, x, given) \in FairChannel /\ SetMode(c, x, given).ts = c.ts
  <1>1. CASE x.what \in {"op", "deop"}
    <2>1. x.arg \in User
      BY <1>1 DEF ModeChange
    <2> DEFINE opped == [c EXCEPT !.op[x.arg] = given, !.deopped = @ \ {x.arg}]
               deopped == [c EXCEPT !.op[x.arg] = 0]
    <2>2. opped \in FairChannel /\ opped.ts = c.ts
      BY <2>1 DEF FairChannel, Channel
    <2>3. deopped \in FairChannel /\ deopped.ts = c.ts
      BY <2>1 DEF FairChannel, Channel
    <2>4. SetMode(c, x, given) = SetStatus(c, x, given)
      BY <1>1 DEF SetMode
    <2> QED BY <2>2, <2>3, <2>4 DEF SetStatus
  <1>2. CASE x.what \in {"flag", "unflag"}
    <2>1. x.arg \in Modes
      BY <1>2 DEF ModeChange, Modes
    <2>2. SetFlag(c, x) \in FairChannel /\ SetFlag(c, x).ts = c.ts
      BY <2>1 DEF SetFlag, FairChannel, Channel
    <2>3. SetMode(c, x, given) = SetFlag(c, x)
      BY <1>2 DEF SetMode
    <2> QED BY <2>2, <2>3
  <1>3. CASE x.what \in {"ban", "unban"}
    <2>1. x.arg \in User
      BY <1>3 DEF ModeChange
    <2>2. SetBan(c, x) \in FairChannel /\ SetBan(c, x).ts = c.ts
      BY <2>1 DEF SetBan, FairChannel, Channel
    <2>3. SetMode(c, x, given) = SetBan(c, x)
      BY <1>3 DEF SetMode
    <2> QED BY <2>2, <2>3
  <1>4. x.what \in {"op", "deop", "flag", "unflag", "ban", "unban"}
    BY DEF ModeChange
  <1> QED BY <1>1, <1>2, <1>3, <1>4

\* set_channel_topic
LEMMA SetTopicFair ==
    ASSUME NEW c \in FairChannel, NEW topic \in Topic \cup {"none"}, NEW time \in Nat
    PROVE  SetTopic(c, topic, time) \in FairChannel
  BY DEF SetTopic, FairChannel, Channel

-----------------------------------------------------------------------------
(* Lines and streams.                                                      *)

\* What the fields of a line are.
LEMMA MessageFields ==
    ASSUME NEW m \in FairMessage
    PROVE  /\ m.type \in {"SJOIN"} =>
                /\ m.ts \in Nat /\ m.modes \in (SUBSET Modes) \cup {{"0"}}
                /\ m.nicks \in SUBSET User /\ m.op \in [User -> Nat]
                /\ (NoLong => \A u \in User : m.op[u] <= m.ts)
           /\ m.type \in {"JOIN"} => m.uid \in User /\ m.ts \in Nat
           /\ m.type \in {"PART", "KICK"} => m.uid \in User
           /\ m.type \in {"TMODE"} =>
                /\ m.src \in User /\ m.ts \in Nat /\ m.change \in ModeChange
                /\ m.given \in Nat /\ (NoLong => m.given <= m.ts)
           /\ m.type \in {"MODE"} =>
                ~NoLong /\ m.src \in User /\ m.change \in ModeChange /\ m.given \in Nat
           /\ m.type \in {"BMASK"} => m.ts \in Nat /\ m.bans \in SUBSET User
           /\ m.type \in {"TOPIC"} => m.src \in User /\ m.topic \in Topic \cup {"none"}
           /\ m.type \in {"TBURST"} =>
                m.ts \in Nat /\ m.topic \in Topic \cup {"none"} /\ m.time \in Nat
           /\ m.type \in {"SQUIT"} => m.server \in Server
  BY DEF FairMessage, Message

LEMMA SjoinFair ==
    ASSUME NEW ts \in Nat, NEW modes \in (SUBSET Modes) \cup {{"0"}}, NEW nicks \in SUBSET User,
           NEW op \in [User -> Nat], (NoLong => \A u \in User : op[u] <= ts)
    PROVE  SjoinMsg(ts, modes, nicks, op) \in FairMessage
  <1> DEFINE m == SjoinMsg(ts, modes, nicks, op)
  <1>1. m \in [type : {"SJOIN"}, ts : Nat, modes : (SUBSET Modes) \cup {{"0"}},
                nicks : SUBSET User, op : [User -> Nat]]
    BY DEF SjoinMsg
  <1>2. m.type = "SJOIN" /\ m.op = op /\ m.ts = ts
    BY DEF SjoinMsg
  <1> HIDE DEF m
  <1>3. m \in Message
    BY <1>1 DEF Message
  <1> QED BY <1>2, <1>3 DEF FairMessage, m

LEMMA TmodeFair ==
    ASSUME NEW u \in User, NEW ts \in Nat, NEW x \in ModeChange, NEW given \in Nat,
           (NoLong => given <= ts)
    PROVE  TmodeMsg(u, ts, x, given) \in FairMessage
  BY DEF TmodeMsg, FairMessage, Message

LEMMA ModeFairLine ==
    ASSUME ~NoLong, NEW u \in User, NEW x \in ModeChange, NEW given \in Nat
    PROVE  ModeMsg(u, x, given) \in FairMessage
  BY DEF ModeMsg, FairMessage, Message

\* The other lines name no operator.
LEMMA OtherFair ==
    /\ \A u \in User, ts \in Nat : [type |-> "JOIN", uid |-> u, ts |-> ts] \in FairMessage
    /\ \A u \in User : [type |-> "PART", uid |-> u] \in FairMessage
    /\ \A u \in User : [type |-> "KICK", uid |-> u] \in FairMessage
    /\ \A ts \in Nat, bans \in SUBSET User :
         [type |-> "BMASK", ts |-> ts, bans |-> bans] \in FairMessage
    /\ \A u \in User, topic \in Topic \cup {"none"} :
         [type |-> "TOPIC", src |-> u, topic |-> topic] \in FairMessage
    /\ \A ts, time \in Nat, topic \in Topic \cup {"none"} :
         [type |-> "TBURST", ts |-> ts, topic |-> topic, time |-> time] \in FairMessage
    /\ \A x \in Server : [type |-> "SQUIT", server |-> x] \in FairMessage
    /\ [type |-> "SERVER"] \in FairMessage
    /\ [type |-> "CLOSE"] \in FairMessage
  BY DEF FairMessage, Message

\* A line passed on with the TS of this server.
LEMMA RestampedFair ==
    ASSUME NEW m \in FairMessage, m.type \in {"JOIN", "BMASK"}, NEW ts \in Nat
    PROVE  [m EXCEPT !.ts = ts] \in FairMessage
  BY DEF FairMessage, Message

LEMMA ShortSeq ==
    ASSUME NEW S, NEW x \in S
    PROVE  <<x>> \in Seq(S)
  OBVIOUS

LEMMA ToServersFair ==
    ASSUME NEW s \in Server, NEW one, NEW ms \in Seq(FairMessage)
    PROVE  \A t \in Peers(s) : ToServers(s, one, ms)[t] \in Seq(FairMessage)
  BY EmptySeq DEF ToServers

LEMMA SendFair ==
    ASSUME queue \in [Link -> Seq(FairMessage)], NEW s \in Server, NEW out, Send(s, out),
           \A t \in Peers(s) : out[t] \in Seq(FairMessage)
    PROVE  queue' \in [Link -> Seq(FairMessage)]
  <1>1. ASSUME NEW l \in Link PROVE queue'[l] \in Seq(FairMessage)
    <2>1. CASE l[1] = s
      <3>1. out[l[2]] \in Seq(FairMessage) /\ queue[l] \in Seq(FairMessage)
        BY <2>1, LinkIsPair
      <3>2. queue'[l] = queue[l] \o out[l[2]]
        BY <2>1 DEF Send
      <3> QED BY <3>1, <3>2, ConcatProperties
    <2>2. CASE l[1] # s
      BY <2>2 DEF Send
    <2> QED BY <2>1, <2>2
  <1> QED BY <1>1 DEF Send

LEMMA AnswerFair ==
    ASSUME queue \in [Link -> Seq(FairMessage)], NEW s \in Server, NEW v \in Peers(s),
           queue[<<v, s>>] # <<>>, NEW out, Answer(v, s, out),
           \A t \in Peers(s) : out[t] \in Seq(FairMessage)
    PROVE  queue' \in [Link -> Seq(FairMessage)]
  <1>1. ASSUME NEW l \in Link PROVE queue'[l] \in Seq(FairMessage)
    <2>1. CASE l = <<v, s>>
      <3>1. queue[l] \in Seq(FairMessage) /\ queue[l] # <<>>
        BY <2>1
      <3>2. queue'[l] = Tail(queue[l])
        BY <2>1 DEF Answer
      <3> QED BY <3>1, <3>2, HeadTailProperties
    <2>2. CASE l # <<v, s>> /\ l[1] = s
      <3>1. out[l[2]] \in Seq(FairMessage) /\ queue[l] \in Seq(FairMessage)
        BY <2>2, LinkIsPair
      <3>2. queue'[l] = queue[l] \o out[l[2]]
        BY <2>2 DEF Answer
      <3> QED BY <3>1, <3>2, ConcatProperties
    <2>3. CASE l # <<v, s>> /\ l[1] # s
      BY <2>3 DEF Answer
    <2> QED BY <2>1, <2>2, <2>3
  <1> QED BY <1>1 DEF Answer

\* A handler that passes one line on.
LEMMA RelayFair ==
    ASSUME queue \in [Link -> Seq(FairMessage)], NEW s \in Server, NEW v \in Peers(s),
           queue[<<v, s>>] # <<>>, NEW m \in FairMessage, Relay(v, s, <<m>>)
    PROVE  queue' \in [Link -> Seq(FairMessage)]
  <1>1. \A t \in Peers(s) : ToServers(s, {v}, <<m>>)[t] \in Seq(FairMessage)
    BY ShortSeq, ToServersFair
  <1> QED BY <1>1, AnswerFair DEF Relay

LEMMA IgnoreFair ==
    ASSUME queue \in [Link -> Seq(FairMessage)], NEW s \in Server, NEW v \in Peers(s),
           queue[<<v, s>>] # <<>>, Ignore(v, s)
    PROVE  queue' \in [Link -> Seq(FairMessage)]
  <1>1. \A t \in Peers(s) : ToServers(s, {}, <<>>)[t] \in Seq(FairMessage)
    BY EmptySeq, ToServersFair
  <1> QED BY <1>1, AnswerFair DEF Ignore

\* A local user's action that sends one line to everybody.
LEMMA SayFair ==
    ASSUME queue \in [Link -> Seq(FairMessage)], NEW s \in Server, NEW m \in FairMessage,
           Send(s, ToServers(s, {}, <<m>>))
    PROVE  queue' \in [Link -> Seq(FairMessage)]
  <1>1. \A t \in Peers(s) : ToServers(s, {}, <<m>>)[t] \in Seq(FairMessage)
    BY ShortSeq, ToServersFair
  <1> QED BY <1>1, SendFair

\* The line a handler parses.
LEMMA LineFair ==
    ASSUME queue \in [Link -> Seq(FairMessage)], NEW s \in Server, NEW v \in Server, NEW types,
           Parses(s, v, types)
    PROVE  /\ v \in Peers(s) /\ queue[<<v, s>>] # <<>>
           /\ Line(v, s) \in FairMessage /\ Line(v, s).type \in types
  <1>1. v \in Peers(s) /\ <<v, s>> \in Link /\ queue[<<v, s>>] # <<>>
    BY ChannelNetworkAssumption DEF Parses
  <1>2. Head(queue[<<v, s>>]) \in FairMessage
    BY <1>1, HeadTailProperties
  <1> QED BY <1>1, <1>2 DEF Parses, Line

-----------------------------------------------------------------------------
(* Local users.                                                            *)

LEMMA SetFair ==
    ASSUME chan \in [Server -> FairChannel], NEW s \in Server, NEW c \in FairChannel, Set(s, c)
    PROVE  chan' \in [Server -> FairChannel]
  BY DEF Set

LEMMA LeaveFair ==
    ASSUME Fair, NEW s \in Server, NEW X, NEW why \in SUBSET Past, Leave(s, X, why)
    PROVE  chan' \in [Server -> FairChannel] /\ past' \subseteq Past
  <1>1. RemoveUsers(chan[s], X) \in FairChannel
    BY RemoveUsersFair DEF Fair
  <1>2. past' \subseteq Past
    BY DEF Leave, Fair, Past
  <1> QED BY <1>1, <1>2, SetFair DEF Leave, Fair

LEMMA SpendType ==
    ASSUME left \in [Event -> Nat], NEW e \in Event, Spend(e), (NoLong => left["long"] = 0)
    PROVE  left' \in [Event -> Nat] /\ (NoLong => left'["long"] = 0)
  BY DEF Spend, Event

LEMMA HistoryType ==
    /\ Again \subseteq Past /\ Crossed \subseteq Past
    /\ \A e \in {"mode", "kick", "topic"} : Made(e) \subseteq Past
  BY DEF Again, Crossed, Made, Past

LEMMA CreateFair ==
    ASSUME Fair, NEW u \in User, NEW t \in Clock[Home[u]], Create(u, t)
    PROVE  Fair'
  <1> DEFINE s == Home[u]
             op == [NoOp EXCEPT ![u] = t]
             c == [NoChannel EXCEPT !.ts = t, !.member = {u}, !.op = op, !.modes = {"nt"}]
  <1>1. s \in Server /\ t \in Nat
    BY ChannelAssumption
  <1>2. op \in [User -> Nat] /\ (NoLong => \A w \in User : op[w] <= t)
    BY <1>1, NoOpType
  <1>3. {"nt"} \in SUBSET Modes
    BY DEF Modes
  <1>4. c \in FairChannel
    <2> HIDE DEF op
    <2> QED BY <1>1, <1>2, <1>3 DEF FairChannel, Channel, NoChannel
  <1>5. SjoinMsg(t, {"nt"}, {u}, op) \in FairMessage
    <2> HIDE DEF op
    <2> QED BY <1>1, <1>2, <1>3, SjoinFair
  <1>6. Set(s, c) /\ Send(s, ToServers(s, {}, <<SjoinMsg(t, {"nt"}, {u}, op)>>))
        /\ Spend("join") /\ past' = past \cup Again /\ link' = link
    BY DEF Create
  <1> HIDE DEF c, op
  <1>7. chan' \in [Server -> FairChannel]
    BY <1>1, <1>4, <1>6, SetFair DEF Fair
  <1>8. queue' \in [Link -> Seq(FairMessage)]
    BY <1>1, <1>5, <1>6, SayFair DEF Fair
  <1>9. left' \in [Event -> Nat] /\ (NoLong => left'["long"] = 0)
    BY <1>6, SpendType DEF Fair, Event
  <1> QED BY <1>6, <1>7, <1>8, <1>9, HistoryType DEF Fair

LEMMA JoinFair ==
    ASSUME Fair, NEW u \in User, Join(u)
    PROVE  Fair'
  <1> DEFINE s == Home[u]
             c == [chan[s] EXCEPT !.member = @ \cup {u}]
             m == [type |-> "JOIN", uid |-> u, ts |-> chan[s].ts]
  <1>1. s \in Server /\ chan[s] \in FairChannel
    BY ChannelAssumption DEF Fair
  <1>2. c \in FairChannel
    BY <1>1 DEF FairChannel, Channel
  <1>3. m \in FairMessage
    BY <1>1, OtherFair, ChannelFields
  <1>4. Set(s, c) /\ Send(s, ToServers(s, {}, <<m>>)) /\ Spend("join")
        /\ past' = past \cup Again /\ link' = link
    BY DEF Join
  <1> HIDE DEF c, m
  <1>5. chan' \in [Server -> FairChannel]
    BY <1>1, <1>2, <1>4, SetFair DEF Fair
  <1>6. queue' \in [Link -> Seq(FairMessage)]
    BY <1>1, <1>3, <1>4, SayFair DEF Fair
  <1>7. left' \in [Event -> Nat] /\ (NoLong => left'["long"] = 0)
    BY <1>4, SpendType DEF Fair, Event
  <1> QED BY <1>4, <1>5, <1>6, <1>7, HistoryType DEF Fair

\* m_part and m_kick
LEMMA PartFair ==
    ASSUME Fair, NEW u \in User, Part(u)
    PROVE  Fair'
  <1>1. Home[u] \in Server
    BY ChannelAssumption
  <1>2. chan' \in [Server -> FairChannel] /\ past' \subseteq Past
    BY <1>1, LeaveFair, HistoryType DEF Part
  <1>3. queue' \in [Link -> Seq(FairMessage)]
    <2>1. [type |-> "PART", uid |-> u] \in FairMessage
      BY OtherFair
    <2> QED BY <1>1, <2>1, SayFair DEF Part, Fair
  <1>4. left' \in [Event -> Nat] /\ (NoLong => left'["long"] = 0)
    BY SpendType DEF Part, Fair, Event
  <1> QED BY <1>2, <1>3, <1>4 DEF Part, Fair

LEMMA KickFair ==
    ASSUME Fair, NEW o \in User, NEW u \in User, Kick(o, u)
    PROVE  Fair'
  <1>1. Home[o] \in Server
    BY ChannelAssumption
  <1>2. chan' \in [Server -> FairChannel] /\ past' \subseteq Past
    <2>1. Crossed \cup Made("kick") \in SUBSET Past
      BY HistoryType
    <2> QED BY <1>1, <2>1, LeaveFair DEF Kick
  <1>3. queue' \in [Link -> Seq(FairMessage)]
    <2>1. [type |-> "KICK", uid |-> u] \in FairMessage
      BY OtherFair
    <2> QED BY <1>1, <2>1, SayFair DEF Kick, Fair
  <1>4. left' \in [Event -> Nat] /\ (NoLong => left'["long"] = 0)
    BY SpendType DEF Kick, Fair, Event
  <1> QED BY <1>2, <1>3, <1>4 DEF Kick, Fair

LEMMA ModeFair ==
    ASSUME Fair, NEW o \in User, NEW x \in Change, Mode(o, x)
    PROVE  Fair'
  <1> DEFINE s == Home[o]
             c == chan[s]
  <1>1. s \in Server /\ c \in FairChannel /\ x \in ModeChange
    BY ChannelAssumption DEF Fair
  <1>2. c.ts \in Nat /\ c.ts <= c.ts
    BY <1>1, ChannelFields
  <1>3. SetMode(c, x, c.ts) \in FairChannel
    BY <1>1, <1>2, SetModeFair
  <1>4. TmodeMsg(o, c.ts, x, c.ts) \in FairMessage
    BY <1>1, <1>2, TmodeFair
  <1>5. Set(s, SetMode(c, x, c.ts)) /\ Send(s, ToServers(s, {}, <<TmodeMsg(o, c.ts, x, c.ts)>>))
        /\ Spend("mode") /\ past' = past \cup Made("mode") /\ link' = link
    BY DEF Mode
  <1> HIDE DEF c
  <1>6. chan' \in [Server -> FairChannel]
    BY <1>1, <1>3, <1>5, SetFair DEF Fair
  <1>7. queue' \in [Link -> Seq(FairMessage)]
    BY <1>1, <1>4, <1>5, SayFair DEF Fair
  <1>8. left' \in [Event -> Nat] /\ (NoLong => left'["long"] = 0)
    BY <1>5, SpendType DEF Fair, Event
  <1> QED BY <1>5, <1>6, <1>7, <1>8, HistoryType DEF Fair

LEMMA LocalTopicFair ==
    ASSUME Fair, NEW u \in User, NEW topic \in Topic \cup {"none"}, NEW t \in Clock[Home[u]],
           LocalTopic(u, topic, t)
    PROVE  Fair'
  <1> DEFINE s == Home[u]
             m == [type |-> "TOPIC", src |-> u, topic |-> topic]
  <1>1. s \in Server /\ chan[s] \in FairChannel /\ t \in Nat
    BY ChannelAssumption DEF Fair
  <1>2. SetTopic(chan[s], topic, t) \in FairChannel
    BY <1>1, SetTopicFair
  <1>3. m \in FairMessage
    BY OtherFair
  <1>4. Set(s, SetTopic(chan[s], topic, t)) /\ Send(s, ToServers(s, {}, <<m>>))
        /\ Spend("topic") /\ past' = past \cup Made("topic") /\ link' = link
    BY DEF LocalTopic
  <1> HIDE DEF m
  <1>5. chan' \in [Server -> FairChannel]
    BY <1>1, <1>2, <1>4, SetFair DEF Fair
  <1>6. queue' \in [Link -> Seq(FairMessage)]
    BY <1>1, <1>3, <1>4, SayFair DEF Fair
  <1>7. left' \in [Event -> Nat] /\ (NoLong => left'["long"] = 0)
    BY <1>4, SpendType DEF Fair, Event
  <1> QED BY <1>4, <1>5, <1>6, <1>7, HistoryType DEF Fair

\* Where nobody may make a long mode change there is nothing to show of its lines.
LEMMA LongModeFair ==
    ASSUME Fair, NEW o \in User, NEW x \in Change, NEW y \in Change, LongMode(o, x, y)
    PROVE  Fair'
  <1> DEFINE s == Home[o]
             c == chan[s]
             first == TmodeMsg(o, c.ts, x, c.ts)
             second == ModeMsg(o, y, c.ts)
             once == SetMode(c, x, c.ts)
             twice == SetMode(once, y, c.ts)
  <1>1. s \in Server /\ c \in FairChannel /\ x \in ModeChange /\ y \in ModeChange
    BY ChannelAssumption DEF Fair
  <1>2. c.ts \in Nat /\ c.ts <= c.ts
    BY <1>1, ChannelFields
  <1>3. ~NoLong
    BY DEF LongMode, Spend, Fair
  <1>4. Set(s, twice) /\ Send(s, ToServers(s, {}, <<first, second>>))
        /\ Spend("long") /\ past' = past \cup {"long"} /\ link' = link
    BY DEF LongMode
  <1> HIDE DEF c
  <1>5. once \in FairChannel /\ once.ts = c.ts
    BY <1>1, <1>2, SetModeFair
  <1> HIDE DEF once
  <1>6. twice \in FairChannel
    BY <1>1, <1>2, <1>5, SetModeFair
  <1>7. first \in FairMessage /\ second \in FairMessage
    BY <1>1, <1>2, <1>3, TmodeFair, ModeFairLine
  <1> HIDE DEF twice, first, second
  <1>8. <<first, second>> \in Seq(FairMessage)
    BY <1>7
  <1>9. \A t \in Peers(s) : ToServers(s, {}, <<first, second>>)[t] \in Seq(FairMessage)
    BY <1>1, <1>8, ToServersFair
  <1>10. queue' \in [Link -> Seq(FairMessage)]
    BY <1>1, <1>4, <1>9, SendFair DEF Fair
  <1>11. chan' \in [Server -> FairChannel]
    BY <1>1, <1>4, <1>6, SetFair DEF Fair
  <1>12. left' \in [Event -> Nat] /\ (NoLong => left'["long"] = 0)
    BY <1>4, SpendType DEF Fair, Event
  <1> QED BY <1>4, <1>10, <1>11, <1>12 DEF Fair, Past

LEMMA LocalFair ==
    ASSUME Fair, Local
    PROVE  Fair'
  BY CreateFair, JoinFair, PartFair, KickFair, ModeFair, LongModeFair, LocalTopicFair DEF Local

-----------------------------------------------------------------------------
(* Lines from a neighbour.                                                 *)

\* The nicks of an SJOIN.
LEMMA NicksType ==
    ASSUME NEW s, NEW v, NEW m \in FairMessage, m.type \in {"SJOIN"}
    PROVE  Nicks(s, v, m) \in SUBSET User
  BY MessageFields DEF Nicks

LEMMA ModesType ==
    ASSUME NEW m \in FairMessage, m.type \in {"SJOIN"}, NEW c \in FairChannel
    PROVE  Named(m) \in SUBSET Modes /\ Relayed(m, c) \in (SUBSET Modes) \cup {{"0"}}
  <1>1. m.modes \in (SUBSET Modes) \cup {{"0"}} /\ c.modes \in SUBSET Modes
    BY MessageFields, ChannelFields
  <1>2. Named(m) \in SUBSET Modes
    BY <1>1 DEF Named
  <1>3. Relayed(m, c) \in (SUBSET Modes) \cup {{"0"}}
    BY <1>1 DEF Relayed
  <1> QED BY <1>2, <1>3

\* A handler that changes the channel of s and passes one line on, or none.
LEMMA HandlerFair ==
    ASSUME Fair, NEW s \in Server, NEW v \in Peers(s), queue[<<v, s>>] # <<>>,
           NEW c \in FairChannel, NEW m \in FairMessage, Set(s, c),
           Relay(v, s, <<m>>) \/ Ignore(v, s), UNCHANGED <<link, left, past>>
    PROVE  Fair'
  <1>1. chan' \in [Server -> FairChannel]
    BY SetFair DEF Fair
  <1>2. queue' \in [Link -> Seq(FairMessage)]
    BY RelayFair, IgnoreFair DEF Fair
  <1> QED BY <1>1, <1>2 DEF Fair

LEMMA DroppedFair ==
    ASSUME Fair, NEW s \in Server, NEW v \in Peers(s), queue[<<v, s>>] # <<>>, Ignore(v, s),
           UNCHANGED <<chan, link, left, past>>
    PROVE  Fair'
  <1>1. queue' \in [Link -> Seq(FairMessage)]
    BY IgnoreFair DEF Fair
  <1> QED BY <1>1 DEF Fair

LEMMA SjoinWinsFair ==
    ASSUME Fair, NEW s \in Server, NEW v \in Server, SjoinWins(s, v)
    PROVE  Fair'
  <1> DEFINE m == Line(v, s)
             c == chan[s]
             X == Nicks(s, v, m)
             lost == LoseModes(c, m.ts, Named(m))
             added == AddUsers(lost, X, m.op)
             won == [added EXCEPT !.bans = {}]
             out == SjoinMsg(m.ts, Relayed(m, won), X, m.op)
  <1>1. v \in Peers(s) /\ queue[<<v, s>>] # <<>> /\ m \in FairMessage /\ m.type \in {"SJOIN"}
    BY LineFair DEF SjoinWins, Fair
  <1>2. c \in FairChannel
    BY DEF Fair
  <1>3. /\ m.ts \in Nat /\ m.op \in [User -> Nat] /\ (NoLong => \A u \in User : m.op[u] <= m.ts)
        /\ X \in SUBSET User /\ Named(m) \in SUBSET Modes
    BY <1>1, <1>2, MessageFields, NicksType, ModesType
  <1>4. \/ /\ Set(s, won) /\ (Relay(v, s, <<out>>) \/ Ignore(v, s))
           /\ UNCHANGED <<link, left, past>>
        \/ Ignore(v, s) /\ UNCHANGED <<chan, link, left, past>>
    BY DEF SjoinWins, RelaySjoin
  <1> HIDE DEF m, X, c
  <1>5. lost \in FairChannel /\ lost.ts = m.ts
    BY <1>2, <1>3, LoseModesFair
  <1> HIDE DEF lost
  <1>6. added \in FairChannel
    BY <1>3, <1>5, AddUsersFair
  <1> HIDE DEF added
  <1>7. won \in FairChannel
    BY <1>6 DEF FairChannel, Channel
  <1> HIDE DEF won
  <1>8. out \in FairMessage
    BY <1>1, <1>3, <1>7, ModesType, SjoinFair
  <1> HIDE DEF out
  <1> QED BY <1>1, <1>4, <1>7, <1>8, HandlerFair, DroppedFair

LEMMA SjoinMergesFair ==
    ASSUME Fair, NEW s \in Server, NEW v \in Server, SjoinMerges(s, v)
    PROVE  Fair'
  <1> DEFINE m == Line(v, s)
             c == chan[s]
             X == Nicks(s, v, m)
             merged == [c EXCEPT !.modes = @ \cup Named(m)]
             both == AddUsers(merged, X, m.op)
             out == SjoinMsg(c.ts, Relayed(m, both), X, m.op)
  <1>1. v \in Peers(s) /\ queue[<<v, s>>] # <<>> /\ m \in FairMessage /\ m.type \in {"SJOIN"}
    BY LineFair DEF SjoinMerges, Fair
  <1>2. c \in FairChannel
    BY DEF Fair
  <1>3. /\ m.ts \in Nat /\ m.op \in [User -> Nat] /\ (NoLong => \A u \in User : m.op[u] <= m.ts)
        /\ X \in SUBSET User /\ Named(m) \in SUBSET Modes
    BY <1>1, <1>2, MessageFields, NicksType, ModesType
  <1>4. /\ m.ts = c.ts /\ Set(s, both) /\ (Relay(v, s, <<out>>) \/ Ignore(v, s))
        /\ UNCHANGED <<link, left, past>>
    BY DEF SjoinMerges, RelaySjoin
  <1> HIDE DEF m, X, c
  <1>5. merged \in FairChannel /\ merged.ts = c.ts
    BY <1>2, <1>3 DEF FairChannel, Channel
  <1> HIDE DEF merged
  <1>6. both \in FairChannel
    BY <1>3, <1>4, <1>5, AddUsersFair
  <1> HIDE DEF both
  <1>7. out \in FairMessage
    BY <1>1, <1>3, <1>4, <1>6, ModesType, SjoinFair
  <1> HIDE DEF out
  <1> QED BY <1>1, <1>4, <1>6, <1>7, HandlerFair

LEMMA SjoinLosesFair ==
    ASSUME Fair, NEW s \in Server, NEW v \in Server, SjoinLoses(s, v)
    PROVE  Fair'
  <1> DEFINE m == Line(v, s)
             c == chan[s]
             X == Nicks(s, v, m)
             rejected == {u \in X \ c.member : m.op[u] # 0}
             added == AddUsers(c, X, NoOp)
             kept == [added EXCEPT !.deopped = @ \cup rejected]
             out == SjoinMsg(c.ts, {"0"}, X, NoOp)
  <1>1. v \in Peers(s) /\ queue[<<v, s>>] # <<>> /\ m \in FairMessage /\ m.type \in {"SJOIN"}
    BY LineFair DEF SjoinLoses, Fair
  <1>2. c \in FairChannel /\ c.ts \in Nat
    BY ChannelFields DEF Fair
  <1>3. X \in SUBSET User /\ rejected \in SUBSET User
    BY <1>1, NicksType
  <1>4. /\ Set(s, kept) /\ (Relay(v, s, <<out>>) \/ Ignore(v, s))
        /\ UNCHANGED <<link, left, past>>
    BY DEF SjoinLoses, RelaySjoin
  <1> HIDE DEF m, X, c, rejected
  <1>5. (NoLong => \A u \in User : NoOp[u] <= c.ts)
    BY <1>2, NoOpType
  <1>6. added \in FairChannel
    BY <1>2, <1>3, <1>5, NoOpType, AddUsersFair
  <1> HIDE DEF added
  <1>7. kept \in FairChannel
    BY <1>3, <1>6 DEF FairChannel, Channel
  <1> HIDE DEF kept
  <1>8. out \in FairMessage
    <2>1. {"0"} \in (SUBSET Modes) \cup {{"0"}}
      OBVIOUS
    <2> QED BY <1>2, <1>3, <1>5, <2>1, NoOpType, SjoinFair
  <1> HIDE DEF out
  <1> QED BY <1>1, <1>4, <1>7, <1>8, HandlerFair

LEMMA MsJoinFair ==
    ASSUME Fair, NEW s \in Server, NEW v \in Server, MsJoin(s, v)
    PROVE  Fair'
  <1> DEFINE m == Line(v, s)
             c == chan[s]
             kept == IF Exists(c) /\ m.ts >= c.ts THEN c ELSE LoseModes(c, m.ts, {})
             joined == AddUsers(kept, {m.uid}, NoOp)
             out == [m EXCEPT !.ts = kept.ts]
  <1>1. v \in Peers(s) /\ queue[<<v, s>>] # <<>> /\ m \in FairMessage /\ m.type \in {"JOIN"}
    BY LineFair DEF MsJoin, Fair
  <1>2. c \in FairChannel /\ m.uid \in User /\ m.ts \in Nat
    BY <1>1, MessageFields DEF Fair
  <1>3. Set(s, joined) /\ Relay(v, s, <<out>>) /\ UNCHANGED <<link, left, past>>
    BY DEF MsJoin
  <1> HIDE DEF m, c
  <1>4. kept \in FairChannel
    <2>1. {} \in SUBSET Modes
      OBVIOUS
    <2>2. LoseModes(c, m.ts, {}) \in FairChannel
      BY <1>2, <2>1, LoseModesFair
    <2> QED BY <1>2, <2>2
  <1> HIDE DEF kept
  <1>5. kept.ts \in Nat /\ (NoLong => \A u \in User : NoOp[u] <= kept.ts)
    BY <1>4, ChannelFields, NoOpType
  <1>6. {m.uid} \in SUBSET User
    BY <1>2
  <1>7. joined \in FairChannel
    BY <1>4, <1>5, <1>6, NoOpType, AddUsersFair
  <1> HIDE DEF joined
  <1>8. out \in FairMessage
    BY <1>1, <1>5, RestampedFair
  <1> HIDE DEF out
  <1> QED BY <1>1, <1>3, <1>7, <1>8, HandlerFair

LEMMA MsLeaveFair ==
    ASSUME Fair, NEW s \in Server, NEW v \in Server, MsLeave(s, v)
    PROVE  Fair'
  <1> DEFINE m == Line(v, s)
  <1>1. v \in Peers(s) /\ queue[<<v, s>>] # <<>> /\ m \in FairMessage
    BY LineFair DEF MsLeave, Fair
  <1>2. CASE Leave(s, {m.uid}, {}) /\ Relay(v, s, <<m>>) /\ UNCHANGED <<link, left>>
    <2>1. chan' \in [Server -> FairChannel] /\ past' \subseteq Past
      BY <1>2, LeaveFair
    <2>2. queue' \in [Link -> Seq(FairMessage)]
      BY <1>1, <1>2, RelayFair DEF Fair
    <2> QED BY <1>2, <2>1, <2>2 DEF Fair
  <1>3. CASE UNCHANGED <<chan, link, left, past>> /\ Ignore(v, s)
    BY <1>1, <1>3, DroppedFair
  <1> QED BY <1>2, <1>3 DEF MsLeave

LEMMA MsModeFair ==
    ASSUME Fair, NEW s \in Server, NEW v \in Server, MsMode(s, v)
    PROVE  Fair'
  <1> DEFINE m == Line(v, s)
             c == chan[s]
             out == TmodeMsg(m.src, c.ts, m.change, m.given)
             set == SetMode(c, m.change, m.given)
  <1>1. /\ v \in Peers(s) /\ queue[<<v, s>>] # <<>> /\ m \in FairMessage
        /\ m.type \in {"TMODE", "MODE"}
    BY LineFair DEF MsMode, Fair
  <1>2. /\ m.src \in User /\ m.change \in ModeChange /\ m.given \in Nat
        /\ NoLong => m.type = "TMODE" /\ m.ts \in Nat /\ m.given <= m.ts
    BY <1>1, MessageFields
  <1>3. c \in FairChannel /\ c.ts \in Nat
    BY ChannelFields DEF Fair
  <1>4. \/ /\ (NoLong => m.ts <= c.ts) /\ Set(s, set) /\ Relay(v, s, <<out>>)
           /\ UNCHANGED <<link, left, past>>
        \/ Ignore(v, s) /\ UNCHANGED <<chan, link, left, past>>
    BY <1>2 DEF MsMode, Accepts
  <1> HIDE DEF m, c
  <1>5. ASSUME NoLong => m.ts <= c.ts PROVE set \in FairChannel /\ out \in FairMessage
    <2>1. NoLong => m.given <= c.ts
      BY <1>2, <1>3, <1>5
    <2> QED BY <1>2, <1>3, <2>1, SetModeFair, TmodeFair
  <1> HIDE DEF set, out
  <1> QED BY <1>1, <1>4, <1>5, HandlerFair, DroppedFair

LEMMA MsBmaskFair ==
    ASSUME Fair, NEW s \in Server, NEW v \in Server, MsBmask(s, v)
    PROVE  Fair'
  <1> DEFINE m == Line(v, s)
             c == chan[s]
             banned == [c EXCEPT !.bans = @ \cup m.bans]
             out == [m EXCEPT !.ts = c.ts]
  <1>1. v \in Peers(s) /\ queue[<<v, s>>] # <<>> /\ m \in FairMessage /\ m.type \in {"BMASK"}
    BY LineFair DEF MsBmask, Fair
  <1>2. c \in FairChannel /\ c.ts \in Nat /\ m.bans \in SUBSET User
    BY <1>1, MessageFields, ChannelFields DEF Fair
  <1>3. \/ Set(s, banned) /\ Relay(v, s, <<out>>) /\ UNCHANGED <<link, left, past>>
        \/ Ignore(v, s) /\ UNCHANGED <<chan, link, left, past>>
    BY DEF MsBmask
  <1> HIDE DEF m, c
  <1>4. banned \in FairChannel
    BY <1>2 DEF FairChannel, Channel
  <1>5. out \in FairMessage
    BY <1>1, <1>2, RestampedFair
  <1> HIDE DEF banned, out
  <1> QED BY <1>1, <1>3, <1>4, <1>5, HandlerFair, DroppedFair

LEMMA MsTopicFair ==
    ASSUME Fair, NEW s \in Server, NEW v \in Server, MsTopic(s, v)
    PROVE  Fair'
  <1> DEFINE m == Line(v, s)
  <1>1. v \in Peers(s) /\ queue[<<v, s>>] # <<>> /\ m \in FairMessage /\ m.type \in {"TOPIC"}
    BY LineFair DEF MsTopic, Fair
  <1>2. chan[s] \in FairChannel /\ m.topic \in Topic \cup {"none"}
    BY <1>1, MessageFields DEF Fair
  <1>3. \/ /\ \E t \in Clock[s] : Set(s, SetTopic(chan[s], m.topic, t))
           /\ Relay(v, s, <<m>>) /\ UNCHANGED <<link, left, past>>
        \/ Ignore(v, s) /\ UNCHANGED <<chan, link, left, past>>
    BY DEF MsTopic
  <1> HIDE DEF m
  <1>4. ASSUME NEW t \in Clock[s] PROVE SetTopic(chan[s], m.topic, t) \in FairChannel
    <2>1. t \in Nat
      BY ChannelAssumption
    <2> QED BY <1>2, <2>1, SetTopicFair
  <1> QED BY <1>1, <1>3, <1>4, HandlerFair, DroppedFair

LEMMA MsTburstFair ==
    ASSUME Fair, NEW s \in Server, NEW v \in Server, MsTburst(s, v)
    PROVE  Fair'
  <1> DEFINE m == Line(v, s)
             c == chan[s]
             accept == m.ts < c.ts \/ (m.ts = c.ts /\ m.time > c.topictime)
             d == IF accept THEN SetTopic(c, m.topic, m.time) ELSE c
  <1>1. v \in Peers(s) /\ queue[<<v, s>>] # <<>> /\ m \in FairMessage /\ m.type \in {"TBURST"}
    BY LineFair DEF MsTburst, Fair
  <1>2. c \in FairChannel /\ m.topic \in Topic \cup {"none"} /\ m.time \in Nat
    BY <1>1, MessageFields DEF Fair
  <1>3. \/ Set(s, d) /\ Relay(v, s, <<m>>) /\ UNCHANGED <<link, left, past>>
        \/ Ignore(v, s) /\ UNCHANGED <<chan, link, left, past>>
    BY DEF MsTburst
  <1> HIDE DEF m, c, accept
  <1>4. d \in FairChannel
    BY <1>2, SetTopicFair
  <1> HIDE DEF d
  <1> QED BY <1>1, <1>3, <1>4, HandlerFair, DroppedFair

-----------------------------------------------------------------------------
(* Links.                                                                  *)

LEMMA BurstFair ==
    ASSUME Fair, NEW s \in Server
    PROVE  Burst(s) \in Seq(FairMessage)
  <1> DEFINE c == chan[s]
             sjoin == SjoinMsg(c.ts, c.modes, c.member, c.op)
             bmask == [type |-> "BMASK", ts |-> c.ts, bans |-> c.bans]
             tburst == [type |-> "TBURST", ts |-> c.ts, topic |-> c.topic, time |-> c.topictime]
             bans == IF c.bans = {} THEN <<>> ELSE <<bmask>>
             topics == IF c.topictime = 0 THEN <<>> ELSE <<tburst>>
  <1>1. c \in FairChannel
    BY DEF Fair
  <1>2. Burst(s) = IF Exists(c) THEN <<sjoin>> \o bans \o topics ELSE <<>>
    BY DEF Burst
  <1> HIDE DEF c
  <1>3. sjoin \in FairMessage
    BY <1>1, ChannelFields, SjoinFair
  <1>4. bmask \in FairMessage /\ tburst \in FairMessage
    BY <1>1, ChannelFields, OtherFair
  <1> HIDE DEF sjoin, bmask, tburst
  <1>5. <<sjoin>> \in Seq(FairMessage) /\ bans \in Seq(FairMessage) /\ topics \in Seq(FairMessage)
    BY <1>3, <1>4, ShortSeq, EmptySeq
  <1> HIDE DEF bans, topics
  <1>6. <<sjoin>> \o bans \in Seq(FairMessage)
    BY <1>5, ConcatProperties
  <1>7. <<sjoin>> \o bans \o topics \in Seq(FairMessage)
    BY <1>5, <1>6, ConcatProperties
  <1> QED BY <1>2, <1>7, EmptySeq

LEMMA ConnectFair ==
    ASSUME Fair, NEW s \in Server, NEW v \in Server, Connect(s, v)
    PROVE  Fair'
  <1>1. <<[type |-> "SERVER"]>> \o Burst(v) \in Seq(FairMessage)
    BY OtherFair, ShortSeq, BurstFair, ConcatProperties
  <1>2. queue' \in [Link -> Seq(FairMessage)]
    BY <1>1 DEF Connect, Fair
  <1>3. link' \in [Link -> {"down", "connecting", "up"}]
    BY DEF Connect, Fair
  <1>4. past' \subseteq Past
    BY DEF Connect, Fair, Past
  <1> QED BY <1>2, <1>3, <1>4 DEF Connect, Fair

LEMMA ServerEstabFair ==
    ASSUME Fair, NEW s \in Server, NEW v \in Server, ServerEstab(s, v)
    PROVE  Fair'
  <1>1. v \in Peers(s) /\ queue[<<v, s>>] # <<>>
    BY LineFair DEF ServerEstab, Fair
  <1>2. \A t \in Peers(s) : ToOne(s, v, Burst(s))[t] \in Seq(FairMessage)
    BY BurstFair, EmptySeq DEF ToOne
  <1>3. queue' \in [Link -> Seq(FairMessage)]
    BY <1>1, <1>2, AnswerFair DEF ServerEstab, Fair
  <1>4. link' \in [Link -> {"down", "connecting", "up"}]
    BY DEF ServerEstab, Fair
  <1> QED BY <1>3, <1>4 DEF ServerEstab, Fair

LEMMA DropLinkFair ==
    ASSUME Fair, NEW s \in Server, NEW v \in Server, NEW toV \in Seq(FairMessage),
           NEW why \in SUBSET Past, DropLink(s, v, toV, why),
           left' \in [Event -> Nat], (NoLong => left'["long"] = 0)
    PROVE  Fair'
  <1>1. chan' \in [Server -> FairChannel] /\ past' \subseteq Past
    BY LeaveFair DEF DropLink
  <1>2. link' \in [Link -> {"down", "connecting", "up"}]
    BY DEF DropLink, Fair
  <1> DEFINE squit == [type |-> "SQUIT", server |-> v]
  <1>3. squit \in FairMessage
    BY OtherFair
  <1>4. ASSUME NEW l \in Link
        PROVE  /\ queue'[l] \in {<<>>, toV, Append(queue[l], squit), queue[l]}
    BY DEF DropLink
  <1> HIDE DEF squit
  <1>5. ASSUME NEW l \in Link PROVE queue'[l] \in Seq(FairMessage)
    <2>1. queue[l] \in Seq(FairMessage)
      BY DEF Fair
    <2>2. Append(queue[l], squit) \in Seq(FairMessage)
      BY <1>3, <2>1, AppendProperties
    <2> QED BY <1>4, <2>1, <2>2, EmptySeq
  <1>6. queue' \in [Link -> Seq(FairMessage)]
    BY <1>5 DEF DropLink
  <1> QED BY <1>1, <1>2, <1>6 DEF Fair

LEMMA BreakFair ==
    ASSUME Fair, NEW s \in Server, NEW v \in Server, Break(s, v)
    PROVE  Fair'
  <1>1. left' \in [Event -> Nat] /\ (NoLong => left'["long"] = 0)
    BY SpendType DEF Break, Fair, Event
  <1> DEFINE q == queue[<<s, v>>]
             close == [type |-> "CLOSE"]
  <1>2. q \in Seq(FairMessage) /\ Len(q) \in Nat
    BY LenProperties DEF Break, Fair
  <1>3. CASE DropLink(s, v, <<>>, Crossed)
    BY <1>1, <1>3, HistoryType, EmptySeq, DropLinkFair
  <1>4. ASSUME NEW k \in 0..Len(q), DropLink(s, v, Append(SubSeq(q, 1, k), close), Crossed)
        PROVE  Fair'
    <2>1. close \in FairMessage
      BY OtherFair
    <2> HIDE DEF q, close
    <2>2. \A i \in 1..k : q[i] \in FairMessage
      BY <1>2, ElementOfSeq
    <2>3. SubSeq(q, 1, k) \in Seq(FairMessage)
      <3>1. 1 \in Int /\ k \in Int
        BY <1>2
      <3> QED BY <2>2, <3>1, SubSeqProperties
    <2>4. Append(SubSeq(q, 1, k), close) \in Seq(FairMessage)
      BY <2>1, <2>3, AppendProperties
    <2> QED BY <1>1, <1>4, <2>4, HistoryType, DropLinkFair
  <1> QED BY <1>3, <1>4 DEF Break

LEMMA ReadCloseFair ==
    ASSUME Fair, NEW s \in Server, NEW v \in Server, ReadClose(s, v)
    PROVE  Fair'
  <1>1. left' \in [Event -> Nat] /\ (NoLong => left'["long"] = 0)
    BY DEF ReadClose, Fair
  <1>2. DropLink(s, v, <<>>, {}) /\ {} \in SUBSET Past /\ <<>> \in Seq(FairMessage)
    BY EmptySeq DEF ReadClose
  <1> QED BY <1>1, <1>2, DropLinkFair

LEMMA MsSquitFair ==
    ASSUME Fair, NEW s \in Server, NEW v \in Server, MsSquit(s, v)
    PROVE  Fair'
  <1> DEFINE m == Line(v, s)
  <1>1. v \in Peers(s) /\ queue[<<v, s>>] # <<>> /\ m \in FairMessage
    BY LineFair DEF MsSquit, Fair
  <1>2. chan' \in [Server -> FairChannel] /\ past' \subseteq Past
    BY LeaveFair DEF MsSquit
  <1>3. queue' \in [Link -> Seq(FairMessage)]
    BY <1>1, RelayFair DEF MsSquit, Fair
  <1> QED BY <1>2, <1>3 DEF MsSquit, Fair

-----------------------------------------------------------------------------
(* The theorems.                                                           *)

LEMMA InitFair ==
    ASSUME Init
    PROVE  Fair
  <1>1. chan \in [Server -> FairChannel]
    BY NoChannelFair DEF Init
  <1>2. queue \in [Link -> Seq(FairMessage)]
    BY EmptySeq DEF Init
  <1>3. left \in [Event -> Nat] /\ (NoLong => left["long"] = 0)
    BY ChannelBoundAssumption DEF Init, NoLong
  <1> QED BY <1>1, <1>2, <1>3 DEF Init, Fair

LEMMA StepFair == Fair /\ [Next]_vars => Fair'
  <1> SUFFICES ASSUME Fair, [Next]_vars PROVE Fair'
    OBVIOUS
  <1>1. CASE Local
    BY <1>1, LocalFair
  <1>2. ASSUME NEW s \in Server, NEW v \in Server, Receive(s, v)
        PROVE  Fair'
    BY <1>2, SjoinWinsFair, SjoinMergesFair, SjoinLosesFair, MsJoinFair, MsLeaveFair, MsModeFair,
       MsBmaskFair, MsTopicFair, MsTburstFair, ServerEstabFair, ReadCloseFair, MsSquitFair
       DEF Receive
  <1>3. ASSUME NEW s \in Server, NEW v \in Server, Connect(s, v) \/ Break(s, v)
        PROVE  Fair'
    BY <1>3, ConnectFair, BreakFair
  <1>4. CASE UNCHANGED vars
    BY <1>4 DEF vars, Fair
  <1> QED BY <1>1, <1>2, <1>3, <1>4 DEF Next

\* The inductive invariant: everything has its type and, with no long mode change, no
\* channel and no line on its way names an operator by a TS newer than the one it carries
\* (ms_sjoin, ms_tmode, send_members).
THEOREM FairAlways == Spec => []Fair
  <1> QED BY InitFair, StepFair, PTL DEF Spec

\* As long as every mode change fits on one line, nobody is ever an operator by a TS
\* newer than the channel's: the hack the TS rules are there to prevent.
THEOREM NoHackedOps == ASSUME NoLong PROVE Spec => []OpsOfThisTS
  <1>1. NoLong /\ Fair => OpsOfThisTS
    BY ChannelFields DEF Fair, OpsOfThisTS
  <1> QED BY <1>1, FairAlways, PTL

\* The variables of ChannelTS have their types.
THEOREM ChannelTypes == Spec => []TypeOK
  <1>1. FairChannel \subseteq Channel /\ FairMessage \subseteq Message
    BY DEF FairChannel, FairMessage
  <1>2. Seq(FairMessage) \subseteq Seq(Message)
    BY <1>1, SeqMonotonic
  <1>3. Fair => TypeOK
    BY <1>1, <1>2 DEF Fair, TypeOK
  <1> QED BY <1>3, FairAlways, PTL

-----------------------------------------------------------------------------
(* Who is on the channel once the lines on their way are parsed.           *)

\* v is the neighbour through which s knows u.
Way(u, s, v) == v \in Peers(s) /\ Home[u] \in Side[<<s, v>>]

Has(s, u) == u \in chan[s].member

\* A line that puts u on the channel, a KICK of u, a line that takes u off it at s.
Adds(m, u) ==
    \/ m.type = "SJOIN" /\ u \in m.nicks
    \/ m.type = "JOIN" /\ m.uid = u

Kicks(m, u) == m.type = "KICK" /\ m.uid = u

Takes(s, m, u) ==
    \/ m.type = "PART" /\ m.uid = u
    \/ Kicks(m, u)
    \/ m.type = "SQUIT" /\ u \in Beyond(s, m.server)
    \/ m.type = "CLOSE"

\* Is u on the channel at s, whose members are M, when the first n lines of q are parsed?
After(s, u, q, n, M) ==
    \/ /\ u \in M
       /\ \A j \in 1..n : ~Takes(s, q[j], u)
    \/ \E i \in 1..n : Adds(q[i], u) /\ \A j \in (i + 1)..n : ~Takes(s, q[j], u)

AtLast(s, u, q, M) == After(s, u, q, Len(q), M)

KickIn(q, u) == \E i \in 1..Len(q) : Kicks(q[i], u)
AddIn(q, u) == \E i \in 1..Len(q) : Adds(q[i], u)

\* No line that puts u on the channel finds u there already.
AddsOnce(s, u, q, M) == \A n \in 1..Len(q) : Adds(q[n], u) => ~After(s, u, q, n - 1, M)

\* Nobody is put on the channel and taken off it by one line.
LEMMA AddsOrTakes ==
    ASSUME NEW s, NEW m, NEW u
    PROVE  ~(Adds(m, u) /\ Takes(s, m, u)) /\ (Kicks(m, u) => Takes(s, m, u))
  BY DEF Adds, Takes, Kicks

\* One more line.
LEMMA AfterNext ==
    ASSUME NEW s, NEW u, NEW q, NEW n \in Nat, NEW M
    PROVE  After(s, u, q, n + 1, M) <=>
             \/ Adds(q[n + 1], u)
             \/ After(s, u, q, n, M) /\ ~Takes(s, q[n + 1], u)
  <1> DEFINE A(i) == Adds(q[i], u)
             T(j) == Takes(s, q[j], u)
  <1>1. After(s, u, q, n + 1, M) <=>
          \/ u \in M /\ \A j \in 1..(n + 1) : ~T(j)
          \/ \E i \in 1..(n + 1) : A(i) /\ \A j \in (i + 1)..(n + 1) : ~T(j)
    BY DEF After
  <1>2. After(s, u, q, n, M) <=>
          \/ u \in M /\ \A j \in 1..n : ~T(j)
          \/ \E i \in 1..n : A(i) /\ \A j \in (i + 1)..n : ~T(j)
    BY DEF After
  <1> HIDE DEF A, T
  <1>3. (\A j \in 1..(n + 1) : ~T(j)) <=> (\A j \in 1..n : ~T(j)) /\ ~T(n + 1)
    OBVIOUS
  <1>4. (\E i \in 1..(n + 1) : A(i) /\ \A j \in (i + 1)..(n + 1) : ~T(j)) <=>
          \/ A(n + 1)
          \/ (\E i \in 1..n : A(i) /\ \A j \in (i + 1)..n : ~T(j)) /\ ~T(n + 1)
    <2>1. ASSUME NEW i \in 1..n
          PROVE  (\A j \in (i + 1)..(n + 1) : ~T(j)) <=> (\A j \in (i + 1)..n : ~T(j)) /\ ~T(n + 1)
      OBVIOUS
    <2>2. \A j \in ((n + 1) + 1)..(n + 1) : ~T(j)
      OBVIOUS
    <2>3. 1..(n + 1) = (1..n) \cup {n + 1}
      OBVIOUS
    <2> QED BY <2>1, <2>2, <2>3
  <1>5. After(s, u, q, n + 1, M) <=>
          A(n + 1) \/ (After(s, u, q, n, M) /\ ~T(n + 1))
    BY <1>1, <1>2, <1>3, <1>4
  <1> QED BY <1>5 DEF A, T

\* No line.
LEMMA AfterNone ==
    ASSUME NEW s, NEW u, NEW q, NEW M
    PROVE  After(s, u, q, 0, M) <=> u \in M
  BY DEF After

\* The same lines.
LEMMA AfterSame ==
    ASSUME NEW s, NEW u, NEW q, NEW r, NEW n \in Nat, NEW M, \A i \in 1..n : q[i] = r[i]
    PROVE  After(s, u, q, n, M) <=> After(s, u, r, n, M)
  <1>1. (\A j \in 1..n : ~Takes(s, q[j], u)) <=> (\A j \in 1..n : ~Takes(s, r[j], u))
    OBVIOUS
  <1>2. ASSUME NEW i \in 1..n
        PROVE  /\ Adds(q[i], u) <=> Adds(r[i], u)
               /\ (\A j \in (i + 1)..n : ~Takes(s, q[j], u)) <=>
                     (\A j \in (i + 1)..n : ~Takes(s, r[j], u))
    <2>1. \A j \in (i + 1)..n : q[j] = r[j]
      OBVIOUS
    <2> QED BY <2>1
  <1> QED BY <1>1, <1>2 DEF After

\* The more members now, the more later.
LEMMA AfterGrows ==
    ASSUME NEW s, NEW u, NEW q, NEW n, NEW M, NEW N, u \in M => u \in N, After(s, u, q, n, M)
    PROVE  After(s, u, q, n, N)
  BY DEF After

\* The first line is parsed: N are the members then.
LEMMA AfterTail ==
    ASSUME NEW s, NEW u, NEW q, NEW r, NEW n \in Nat, NEW M, NEW N,
           \A i \in 1..n : r[i] = q[i + 1],
           u \in N <=> Adds(q[1], u) \/ (u \in M /\ ~Takes(s, q[1], u))
    PROVE  After(s, u, r, n, N) <=> After(s, u, q, n + 1, M)
  <1> DEFINE A(i) == Adds(q[i], u)
             T(j) == Takes(s, q[j], u)
             B(i) == Adds(r[i], u)
             S(j) == Takes(s, r[j], u)
  <1>1. After(s, u, q, n + 1, M) <=>
          \/ u \in M /\ \A j \in 1..(n + 1) : ~T(j)
          \/ \E i \in 1..(n + 1) : A(i) /\ \A j \in (i + 1)..(n + 1) : ~T(j)
    BY DEF After
  <1>2. After(s, u, r, n, N) <=>
          \/ u \in N /\ \A j \in 1..n : ~S(j)
          \/ \E i \in 1..n : B(i) /\ \A j \in (i + 1)..n : ~S(j)
    BY DEF After
  <1>3. \A i \in 1..n : (B(i) <=> A(i + 1)) /\ (S(i) <=> T(i + 1))
    OBVIOUS
  <1>4. u \in N <=> A(1) \/ (u \in M /\ ~T(1))
    OBVIOUS
  <1> HIDE DEF A, T, B, S
  <1>5. (\A j \in 1..n : ~S(j)) <=> (\A j \in 2..(n + 1) : ~T(j))
    <2>1. ASSUME NEW j \in 2..(n + 1), \A k \in 1..n : ~S(k) PROVE ~T(j)
      <3>1. j - 1 \in 1..n /\ (j - 1) + 1 = j
        OBVIOUS
      <3> QED BY <1>3, <2>1, <3>1
    <2>2. ASSUME NEW j \in 1..n, \A k \in 2..(n + 1) : ~T(k) PROVE ~S(j)
      <3>1. j + 1 \in 2..(n + 1)
        OBVIOUS
      <3> QED BY <1>3, <2>2, <3>1
    <2> QED BY <2>1, <2>2
  <1>6. (\A j \in 1..(n + 1) : ~T(j)) <=> ~T(1) /\ (\A j \in 2..(n + 1) : ~T(j))
    OBVIOUS
  <1>7. ASSUME NEW i \in 1..n
        PROVE  (\A j \in (i + 1)..n : ~S(j)) <=> (\A j \in ((i + 1) + 1)..(n + 1) : ~T(j))
    <2>1. ASSUME NEW j \in ((i + 1) + 1)..(n + 1), \A k \in (i + 1)..n : ~S(k) PROVE ~T(j)
      <3>1. j - 1 \in (i + 1)..n /\ j - 1 \in 1..n /\ (j - 1) + 1 = j
        OBVIOUS
      <3> QED BY <1>3, <2>1, <3>1
    <2>2. ASSUME NEW j \in (i + 1)..n, \A k \in ((i + 1) + 1)..(n + 1) : ~T(k) PROVE ~S(j)
      <3>1. j + 1 \in ((i + 1) + 1)..(n + 1) /\ j \in 1..n
        OBVIOUS
      <3> QED BY <1>3, <2>2, <3>1
    <2> QED BY <2>1, <2>2
  <1>8. (\E i \in 1..(n + 1) : A(i) /\ \A j \in (i + 1)..(n + 1) : ~T(j)) <=>
          \/ A(1) /\ (\A j \in 2..(n + 1) : ~T(j))
          \/ \E i \in 1..n : A(i + 1) /\ \A j \in ((i + 1) + 1)..(n + 1) : ~T(j)
    <2>1. \A i \in 1..(n + 1) : i = 1 \/ (i - 1 \in 1..n /\ (i - 1) + 1 = i)
      BY ONLY n \in Nat
    <2>2. ASSUME NEW i \in 1..n PROVE i + 1 \in 1..(n + 1)
      OBVIOUS
    <2>3. 1 \in 1..(n + 1) /\ 1 + 1 = 2
      OBVIOUS
    <2> QED BY <2>1, <2>2, <2>3
  <1>9. (\E i \in 1..n : B(i) /\ \A j \in (i + 1)..n : ~S(j)) <=>
          \E i \in 1..n : A(i + 1) /\ \A j \in ((i + 1) + 1)..(n + 1) : ~T(j)
    BY <1>3, <1>7
  <1> QED BY <1>1, <1>2, <1>4, <1>5, <1>6, <1>8, <1>9

\* Lines that are about others.
LEMMA AfterPlain ==
    ASSUME NEW s, NEW u, NEW q, NEW n \in Nat, NEW k \in Nat, NEW M,
           \A j \in (n + 1)..(n + k) : ~Adds(q[j], u) /\ ~Takes(s, q[j], u)
    PROVE  After(s, u, q, n + k, M) <=> After(s, u, q, n, M)
  <1>1. (\A j \in 1..(n + k) : ~Takes(s, q[j], u)) <=> (\A j \in 1..n : ~Takes(s, q[j], u))
    OBVIOUS
  <1>2. ASSUME NEW i \in 1..n
        PROVE  (\A j \in (i + 1)..(n + k) : ~Takes(s, q[j], u)) <=>
                 (\A j \in (i + 1)..n : ~Takes(s, q[j], u))
    OBVIOUS
  <1>3. \A i \in 1..(n + k) : Adds(q[i], u) => i \in 1..n
    OBVIOUS
  <1>4. 1..n \subseteq 1..(n + k)
    OBVIOUS
  <1> QED BY <1>1, <1>2, <1>3, <1>4 DEF After

\* Lines are appended to a stream.
LEMMA Appended ==
    ASSUME NEW S, NEW q \in Seq(S), NEW ms \in Seq(S)
    PROVE  /\ q \o ms \in Seq(S) /\ Len(q \o ms) = Len(q) + Len(ms)
           /\ Len(q) \in Nat /\ Len(ms) \in Nat
           /\ \A i \in 1..Len(q) : (q \o ms)[i] = q[i]
           /\ \A i \in 1..Len(ms) : (q \o ms)[Len(q) + i] = ms[i]
           /\ \A j \in (Len(q) + 1)..(Len(q) + Len(ms)) :
                j - Len(q) \in 1..Len(ms) /\ (q \o ms)[j] = ms[j - Len(q)]
  <1>1. /\ q \o ms \in Seq(S) /\ Len(q \o ms) = Len(q) + Len(ms)
        /\ Len(q) \in Nat /\ Len(ms) \in Nat
        /\ \A i \in 1..(Len(q) + Len(ms)) :
             (q \o ms)[i] = IF i <= Len(q) THEN q[i] ELSE ms[i - Len(q)]
    BY ConcatProperties, LenProperties
  <1> DEFINE n == Len(q)
             k == Len(ms)
             r == q \o ms
  <1>2. /\ n \in Nat /\ k \in Nat
        /\ \A i \in 1..(n + k) : r[i] = IF i <= n THEN q[i] ELSE ms[i - n]
    BY <1>1
  <1> HIDE DEF n, k, r
  <1>3. \A i \in 1..n : r[i] = q[i]
    BY <1>2
  <1>4. ASSUME NEW i \in 1..k PROVE r[n + i] = ms[i]
    <2>1. n + i \in 1..(n + k) /\ ~(n + i <= n) /\ (n + i) - n = i
      BY <1>2
    <2> QED BY <1>2, <2>1
  <1>5. ASSUME NEW j \in (n + 1)..(n + k) PROVE j - n \in 1..k /\ r[j] = ms[j - n]
    <2>1. j \in 1..(n + k) /\ ~(j <= n) /\ j - n \in 1..k
      BY <1>2
    <2> QED BY <1>2, <2>1
  <1> QED BY <1>1, <1>3, <1>4, <1>5 DEF n, k, r

\* The first line is parsed.
LEMMA Parsed ==
    ASSUME NEW S, NEW q \in Seq(S), q # <<>>
    PROVE  /\ Tail(q) \in Seq(S) /\ Len(q) \in Nat /\ Len(q) = Len(Tail(q)) + 1
           /\ Len(Tail(q)) \in Nat /\ Head(q) = q[1] /\ 1 \in 1..Len(q)
           /\ \A i \in 1..Len(Tail(q)) : Tail(q)[i] = q[i + 1] /\ i + 1 \in 1..Len(q)
  <1>1. /\ Tail(q) \in Seq(S) /\ Len(Tail(q)) = Len(q) - 1 /\ Len(q) \in Nat
        /\ Len(Tail(q)) \in Nat
    BY HeadTailProperties, LenProperties
  <1>2. \A i \in 1..Len(Tail(q)) : Tail(q)[i] = q[i + 1]
    BY HeadTailProperties
  <1>3. Head(q) = q[1]
    BY HeadTailProperties
  <1>4. \A i \in 1..Len(Tail(q)) : i + 1 \in 1..Len(q)
    BY <1>1
  <1> QED BY <1>1, <1>2, <1>3, <1>4

\* The stream ends early.
LEMMA Cut ==
    ASSUME NEW S, NEW q \in Seq(S), NEW k \in 0..Len(q), NEW c \in S
    PROVE  LET r == Append(SubSeq(q, 1, k), c)
           IN  /\ r \in Seq(S) /\ Len(r) = k + 1 /\ k \in Nat /\ Len(q) \in Nat
               /\ \A i \in 1..k : r[i] = q[i] /\ i \in 1..Len(q)
               /\ r[k + 1] = c
  <1> DEFINE p == SubSeq(q, 1, k)
  <1>1. Len(q) \in Nat /\ k \in Nat /\ \A i \in 1..k : i \in 1..Len(q)
    BY LenProperties
  <1>2. p \in Seq(S) /\ Len(p) = k /\ \A i \in 1..k : p[i] = q[i]
    <2>1. 1 \in Int /\ k \in Int /\ \A i \in 1..k : q[i] \in S
      BY <1>1, ElementOfSeq
    <2>2. /\ SubSeq(q, 1, k) \in Seq(S)
          /\ Len(SubSeq(q, 1, k)) = IF 1 <= k THEN k - 1 + 1 ELSE 0
          /\ \A i \in 1..(k - 1 + 1) : SubSeq(q, 1, k)[i] = q[1 + i - 1]
      BY <2>1, SubSeqProperties
    <2> QED BY <1>1, <2>2
  <1> HIDE DEF p
  <1>3. /\ Append(p, c) \in Seq(S) /\ Len(Append(p, c)) = k + 1 /\ Append(p, c)[k + 1] = c
        /\ \A i \in 1..k : Append(p, c)[i] = q[i]
    BY <1>1, <1>2, AppendProperties
  <1> QED BY <1>1, <1>3 DEF p

-----------------------------------------------------------------------------
(* What becomes of a stream.                                               *)

\* A KICK or an addition is in q \o ms when it is in one of them.
LEMMA InAppended ==
    ASSUME NEW S, NEW q \in Seq(S), NEW ms \in Seq(S), NEW u
    PROVE  /\ KickIn(q \o ms, u) <=> KickIn(q, u) \/ KickIn(ms, u)
           /\ AddIn(q \o ms, u) <=> AddIn(q, u) \/ AddIn(ms, u)
  <1> DEFINE n == Len(q)
             k == Len(ms)
             r == q \o ms
  <1>1. /\ Len(r) = n + k /\ n \in Nat /\ k \in Nat /\ \A i \in 1..n : r[i] = q[i]
        /\ \A i \in 1..k : r[n + i] = ms[i]
        /\ \A j \in (n + 1)..(n + k) : j - n \in 1..k /\ r[j] = ms[j - n]
    BY Appended
  <1>2. /\ KickIn(r, u) <=> \E i \in 1..(n + k) : Kicks(r[i], u)
        /\ AddIn(r, u) <=> \E i \in 1..(n + k) : Adds(r[i], u)
        /\ KickIn(q, u) <=> \E i \in 1..n : Kicks(q[i], u)
        /\ AddIn(q, u) <=> \E i \in 1..n : Adds(q[i], u)
        /\ KickIn(ms, u) <=> \E i \in 1..k : Kicks(ms[i], u)
        /\ AddIn(ms, u) <=> \E i \in 1..k : Adds(ms[i], u)
    BY <1>1 DEF KickIn, AddIn
  <1> HIDE DEF n, k, r
  <1>3. \A i \in 1..(n + k) : i \in 1..n \/ i \in (n + 1)..(n + k)
    BY <1>1
  <1>4. /\ \A i \in 1..n : i \in 1..(n + k)
        /\ \A i \in 1..k : n + i \in 1..(n + k)
    BY <1>1
  <1>5. KickIn(r, u) <=> KickIn(q, u) \/ KickIn(ms, u)
    BY <1>1, <1>2, <1>3, <1>4
  <1>6. AddIn(r, u) <=> AddIn(q, u) \/ AddIn(ms, u)
    BY <1>1, <1>2, <1>3, <1>4
  <1> QED BY <1>5, <1>6 DEF r

\* ... and in q when it is its first line or in the rest.
LEMMA InParsed ==
    ASSUME NEW S, NEW q \in Seq(S), q # <<>>, NEW u
    PROVE  /\ KickIn(q, u) <=> Kicks(Head(q), u) \/ KickIn(Tail(q), u)
           /\ AddIn(q, u) <=> Adds(Head(q), u) \/ AddIn(Tail(q), u)
  <1> DEFINE r == Tail(q)
             n == Len(r)
  <1>1. /\ n \in Nat /\ Len(q) = n + 1 /\ Head(q) = q[1]
        /\ \A i \in 1..n : r[i] = q[i + 1]
    BY Parsed
  <1>2. /\ KickIn(q, u) <=> \E i \in 1..(n + 1) : Kicks(q[i], u)
        /\ AddIn(q, u) <=> \E i \in 1..(n + 1) : Adds(q[i], u)
        /\ KickIn(r, u) <=> \E i \in 1..n : Kicks(r[i], u)
        /\ AddIn(r, u) <=> \E i \in 1..n : Adds(r[i], u)
    BY <1>1 DEF KickIn, AddIn
  <1> HIDE DEF n, r
  <1>3. /\ \A i \in 1..(n + 1) : i = 1 \/ (i - 1 \in 1..n /\ (i - 1) + 1 = i)
        /\ \A i \in 1..n : i + 1 \in 1..(n + 1)
        /\ 1 \in 1..(n + 1)
    BY <1>1
  <1>4. KickIn(q, u) <=> Kicks(q[1], u) \/ KickIn(r, u)
    BY <1>1, <1>2, <1>3
  <1>5. AddIn(q, u) <=> Adds(q[1], u) \/ AddIn(r, u)
    BY <1>1, <1>2, <1>3
  <1> QED BY <1>1, <1>4, <1>5 DEF r

\* With nothing on its way everybody stays where they are.
LEMMA AtLastEmpty ==
    ASSUME NEW s, NEW u, NEW M
    PROVE  /\ AtLast(s, u, <<>>, M) <=> u \in M
           /\ AddsOnce(s, u, <<>>, M) /\ ~KickIn(<<>>, u) /\ ~AddIn(<<>>, u)
  <1>1. Len(<<>>) = 0 /\ \A i \in 1..0 : FALSE
    OBVIOUS
  <1> QED BY <1>1, AfterNone DEF AtLast, AddsOnce, KickIn, AddIn

\* With more members at the start there are no fewer at the end.
LEMMA AtLastGrows ==
    ASSUME NEW s, NEW u, NEW q, NEW M, NEW N, u \in M => u \in N
    PROVE  /\ AtLast(s, u, q, M) => AtLast(s, u, q, N)
           /\ AddsOnce(s, u, q, N) => AddsOnce(s, u, q, M)
  BY AfterGrows DEF AtLast, AddsOnce

\* Lines that are about others are sent.
LEMMA AtLastPlain ==
    ASSUME NEW S, NEW q \in Seq(S), NEW ms \in Seq(S), NEW s, NEW u, NEW M,
           \A i \in 1..Len(ms) : ~Adds(ms[i], u) /\ ~Takes(s, ms[i], u)
    PROVE  /\ AtLast(s, u, q \o ms, M) <=> AtLast(s, u, q, M)
           /\ AddsOnce(s, u, q, M) => AddsOnce(s, u, q \o ms, M)
  <1> DEFINE n == Len(q)
             k == Len(ms)
             r == q \o ms
  <1>1. /\ Len(r) = n + k /\ n \in Nat /\ k \in Nat /\ \A i \in 1..n : r[i] = q[i]
        /\ \A j \in (n + 1)..(n + k) : j - n \in 1..k /\ r[j] = ms[j - n]
    BY Appended
  <1>2. \A j \in (n + 1)..(n + k) : ~Adds(r[j], u) /\ ~Takes(s, r[j], u)
    BY <1>1
  <1>3. AtLast(s, u, q, M) <=> After(s, u, q, n, M)
    BY DEF AtLast
  <1>4. AtLast(s, u, r, M) <=> After(s, u, r, n + k, M)
    BY <1>1 DEF AtLast
  <1>5. AddsOnce(s, u, q, M) <=> \A i \in 1..n : Adds(q[i], u) => ~After(s, u, q, i - 1, M)
    BY DEF AddsOnce
  <1>6. AddsOnce(s, u, r, M) <=> \A i \in 1..(n + k) : Adds(r[i], u) => ~After(s, u, r, i - 1, M)
    BY <1>1 DEF AddsOnce
  <1> HIDE DEF n, k, r
  <1>7. After(s, u, r, n + k, M) <=> After(s, u, r, n, M)
    BY <1>1, <1>2, AfterPlain
  <1>8. After(s, u, r, n, M) <=> After(s, u, q, n, M)
    BY <1>1, AfterSame
  <1>9. ASSUME NEW i \in 1..n PROVE After(s, u, r, i - 1, M) <=> After(s, u, q, i - 1, M)
    <2>1. i - 1 \in Nat /\ \A j \in 1..(i - 1) : j \in 1..n
      BY <1>1
    <2> QED BY <1>1, <2>1, AfterSame
  <1>10. \A i \in 1..(n + k) : i \in 1..n \/ i \in (n + 1)..(n + k)
    BY <1>1
  <1>11. AddsOnce(s, u, q, M) => AddsOnce(s, u, r, M)
    BY <1>1, <1>2, <1>5, <1>6, <1>9, <1>10
  <1> QED BY <1>3, <1>4, <1>7, <1>8, <1>11 DEF r

\* One line is sent.
LEMMA AtLastOne ==
    ASSUME NEW S, NEW q \in Seq(S), NEW m \in S, NEW s, NEW u, NEW M
    PROVE  /\ AtLast(s, u, q \o <<m>>, M) <=>
                Adds(m, u) \/ (AtLast(s, u, q, M) /\ ~Takes(s, m, u))
           /\ AddsOnce(s, u, q, M) /\ (Adds(m, u) => ~AtLast(s, u, q, M)) =>
                AddsOnce(s, u, q \o <<m>>, M)
  <1> DEFINE n == Len(q)
             r == q \o <<m>>
  <1>1. Len(r) = n + 1 /\ n \in Nat /\ (\A i \in 1..n : r[i] = q[i]) /\ r[n + 1] = m
    <2>1. <<m>> \in Seq(S) /\ Len(<<m>>) = 1 /\ <<m>>[1] = m /\ 1 \in 1..1
      OBVIOUS
    <2> QED BY <2>1, Appended
  <1>2. AtLast(s, u, q, M) <=> After(s, u, q, n, M)
    BY DEF AtLast
  <1>3. AtLast(s, u, r, M) <=> After(s, u, r, n + 1, M)
    BY <1>1 DEF AtLast
  <1>4. AddsOnce(s, u, q, M) <=> \A i \in 1..n : Adds(q[i], u) => ~After(s, u, q, i - 1, M)
    BY DEF AddsOnce
  <1>5. AddsOnce(s, u, r, M) <=> \A i \in 1..(n + 1) : Adds(r[i], u) => ~After(s, u, r, i - 1, M)
    BY <1>1 DEF AddsOnce
  <1> HIDE DEF n, r
  <1>6. \A i \in 0..n : After(s, u, r, i, M) <=> After(s, u, q, i, M)
    <2>1. ASSUME NEW i \in 0..n PROVE i \in Nat /\ \A j \in 1..i : j \in 1..n
      BY <1>1
    <2> QED BY <1>1, <2>1, AfterSame
  <1>7. n \in 0..n
    BY <1>1
  <1>8. After(s, u, r, n + 1, M) <=> Adds(m, u) \/ (After(s, u, q, n, M) /\ ~Takes(s, m, u))
    BY <1>1, <1>6, <1>7, AfterNext
  <1>9. /\ \A i \in 1..(n + 1) : i \in 1..n \/ i = n + 1
        /\ \A i \in 1..n : i - 1 \in 0..n
        /\ (n + 1) - 1 = n
    BY <1>1
  <1>10. AddsOnce(s, u, q, M) /\ (Adds(m, u) => ~AtLast(s, u, q, M)) => AddsOnce(s, u, r, M)
    BY <1>1, <1>2, <1>4, <1>5, <1>6, <1>7, <1>9
  <1> QED BY <1>2, <1>3, <1>8, <1>10 DEF r

\* The first line is parsed.
LEMMA AtLastParsed ==
    ASSUME NEW S, NEW q \in Seq(S), q # <<>>, NEW s, NEW u, NEW M, NEW N,
           u \in N <=> Adds(Head(q), u) \/ (u \in M /\ ~Takes(s, Head(q), u))
    PROVE  /\ AtLast(s, u, Tail(q), N) <=> AtLast(s, u, q, M)
           /\ AddsOnce(s, u, q, M) => AddsOnce(s, u, Tail(q), N)
  <1> DEFINE r == Tail(q)
             n == Len(r)
  <1>1. /\ n \in Nat /\ Len(q) = n + 1 /\ Head(q) = q[1]
        /\ \A i \in 1..n : r[i] = q[i + 1]
    BY Parsed
  <1>2. AtLast(s, u, q, M) <=> After(s, u, q, n + 1, M)
    BY <1>1 DEF AtLast
  <1>3. AtLast(s, u, r, N) <=> After(s, u, r, n, N)
    BY DEF AtLast
  <1>4. AddsOnce(s, u, q, M) <=> \A i \in 1..(n + 1) : Adds(q[i], u) => ~After(s, u, q, i - 1, M)
    BY <1>1 DEF AddsOnce
  <1>5. AddsOnce(s, u, r, N) <=> \A i \in 1..n : Adds(r[i], u) => ~After(s, u, r, i - 1, N)
    BY DEF AddsOnce
  <1> HIDE DEF n, r
  <1>6. ASSUME NEW i \in 0..n PROVE After(s, u, r, i, N) <=> After(s, u, q, i + 1, M)
    <2>1. i \in Nat /\ \A j \in 1..i : j \in 1..n
      BY <1>1
    <2> QED BY <1>1, <2>1, AfterTail
  <1>7. n \in 0..n
    BY <1>1
  <1>8. \A i \in 1..n : i + 1 \in 1..(n + 1) /\ i - 1 \in 0..n /\ (i - 1) + 1 = (i + 1) - 1
    BY <1>1
  <1>9. AddsOnce(s, u, q, M) => AddsOnce(s, u, r, N)
    BY <1>1, <1>4, <1>5, <1>6, <1>8
  <1> QED BY <1>2, <1>3, <1>6, <1>7, <1>9 DEF r

\* The stream ends early: the neighbour takes everybody off the channel at its end.
LEMMA AtLastCut ==
    ASSUME NEW q, NEW r, NEW k \in Nat, Len(r) = k + 1, r[k + 1].type = "CLOSE",
           \A i \in 1..k : r[i] = q[i] /\ i \in 1..Len(q),
           NEW s, NEW u, NEW M
    PROVE  /\ ~AtLast(s, u, r, M)
           /\ AddsOnce(s, u, q, M) => AddsOnce(s, u, r, M)
           /\ KickIn(r, u) => KickIn(q, u)
           /\ AddIn(r, u) => AddIn(q, u)
  <1>1. /\ Len(r) = k + 1 /\ k \in Nat
        /\ \A i \in 1..k : r[i] = q[i] /\ i \in 1..Len(q)
    OBVIOUS
  <1>2. Takes(s, r[k + 1], u) /\ ~Adds(r[k + 1], u) /\ ~Kicks(r[k + 1], u)
    BY DEF Takes, Adds, Kicks
  <1>3. \A i \in 1..(k + 1) : i \in 1..k \/ i = k + 1
    BY <1>1
  <1>4. ~AtLast(s, u, r, M)
    BY <1>1, <1>2, AfterNext DEF AtLast
  <1>5. ASSUME NEW i \in 1..k PROVE After(s, u, r, i - 1, M) <=> After(s, u, q, i - 1, M)
    <2>1. i - 1 \in Nat /\ \A j \in 1..(i - 1) : j \in 1..k
      BY <1>1
    <2> QED BY <1>1, <2>1, AfterSame
  <1>6. AddsOnce(s, u, q, M) => AddsOnce(s, u, r, M)
    BY <1>1, <1>2, <1>3, <1>5 DEF AddsOnce
  <1>7. KickIn(r, u) => KickIn(q, u)
    BY <1>1, <1>2, <1>3 DEF KickIn
  <1>8. AddIn(r, u) => AddIn(q, u)
    BY <1>1, <1>2, <1>3 DEF AddIn
  <1> QED BY <1>4, <1>6, <1>7, <1>8

-----------------------------------------------------------------------------
(* A user at two neighbours.                                               *)

\* Of the two ends of a link v, the near one, is the neighbour through which s, the far
\* one, knows u.  D: what v sent to s; U: what s sent to v; M and N: the members at s and
\* at v; near and far: the link at v and at s.
Basic(D, U, M, near, far, s, u) ==
    /\ far # "up" => u \notin M
    /\ near = "connecting" => D = <<>> /\ ~KickIn(U, u)
    /\ near # "up" => ~AtLast(s, u, D, M)

\* s is told all that v knows, unless a KICK is on its way to v.
Exact(D, U, M, N, near, far, s, u) ==
    /\ near = "up" /\ u \notin N => ~AtLast(s, u, D, M)
    /\ near = "up" /\ far # "down" /\ u \in N => KickIn(U, u) \/ AtLast(s, u, D, M)
    /\ AddsOnce(s, u, D, M)
    /\ KickIn(U, u) => ~AddIn(D, u) /\ u \notin M

\* Without a line that adds, who is off stays off.
LEMMA NotAdded ==
    ASSUME NEW s, NEW u, NEW D, NEW M, u \notin M, ~AddIn(D, u)
    PROVE  ~AtLast(s, u, D, M)
  BY DEF AtLast, After, AddIn

\* v tells s what becomes of u.
LEMMA NearTells ==
    ASSUME NEW S, NEW D \in Seq(S), NEW ms \in Seq(S), NEW U, NEW M, NEW N, NEW N2,
           NEW near, NEW far, NEW s, NEW u, NEW D2,
           near = "up" => D2 = D \o ms, near # "up" => D2 = D,
           Basic(D, U, M, near, far, s, u), Exact(D, U, M, N, near, far, s, u),
           \/ /\ u \in N2 <=> u \in N
              /\ \A i \in 1..Len(ms) : ~Adds(ms[i], u) /\ ~Takes(s, ms[i], u)
           \/ /\ u \in N2 /\ u \notin N /\ ~KickIn(U, u)
              /\ \E m \in S : ms = <<m>> /\ Adds(m, u)
           \/ /\ u \notin N2
              /\ \E m \in S : ms = <<m>> /\ Takes(s, m, u)
    PROVE  Exact(D2, U, M, N2, near, far, s, u)
  <1>1. CASE near # "up"
    BY <1>1 DEF Exact
  <1>2. CASE /\ near = "up" /\ (u \in N2 <=> u \in N)
             /\ \A i \in 1..Len(ms) : ~Adds(ms[i], u) /\ ~Takes(s, ms[i], u)
    <2>1. /\ AtLast(s, u, D \o ms, M) <=> AtLast(s, u, D, M)
          /\ AddsOnce(s, u, D, M) => AddsOnce(s, u, D \o ms, M)
      BY <1>2, AtLastPlain
    <2>2. AddIn(D \o ms, u) <=> AddIn(D, u)
      <3>1. ~AddIn(ms, u)
        BY <1>2 DEF AddIn
      <3>2. AddIn(D \o ms, u) <=> AddIn(D, u) \/ AddIn(ms, u)
        BY InAppended
      <3> QED BY <3>1, <3>2
    <2> QED BY <1>2, <2>1, <2>2 DEF Exact
  <1>3. ASSUME near = "up", u \in N2, u \notin N, ~KickIn(U, u), NEW m \in S, ms = <<m>>,
               Adds(m, u)
        PROVE  Exact(D2, U, M, N2, near, far, s, u)
    <2>1. ~AtLast(s, u, D, M) /\ AddsOnce(s, u, D, M)
      BY <1>3 DEF Exact
    <2>2. AtLast(s, u, D \o <<m>>, M) /\ AddsOnce(s, u, D \o <<m>>, M)
      BY <1>3, <2>1, AtLastOne
    <2> QED BY <1>3, <2>2 DEF Exact
  <1>4. ASSUME near = "up", u \notin N2, NEW m \in S, ms = <<m>>, Takes(s, m, u)
        PROVE  Exact(D2, U, M, N2, near, far, s, u)
    <2>1. ~Adds(m, u)
      BY <1>4, AddsOrTakes
    <2>2. /\ ~AtLast(s, u, D \o <<m>>, M)
          /\ AddsOnce(s, u, D, M) => AddsOnce(s, u, D \o <<m>>, M)
      BY <1>4, <2>1, AtLastOne
    <2>3. AddIn(D \o ms, u) <=> AddIn(D, u)
      <3>1. ms \in Seq(S) /\ Len(ms) = 1 /\ \A i \in 1..1 : ms[i] = m
        BY <1>4
      <3>2. ~AddIn(ms, u)
        BY <2>1, <3>1 DEF AddIn
      <3>3. AddIn(D \o ms, u) <=> AddIn(D, u) \/ AddIn(ms, u)
        BY InAppended
      <3> QED BY <3>2, <3>3
    <2> QED BY <1>4, <2>2, <2>3 DEF Exact
  <1> QED BY <1>1, <1>2, <1>3, <1>4

\* ... and what it says to a link that is not up is nothing.
LEMMA NearTellsBasic ==
    ASSUME NEW D, NEW ms, NEW U, NEW M, NEW near, NEW far, NEW s, NEW u, NEW D2,
           near # "up" => D2 = D, Basic(D, U, M, near, far, s, u)
    PROVE  Basic(D2, U, M, near, far, s, u)
  BY DEF Basic

\* v parses a line of s, a KICK of u or a line that is not about u.
LEMMA NearHears ==
    ASSUME NEW S, NEW U \in Seq(S), U # <<>>, NEW D, NEW M, NEW N, NEW N2,
           NEW near, NEW far, NEW s, NEW u,
           \/ Kicks(Head(U), u) /\ u \notin N2
           \/ ~Kicks(Head(U), u) /\ (u \in N2 <=> u \in N),
           Basic(D, U, M, near, far, s, u)
    PROVE  /\ Basic(D, Tail(U), M, near, far, s, u)
           /\ Exact(D, U, M, N, near, far, s, u) => Exact(D, Tail(U), M, N2, near, far, s, u)
  <1>1. KickIn(U, u) <=> Kicks(Head(U), u) \/ KickIn(Tail(U), u)
    BY InParsed
  <1>2. Basic(D, Tail(U), M, near, far, s, u)
    BY <1>1 DEF Basic
  <1>3. ASSUME Exact(D, U, M, N, near, far, s, u)
        PROVE  Exact(D, Tail(U), M, N2, near, far, s, u)
    <2>1. CASE Kicks(Head(U), u) /\ u \notin N2
      <3>1. ~AddIn(D, u) /\ u \notin M
        BY <1>1, <1>3, <2>1 DEF Exact
      <3>2. ~AtLast(s, u, D, M)
        BY <3>1, NotAdded
      <3> QED BY <1>1, <1>3, <2>1, <3>2 DEF Exact
    <2>2. CASE ~Kicks(Head(U), u) /\ (u \in N2 <=> u \in N)
      BY <1>1, <1>3, <2>2 DEF Exact
    <2> QED BY <2>1, <2>2
  <1> QED BY <1>2, <1>3

\* s parses a line of v.
LEMMA FarHears ==
    ASSUME NEW S, NEW D \in Seq(S), D # <<>>, NEW U, NEW M, NEW M2, NEW N,
           NEW near, NEW far, NEW s, NEW u,
           u \in M2 <=> Adds(Head(D), u) \/ (u \in M /\ ~Takes(s, Head(D), u)),
           far # "up" => u \notin M2,
           Basic(D, U, M, near, far, s, u)
    PROVE  /\ Basic(Tail(D), U, M2, near, far, s, u)
           /\ Exact(D, U, M, N, near, far, s, u) => Exact(Tail(D), U, M2, N, near, far, s, u)
  <1>1. /\ AtLast(s, u, Tail(D), M2) <=> AtLast(s, u, D, M)
        /\ AddsOnce(s, u, D, M) => AddsOnce(s, u, Tail(D), M2)
    BY AtLastParsed
  <1>2. AddIn(D, u) <=> Adds(Head(D), u) \/ AddIn(Tail(D), u)
    BY InParsed
  <1>3. Basic(Tail(D), U, M2, near, far, s, u)
    BY <1>1 DEF Basic
  <1>4. Exact(D, U, M, N, near, far, s, u) => Exact(Tail(D), U, M2, N, near, far, s, u)
    BY <1>1, <1>2 DEF Exact
  <1> QED BY <1>3, <1>4

\* s hears of u from elsewhere: nothing, or a KICK of a user it has there.
LEMMA FarElsewhere ==
    ASSUME NEW S, NEW U \in Seq(S), NEW ms \in Seq(S), NEW D, NEW M, NEW M2, NEW N,
           NEW near, NEW far, NEW s, NEW u, NEW U2,
           far = "up" => U2 = U \o ms, far # "up" => U2 = U,
           \/ (u \in M2 <=> u \in M) /\ ~KickIn(ms, u)
           \/ u \in M /\ u \notin M2 /\ KickIn(ms, u),
           Basic(D, U, M, near, far, s, u)
    PROVE  /\ Basic(D, U2, M2, near, far, s, u)
           /\ /\ Exact(D, U, M, N, near, far, s, u)
              /\ KickIn(ms, u) => ~AddIn(D, u)
              => Exact(D, U2, M2, N, near, far, s, u)
  <1>1. KickIn(U2, u) <=> KickIn(U, u) \/ (far = "up" /\ KickIn(ms, u))
    <2>1. KickIn(U \o ms, u) <=> KickIn(U, u) \/ KickIn(ms, u)
      BY InAppended
    <2> QED BY <2>1
  <1>2. /\ AtLast(s, u, D, M2) => AtLast(s, u, D, M)
        /\ AddsOnce(s, u, D, M) => AddsOnce(s, u, D, M2)
    BY AtLastGrows
  <1>3. CASE (u \in M2 <=> u \in M) /\ ~KickIn(ms, u)
    <2>1. AtLast(s, u, D, M2) <=> AtLast(s, u, D, M)
      BY <1>3, AtLastGrows
    <2> QED BY <1>1, <1>2, <1>3, <2>1 DEF Basic, Exact
  <1>4. CASE u \in M /\ u \notin M2 /\ KickIn(ms, u)
    <2>1. far = "up"
      BY <1>4 DEF Basic
    <2>2. near # "up" => ~AtLast(s, u, D, M)
      BY DEF Basic
    <2>3. near = "connecting" => FALSE
      <3>1. ASSUME near = "connecting" PROVE FALSE
        <4>1. D = <<>> /\ ~AtLast(s, u, D, M)
          BY <2>2, <3>1 DEF Basic
        <4> QED BY <1>4, <4>1, AtLastEmpty
      <3> QED BY <3>1
    <2>4. Basic(D, U2, M2, near, far, s, u)
      BY <1>2, <1>4, <2>2, <2>3 DEF Basic
    <2>5. ASSUME Exact(D, U, M, N, near, far, s, u), KickIn(ms, u) => ~AddIn(D, u)
          PROVE  Exact(D, U2, M2, N, near, far, s, u)
      BY <1>1, <1>2, <1>4, <2>1, <2>5 DEF Exact
    <2> QED BY <2>4, <2>5
  <1> QED BY <1>3, <1>4

-----------------------------------------------------------------------------
(* The inductive invariant.                                                *)

Lines(q) == {q[i] : i \in 1..Len(q)}

Back(l) == <<l[2], l[1]>>

\* Whoever closed a link has said so at the end of its stream; a server that waits for a
\* handshake finds it first, and there is no other.
HandshakeAt(l) ==
    /\ \A m \in Lines(queue[l]) : m.type = "CLOSE" => link[l] = "down"
    /\ link[Back(l)] = "connecting" =>
         queue[l] # <<>> /\ Head(queue[l]).type \in {"SERVER", "CLOSE"}
    /\ \A i \in 1..Len(queue[l]) :
         queue[l][i].type = "SERVER" => i = 1 /\ link[Back(l)] = "connecting"

\* Lines come from the direction of what they are about.
LegalLine(m, l) ==
    /\ m.type \in {"JOIN", "PART"} => Home[m.uid] \in Side[Back(l)]
    /\ m.type = "SQUIT" => m.server \in Side[Back(l)]

LegalAt(l) == \A m \in Lines(queue[l]) : LegalLine(m, l)

KnownWays ==
    \A s \in Server, u \in User :
      Has(s, u) => Home[u] = s \/ \E v \in Server : Way(u, s, v)

BasicAt(s, v, u) ==
    Basic(queue[<<v, s>>], queue[<<s, v>>], chan[s].member, link[<<v, s>>], link[<<s, v>>], s, u)

ExactAt(s, v, u) ==
    Exact(queue[<<v, s>>], queue[<<s, v>>], chan[s].member, chan[v].member,
          link[<<v, s>>], link[<<s, v>>], s, u)

AllBasic == \A s, v \in Server : \A u \in User : Way(u, s, v) => BasicAt(s, v, u)

AllExact == \A s, v \in Server : \A u \in User : Way(u, s, v) => ExactAt(s, v, u)

\* Who is kicked is removed somewhere.
KickAt(l) == \A m \in Lines(queue[l]) : m.type = "KICK" => "removed" \in past

Streams == \A l \in Link : HandshakeAt(l) /\ LegalAt(l) /\ KickAt(l)

\* A single line of q kicks u, a single one puts u on the channel.
KickOnce(q, u) == \A i, j \in 1..Len(q) : Kicks(q[i], u) /\ Kicks(q[j], u) => i = j
AddOnce(q, u) == \A i, j \in 1..Len(q) : Adds(q[i], u) /\ Adds(q[j], u) => i = j

\* One KICK at a time, and nobody leaves meanwhile.
OneKick ==
    \A l, k \in Link : \A m \in Lines(queue[l]), n \in Lines(queue[k]) :
      m.type = "KICK" =>
        /\ n.type \notin {"PART", "SQUIT", "CLOSE"}
        /\ n.type = "KICK" => n.uid = m.uid

\* On its way to the server of the user it finds the user there, and it has no double.
KickWave(s, v, u) ==
    KickIn(queue[<<s, v>>], u) =>
      /\ u \in chan[v].member
      /\ KickOnce(queue[<<s, v>>], u)
      /\ \A l \in Link \ {<<s, v>>} : l[2] \notin Side[<<v, s>>] => ~KickIn(queue[l], u)

Wave == OneKick /\ \A s, v \in Server : \A u \in User : Way(u, s, v) => KickWave(s, v, u)

\* A user that joins for the first time finds no trace of itself.
JoinWave(s, v, u) ==
    AddIn(queue[<<v, s>>], u) =>
      /\ AddOnce(queue[<<v, s>>], u)
      /\ \A x \in Side[<<v, s>>] : u \notin chan[x].member
      /\ \A l \in Link : l[1] \in Side[<<v, s>>] =>
           ~AddIn(queue[l], u) /\ ~KickIn(queue[l], u)

NobodyLeft ==
    \A u \in User :
      (\E x \in Server : u \in chan[x].member) \/ (\E l \in Link : AddIn(queue[l], u))
        => u \in chan[Home[u]].member

Clean ==
    /\ \A l \in Link : link[l] # "connecting"
    /\ \A s, v \in Server : \A u \in User : Way(u, s, v) => JoinWave(s, v, u)
    /\ "removed" \notin past => NobodyLeft

Base == Streams /\ KnownWays /\ AllBasic

MembersInv ==
    /\ Base
    /\ ~({"kick", "again"} \subseteq past) => AllExact
    /\ "kick" \notin past => Wave
    /\ "again" \notin past => Clean

-----------------------------------------------------------------------------
(* What one server does.                                                   *)

NoKicks == \A l \in Link : \A m \in Lines(queue[l]) : m.type # "KICK"

\* x parses the first line of each of P, at most one, and sends ms to the others; the
\* links of X are another matter.
Acts(x, P, ms, X) ==
    /\ \A y \in Server \ {x} : chan'[y] = chan[y]
    /\ \A p \in P : /\ queue[<<p, x>>] # <<>> /\ link[<<x, p>>] # "down"
                    /\ Line(p, x).type \notin {"SERVER", "CLOSE"}
    /\ \A p, r \in P : p = r
    /\ \A l \in Link \ X :
         /\ link'[l] = link[l]
         /\ queue'[l] = IF l[2] = x /\ l[1] \in P THEN Tail(queue[l])
                        ELSE IF l[1] = x /\ l[2] \notin P /\ link[l] = "up" THEN queue[l] \o ms
                        ELSE queue[l]
    /\ past \subseteq past'

\* What ms may hold.
Sends(x, P, ms, X) ==
    \A m \in Lines(ms) :
      /\ m.type \notin {"SERVER", "CLOSE"}
      /\ m.type \in {"PART", "SQUIT"} => ms = <<m>> /\ ("kick" \in past' \/ NoKicks)
      /\ m.type \in {"JOIN", "PART"} =>
           Home[m.uid] = x \/ \E p \in P : Home[m.uid] \in Side[<<x, p>>]
      /\ m.type = "SQUIT" =>
           \E p \in Peers(x) : m.server \in Side[<<x, p>>] /\ (p \in P \/ <<x, p>> \in X)

\* u stays where it was, and nobody is told otherwise.
Stays(x, P, ms, u) ==
    /\ u \in chan'[x].member <=> u \in chan[x].member
    /\ \A m \in Lines(ms) :
         /\ ~Adds(m, u) /\ ~Kicks(m, u)
         /\ \A t \in Server : Way(u, t, x) => ~Takes(t, m, u)
    /\ \A p \in P :
         /\ Kicks(Line(p, x), u) => u \notin chan[x].member
         /\ Way(u, x, p) =>
              /\ ~Adds(Line(p, x), u)
              /\ Takes(x, Line(p, x), u) => u \notin chan[x].member

\* u is a member now: it is here and was none, or a line from its direction says so.
Enters(x, P, ms, u) ==
    /\ u \in chan'[x].member
    /\ \E m \in FairMessage : ms = <<m>> /\ Adds(m, u)
    /\ \/ P = {} /\ Home[u] = x /\ u \notin chan[x].member /\ Again \subseteq past'
       \/ \E p \in P : Way(u, x, p) /\ Adds(Line(p, x), u)

\* u is no member any more: it parts, its server is split off, or it is kicked.
Leaves(x, P, ms, X, u) ==
    /\ u \notin chan'[x].member
    /\ u \in chan[x].member => "removed" \in past'
    /\ \E m \in FairMessage :
         /\ ms = <<m>> /\ ~Adds(m, u)
         /\ \A t \in Server : Way(u, t, x) => Takes(t, m, u)
         /\ \/ /\ ~Kicks(m, u)
               /\ "kick" \in past' \/ NoKicks
               /\ \/ \E p \in P : Way(u, x, p) /\ Takes(x, Line(p, x), u)
                  \/ P = {} /\ Home[u] = x
                  \/ P = {} /\ \E v \in Server : Way(u, x, v) /\ <<x, v>> \in X
            \/ /\ Kicks(m, u) /\ u \in chan[x].member
               /\ \/ P = {} /\ Made("kick") \subseteq past'
                  \/ \E p \in P : Kicks(Line(p, x), u)

Affects(x, P, ms, X) ==
    \A u \in User : Stays(x, P, ms, u) \/ Enters(x, P, ms, u) \/ Leaves(x, P, ms, X, u)

\* The links of X, in both directions.
BothWays(X) == X \subseteq Link /\ \A l \in X : Back(l) \in X

-----------------------------------------------------------------------------
(* Facts about ways.                                                       *)

\* There is one way to a user, and none back through the neighbour.
LEMMA OneWay ==
    ASSUME NEW s \in Server, NEW v \in Server, NEW u \in User, Way(u, s, v)
    PROVE  /\ v \in Peers(s) /\ s \in Peers(v) /\ s # v
           /\ <<s, v>> \in Link /\ <<v, s>> \in Link
           /\ Home[u] \in Side[<<s, v>>] /\ Home[u] \notin Side[<<v, s>>]
           /\ Home[u] # s
           /\ \A w \in Server : Way(u, s, w) => w = v
           /\ ~Way(u, v, s)
           /\ \A t \in Peers(s) \ {v} : Way(u, t, s)
  <1>1. /\ v \in Peers(s) /\ s \in Peers(v) /\ s # v
        /\ <<s, v>> \in Link /\ <<v, s>> \in Link /\ Home[u] \in Side[<<s, v>>]
        /\ Home[u] \notin Side[<<v, s>>] /\ Home[u] # s
    BY LinkEnds DEF Way
  <1>2. \A w \in Server : Way(u, s, w) => w = v
    <2> SUFFICES ASSUME NEW w \in Server, Way(u, s, w), w # v PROVE FALSE
      OBVIOUS
    <2>1. Side[<<s, w>>] \subseteq Side[<<v, s>>]
      BY <1>1, LinkEnds DEF Way
    <2> QED BY <1>1, <2>1 DEF Way
  <1>3. ~Way(u, v, s)
    BY <1>1 DEF Way
  <1>4. ASSUME NEW t \in Peers(s) \ {v} PROVE Way(u, t, s)
    <2>1. t \in Server /\ s \in Peers(t) /\ t # s
      BY LinkEnds
    <2>2. Side[<<s, v>>] \subseteq Side[<<t, s>>]
      BY <1>1, <2>1, LinkEnds
    <2> QED BY <1>1, <2>1, <2>2 DEF Way
  <1> QED BY <1>1, <1>2, <1>3, <1>4

\* At home there is no way, and every neighbour's leads here.
LEMMA HomeWay ==
    ASSUME NEW x \in Server, NEW u \in User, Home[u] = x
    PROVE  \A v \in Peers(x) : ~Way(u, x, v) /\ Way(u, v, x)
  BY LinkEnds DEF Way

-----------------------------------------------------------------------------
(* The lines of a stream.                                                  *)

\* A KICK and an addition, by the lines.
LEMMA LinesAre ==
    ASSUME NEW q, NEW u
    PROVE  /\ KickIn(q, u) <=> \E m \in Lines(q) : Kicks(m, u)
           /\ AddIn(q, u) <=> \E m \in Lines(q) : Adds(m, u)
           /\ \A i \in 1..Len(q) : q[i] \in Lines(q)
           /\ \A m \in Lines(q) : \E i \in 1..Len(q) : m = q[i]
  BY DEF KickIn, AddIn, Lines

\* The lines of q \o ms.
LEMMA LinesAppended ==
    ASSUME NEW S, NEW q \in Seq(S), NEW ms \in Seq(S)
    PROVE  Lines(q \o ms) = Lines(q) \cup Lines(ms)
  <1>1. /\ Len(q \o ms) = Len(q) + Len(ms) /\ Len(q) \in Nat /\ Len(ms) \in Nat
        /\ \A i \in 1..Len(q) : (q \o ms)[i] = q[i]
        /\ \A i \in 1..Len(ms) : (q \o ms)[Len(q) + i] = ms[i]
        /\ \A j \in (Len(q) + 1)..(Len(q) + Len(ms)) :
                j - Len(q) \in 1..Len(ms) /\ (q \o ms)[j] = ms[j - Len(q)]
    BY Appended
  <1> DEFINE n == Len(q)
             k == Len(ms)
             r == q \o ms
  <1>2. /\ n \in Nat /\ k \in Nat /\ \A i \in 1..n : r[i] = q[i]
        /\ \A i \in 1..k : r[n + i] = ms[i]
        /\ \A j \in (n + 1)..(n + k) : j - n \in 1..k /\ r[j] = ms[j - n]
        /\ Lines(r) = {r[i] : i \in 1..(n + k)}
        /\ Lines(q) = {q[i] : i \in 1..n} /\ Lines(ms) = {ms[i] : i \in 1..k}
    BY <1>1 DEF Lines
  <1> HIDE DEF n, k, r
  <1>3. \A j \in 1..(n + k) : j \in 1..n \/ j \in (n + 1)..(n + k)
    BY <1>2
  <1>4. \A i \in 1..n : i \in 1..(n + k)
    BY <1>2
  <1>5. \A i \in 1..k : n + i \in 1..(n + k)
    BY <1>2
  <1>6. Lines(r) \subseteq Lines(q) \cup Lines(ms)
    BY <1>2, <1>3
  <1>7. Lines(q) \subseteq Lines(r)
    BY <1>2, <1>4
  <1>8. Lines(ms) \subseteq Lines(r)
    BY <1>2, <1>5
  <1> QED BY <1>6, <1>7, <1>8 DEF r

\* The lines of a stream of one, and of none.
LEMMA LinesOne ==
    ASSUME NEW m
    PROVE  Lines(<<m>>) = {m} /\ Lines(<<>>) = {}
  BY DEF Lines

\* The lines that are left when the first one is parsed.
LEMMA LinesParsed ==
    ASSUME NEW S, NEW q \in Seq(S), q # <<>>
    PROVE  /\ Lines(Tail(q)) \subseteq Lines(q) /\ Head(q) \in Lines(q)
           /\ Lines(q) \subseteq S
  <1>1. /\ Len(q) \in Nat /\ Head(q) = q[1] /\ 1 \in 1..Len(q)
        /\ \A i \in 1..Len(Tail(q)) : Tail(q)[i] = q[i + 1] /\ i + 1 \in 1..Len(q)
    BY Parsed
  <1>2. \A i \in 1..Len(q) : q[i] \in S
    BY ElementOfSeq
  <1> QED BY <1>1, <1>2 DEF Lines

\* Lines are messages.
LEMMA LinesType ==
    ASSUME NEW S, NEW q \in Seq(S)
    PROVE  Lines(q) \subseteq S
  BY ElementOfSeq DEF Lines

\* What becomes of a stream that is no other matter.
LEMMA ActsQueue ==
    ASSUME NEW x \in Server, NEW P, NEW ms, NEW X, Acts(x, P, ms, X), NEW l \in Link \ X
    PROVE  \/ /\ l[2] = x /\ l[1] \in P /\ queue[l] # <<>>
              /\ queue'[l] = Tail(queue[l]) /\ Line(l[1], x) = Head(queue[l])
           \/ /\ l[1] = x /\ l[2] \notin P /\ link[l] = "up"
              /\ queue'[l] = queue[l] \o ms
           \/ queue'[l] = queue[l]
  <1>1. l = <<l[1], l[2]>>
    BY LinkIsPair
  <1>2. CASE l[2] = x /\ l[1] \in P
    BY <1>1, <1>2 DEF Acts, Line
  <1>3. CASE ~(l[2] = x /\ l[1] \in P)
    BY <1>3 DEF Acts
  <1> QED BY <1>2, <1>3

\* The stream of a link, and its lines.
LEMMA QueueType ==
    ASSUME Fair, NEW l \in Link
    PROVE  queue[l] \in Seq(FairMessage) /\ Lines(queue[l]) \subseteq FairMessage
  <1>1. queue[l] \in Seq(FairMessage)
    BY DEF Fair
  <1> QED BY <1>1, LinesType

\* A stream gets no line but ms.
LEMMA ActsLines ==
    ASSUME Fair, NEW x \in Server, NEW P, NEW ms \in Seq(FairMessage), NEW X,
           Acts(x, P, ms, X), NEW l \in Link \ X
    PROVE  \A m \in Lines(queue'[l]) :
             m \in Lines(queue[l]) \/ (l[1] = x /\ l[2] \notin P /\ m \in Lines(ms))
  <1>1. queue[l] \in Seq(FairMessage)
    BY QueueType
  <1>2. \/ queue[l] # <<>> /\ queue'[l] = Tail(queue[l])
        \/ l[1] = x /\ l[2] \notin P /\ queue'[l] = queue[l] \o ms
        \/ queue'[l] = queue[l]
    BY ActsQueue
  <1>3. CASE queue[l] # <<>> /\ queue'[l] = Tail(queue[l])
    BY <1>1, <1>3, LinesParsed
  <1>4. CASE l[1] = x /\ l[2] \notin P /\ queue'[l] = queue[l] \o ms
    <2>1. Lines(queue[l] \o ms) = Lines(queue[l]) \cup Lines(ms)
      BY <1>1, LinesAppended
    <2> QED BY <1>4, <2>1
  <1>5. CASE queue'[l] = queue[l]
    BY <1>5
  <1> QED BY <1>2, <1>3, <1>4, <1>5

-----------------------------------------------------------------------------
(* What one server does keeps the streams in order.                        *)

\* SERVER and CLOSE stay where they belong: nobody sends them on.
LEMMA ActsHandshake ==
    ASSUME Fair, Streams, NEW x \in Server, NEW P, NEW ms \in Seq(FairMessage), NEW X,
           BothWays(X), Acts(x, P, ms, X), Sends(x, P, ms, X), NEW l \in Link \ X
    PROVE  HandshakeAt(l)'
  <1>1. queue[l] \in Seq(FairMessage) /\ link'[l] = link[l]
    BY QueueType DEF Acts
  <1>8. \/ /\ l[2] = x /\ l[1] \in P /\ queue[l] # <<>>
           /\ queue'[l] = Tail(queue[l]) /\ Line(l[1], x) = Head(queue[l])
        \/ /\ l[1] = x /\ l[2] \notin P /\ link[l] = "up"
           /\ queue'[l] = queue[l] \o ms
        \/ queue'[l] = queue[l]
    BY ActsQueue
  <1>2. HandshakeAt(l)
    BY DEF Streams
  <1>3. Back(l) \in Link /\ Back(l) \notin X /\ link'[Back(l)] = link[Back(l)]
    <2>1. Back(l) \in Link /\ Back(Back(l)) = l
      BY LinkIsPair, LinkEnds DEF Back
    <2>2. Back(l) \notin X
      BY <2>1 DEF BothWays
    <2> QED BY <2>1, <2>2 DEF Acts
  <1>4. \A m \in Lines(ms) : m.type \notin {"SERVER", "CLOSE"}
    BY DEF Sends
  <1>5. CASE /\ l[2] = x /\ l[1] \in P /\ queue[l] # <<>>
             /\ queue'[l] = Tail(queue[l]) /\ Line(l[1], x) = Head(queue[l])
    <2>1. Head(queue[l]).type \notin {"SERVER", "CLOSE"}
      BY <1>5 DEF Acts
    <2>2. link[Back(l)] # "connecting"
      BY <1>2, <2>1 DEF HandshakeAt
    <2>3. \A i \in 1..Len(Tail(queue[l])) : Tail(queue[l])[i].type # "SERVER"
      <3>1. \A i \in 1..Len(Tail(queue[l])) :
              Tail(queue[l])[i] = queue[l][i + 1] /\ i + 1 \in 1..Len(queue[l])
        BY <1>1, <1>5, Parsed
      <3> QED BY <1>2, <2>2, <3>1 DEF HandshakeAt
    <2>4. Lines(queue'[l]) \subseteq Lines(queue[l])
      BY <1>1, <1>5, LinesParsed
    <2> QED BY <1>1, <1>2, <1>3, <1>5, <2>2, <2>3, <2>4 DEF HandshakeAt
  <1>6. CASE /\ l[1] = x /\ l[2] \notin P /\ link[l] = "up"
             /\ queue'[l] = queue[l] \o ms
    <2>1. link[Back(l)] = "connecting" =>
            queue'[l] # <<>> /\ Head(queue'[l]) = Head(queue[l])
      <3>1. ASSUME queue[l] # <<>>
            PROVE  queue[l] \o ms # <<>> /\ Head(queue[l] \o ms) = Head(queue[l])
        <4>1. /\ 1 \in 1..Len(queue[l]) /\ Head(queue[l]) = queue[l][1]
          BY <1>1, <3>1, Parsed
        <4>2. /\ queue[l] \o ms \in Seq(FairMessage) /\ (queue[l] \o ms)[1] = queue[l][1]
              /\ Len(queue[l] \o ms) = Len(queue[l]) + Len(ms)
              /\ Len(queue[l]) \in Nat /\ Len(ms) \in Nat
          BY <1>1, <4>1, Appended
        <4>3. Len(queue[l] \o ms) # 0
          BY <4>1, <4>2
        <4>4. queue[l] \o ms # <<>>
          BY <4>3
        <4> QED BY <4>1, <4>2, <4>4, Parsed
      <3> QED BY <1>2, <1>6, <3>1 DEF HandshakeAt
    <2>2. ASSUME NEW i \in 1..Len(queue'[l]), queue'[l][i].type = "SERVER"
          PROVE  i = 1 /\ link[Back(l)] = "connecting"
      <3>1. /\ Len(queue[l] \o ms) = Len(queue[l]) + Len(ms)
            /\ Len(queue[l]) \in Nat /\ Len(ms) \in Nat
            /\ \A j \in 1..Len(queue[l]) : (queue[l] \o ms)[j] = queue[l][j]
            /\ \A j \in (Len(queue[l]) + 1)..(Len(queue[l]) + Len(ms)) :
                 j - Len(queue[l]) \in 1..Len(ms) /\ (queue[l] \o ms)[j] = ms[j - Len(queue[l])]
        BY <1>1, Appended
      <3>2. \A j \in 1..Len(ms) : ms[j].type # "SERVER"
        BY <1>4 DEF Lines
      <3>3. i \in 1..Len(queue[l]) \/ i \in (Len(queue[l]) + 1)..(Len(queue[l]) + Len(ms))
        BY <1>6, <2>2, <3>1
      <3>4. i \in 1..Len(queue[l]) /\ queue[l][i].type = "SERVER"
        BY <1>6, <2>2, <3>1, <3>2, <3>3
      <3> QED BY <1>2, <3>4 DEF HandshakeAt
    <2>3. \A m \in Lines(queue'[l]) : m.type = "CLOSE" => link'[l] = "down"
      <3>1. Lines(queue[l] \o ms) = Lines(queue[l]) \cup Lines(ms)
        BY <1>1, LinesAppended
      <3> QED BY <1>1, <1>2, <1>4, <1>6, <3>1 DEF HandshakeAt
    <2> QED BY <1>2, <1>3, <2>1, <2>2, <2>3 DEF HandshakeAt
  <1>7. CASE queue'[l] = queue[l]
    BY <1>1, <1>2, <1>3, <1>7 DEF HandshakeAt
  <1> QED BY <1>8, <1>5, <1>6, <1>7

\* What is passed on comes from the direction it came from.
LEMMA ActsLegal ==
    ASSUME Fair, Streams, NEW x \in Server, NEW P \in SUBSET Peers(x),
           NEW ms \in Seq(FairMessage), NEW X,
           Acts(x, P, ms, X), Sends(x, P, ms, X), NEW l \in Link \ X
    PROVE  LegalAt(l)'
  <1>1. \A m \in Lines(queue'[l]) :
          m \in Lines(queue[l]) \/ (l[1] = x /\ l[2] \notin P /\ m \in Lines(ms))
    BY ActsLines
  <1>2. \A m \in Lines(queue[l]) : LegalLine(m, l)
    BY DEF Streams, LegalAt
  <1>3. ASSUME l[1] = x, l[2] \notin P, NEW m \in Lines(ms) PROVE LegalLine(m, l)
    <2> DEFINE t == l[2]
    <2>1. t \in Server /\ t \in Peers(x) /\ x \in Peers(t) /\ l = <<x, t>> /\ Back(l) = <<t, x>>
      BY <1>3, LinkIsPair DEF Back
    <2> HIDE DEF t
    <2>2. x \in Side[<<t, x>>] /\ \A p \in Peers(x) \ {t} : Side[<<x, p>>] \subseteq Side[<<t, x>>]
      BY <2>1, LinkEnds
    <2>3. \A p \in P : p \in Peers(x) \ {t}
      BY <1>3 DEF t
    <2>4. m.type \in {"JOIN", "PART"} => Home[m.uid] \in Side[<<t, x>>]
      BY <2>2, <2>3 DEF Sends
    <2>5. m.type = "SQUIT" => m.server \in Side[<<t, x>>]
      BY <1>3, <2>1, <2>2, <2>3 DEF Sends
    <2> QED BY <2>1, <2>4, <2>5 DEF LegalLine
  <1> QED BY <1>1, <1>2, <1>3 DEF LegalAt

\* A KICK that is sent removes somebody.
LEMMA KickSent ==
    ASSUME NEW x, NEW P, NEW ms \in Seq(FairMessage), NEW X, Affects(x, P, ms, X),
           NEW m \in Lines(ms), m.type = "KICK"
    PROVE  /\ m.uid \in User /\ Leaves(x, P, ms, X, m.uid) /\ ms = <<m>> /\ Kicks(m, m.uid)
           /\ m.uid \in chan[x].member /\ m.uid \notin chan'[x].member /\ "removed" \in past'
           /\ \/ P = {} /\ Made("kick") \subseteq past'
              \/ \E p \in P : Kicks(Line(p, x), m.uid)
  <1>1. m \in FairMessage
    BY LinesType
  <1>2. m.uid \in User /\ Kicks(m, m.uid)
    BY <1>1, MessageFields DEF Kicks
  <1>3. ~Stays(x, P, ms, m.uid)
    BY <1>2 DEF Stays
  <1>4. ~Enters(x, P, ms, m.uid)
    <2> SUFFICES ASSUME NEW n \in FairMessage, ms = <<n>>, Adds(n, m.uid) PROVE FALSE
      BY DEF Enters
    <2>1. m = n
      BY LinesOne
    <2> QED BY <1>2, <2>1 DEF Adds, Kicks
  <1>5. Leaves(x, P, ms, X, m.uid)
    BY <1>2, <1>3, <1>4 DEF Affects
  <1>6. PICK n \in FairMessage :
           /\ ms = <<n>>
           /\ \/ ~Kicks(n, m.uid)
              \/ /\ Kicks(n, m.uid) /\ m.uid \in chan[x].member
                 /\ \/ P = {} /\ Made("kick") \subseteq past'
                    \/ \E p \in P : Kicks(Line(p, x), m.uid)
    BY <1>5 DEF Leaves
  <1>7. m = n
    BY <1>6, LinesOne
  <1> QED BY <1>2, <1>5, <1>6, <1>7 DEF Leaves

\* Who is kicked by a line on its way was removed by whoever sent it (m_kick).
LEMMA ActsKicks ==
    ASSUME Fair, Streams, NEW x \in Server, NEW P, NEW ms \in Seq(FairMessage), NEW X,
           Acts(x, P, ms, X), Affects(x, P, ms, X), NEW l \in Link \ X
    PROVE  KickAt(l)'
  <1>1. \A m \in Lines(queue'[l]) : m \in Lines(queue[l]) \/ m \in Lines(ms)
    BY ActsLines
  <1>2. past \subseteq past'
    BY DEF Acts
  <1>3. \A m \in Lines(queue[l]) : m.type = "KICK" => "removed" \in past
    BY DEF Streams, KickAt
  <1>4. \A m \in Lines(ms) : m.type = "KICK" => "removed" \in past'
    BY KickSent
  <1> QED BY <1>1, <1>2, <1>3, <1>4 DEF KickAt

\* Who is known at a server is its own or known through a neighbour.
LEMMA ActsWays ==
    ASSUME KnownWays, NEW x \in Server, NEW P \in SUBSET Peers(x), NEW ms, NEW X,
           Acts(x, P, ms, X), Affects(x, P, ms, X)
    PROVE  KnownWays'
  <1> SUFFICES ASSUME NEW s \in Server, NEW u \in User, u \in chan'[s].member
               PROVE  Home[u] = s \/ \E v \in Server : Way(u, s, v)
    BY DEF KnownWays, Has
  <1>1. CASE s # x
    BY <1>1 DEF Acts, KnownWays, Has
  <1>2. CASE s = x
    <2>1. \A p \in P : p \in Server
      BY DEF Peers
    <2>2. CASE Stays(x, P, ms, u)
      BY <1>2, <2>2 DEF Stays, KnownWays, Has
    <2>3. CASE Enters(x, P, ms, u)
      BY <1>2, <2>1, <2>3 DEF Enters
    <2> QED BY <1>2, <2>2, <2>3 DEF Affects, Leaves
  <1> QED BY <1>1, <1>2

-----------------------------------------------------------------------------
(* What one server does to what two neighbours know of a user.             *)

\* v parses a line of s, from which it does not hear of u.
LEMMA HearsBack ==
    ASSUME NEW s \in Server, NEW v \in Server, NEW u \in User, Way(u, s, v),
           NEW P \in SUBSET Peers(v), NEW ms, NEW X,
           Acts(v, P, ms, X), Affects(v, P, ms, X), s \in P
    PROVE  \/ Kicks(Line(s, v), u) /\ u \notin chan'[v].member
           \/ /\ ~Kicks(Line(s, v), u)
              /\ (u \in chan'[v].member <=> u \in chan[v].member)
  <1>1. ~Way(u, v, s)
    BY OneWay
  <1>2. \A p \in P : p = s
    BY DEF Acts
  <1>3. CASE Stays(v, P, ms, u)
    BY <1>3 DEF Stays
  <1>4. CASE Enters(v, P, ms, u)
    BY <1>1, <1>2, <1>4 DEF Enters
  <1>5. CASE Leaves(v, P, ms, X, u)
    BY <1>1, <1>2, <1>5 DEF Leaves
  <1> QED BY <1>3, <1>4, <1>5 DEF Affects

\* s parses a line of v, from which it hears of u.
LEMMA HearsOf ==
    ASSUME NEW s \in Server, NEW v \in Server, NEW u \in User, Way(u, s, v),
           NEW P \in SUBSET Peers(s), NEW ms, NEW X,
           Acts(s, P, ms, X), Affects(s, P, ms, X), v \in P
    PROVE  u \in chan'[s].member <=>
             \/ Adds(Line(v, s), u)
             \/ u \in chan[s].member /\ ~Takes(s, Line(v, s), u)
  <1>1. \A p \in P : p = v
    BY DEF Acts
  <1>2. /\ ~(Adds(Line(v, s), u) /\ Takes(s, Line(v, s), u))
        /\ Kicks(Line(v, s), u) => Takes(s, Line(v, s), u)
    BY AddsOrTakes
  <1>3. CASE Stays(s, P, ms, u)
    BY <1>1, <1>3 DEF Stays
  <1>4. CASE Enters(s, P, ms, u)
    BY <1>1, <1>4 DEF Enters
  <1>5. CASE Leaves(s, P, ms, X, u)
    BY <1>1, <1>2, <1>5 DEF Leaves
  <1> QED BY <1>3, <1>4, <1>5 DEF Affects

\* s does something else: u stays what it was, or s kicks it.
LEMMA HearsNothing ==
    ASSUME NEW s \in Server, NEW v \in Server, NEW u \in User, Way(u, s, v),
           NEW P \in SUBSET Peers(s), NEW ms, NEW X,
           Acts(s, P, ms, X), Affects(s, P, ms, X), v \notin P, <<s, v>> \notin X
    PROVE  \/ (u \in chan'[s].member <=> u \in chan[s].member) /\ ~KickIn(ms, u)
           \/ /\ u \in chan[s].member /\ u \notin chan'[s].member /\ KickIn(ms, u)
              /\ Leaves(s, P, ms, X, u)
  <1>1. Home[u] # s /\ \A w \in Server : Way(u, s, w) => w = v
    BY OneWay
  <1>2. \A p \in P : p \in Server
    BY DEF Peers
  <1>3. CASE Stays(s, P, ms, u)
    <2>1. ~KickIn(ms, u)
      BY <1>3, LinesAre DEF Stays
    <2> QED BY <1>3, <2>1 DEF Stays
  <1>4. CASE Enters(s, P, ms, u)
    BY <1>1, <1>2, <1>4 DEF Enters
  <1>5. CASE Leaves(s, P, ms, X, u)
    <2>1. PICK m \in FairMessage :
            ms = <<m>> /\ Kicks(m, u) /\ u \in chan[s].member
      BY <1>1, <1>2, <1>5 DEF Leaves
    <2>2. KickIn(ms, u)
      BY <2>1, LinesAre, LinesOne
    <2> QED BY <1>5, <2>1, <2>2 DEF Leaves
  <1> QED BY <1>3, <1>4, <1>5 DEF Affects

\* A link over which lines of a user are parsed is up.
LEMMA ParsedLinkUp ==
    ASSUME Fair, Streams, NEW x \in Server, NEW P \in SUBSET Peers(x), NEW ms, NEW X,
           Acts(x, P, ms, X), NEW p \in P
    PROVE  link[<<x, p>>] = "up"
  <1>1. p \in Server /\ <<x, p>> \in Link /\ <<p, x>> \in Link
    BY LinkEnds
  <1>2. link[<<x, p>>] \in {"down", "connecting", "up"} /\ link[<<x, p>>] # "down"
    BY <1>1 DEF Fair, Acts
  <1>3. HandshakeAt(<<p, x>>) /\ Back(<<p, x>>) = <<x, p>>
    BY <1>1 DEF Streams, Back
  <1>4. Head(queue[<<p, x>>]).type \notin {"SERVER", "CLOSE"}
    BY DEF Acts, Line
  <1> QED BY <1>2, <1>3, <1>4 DEF HandshakeAt

\* Two neighbours of which none is another matter.
LEMMA ActsPair ==
    ASSUME Fair, Base, NEW x \in Server, NEW P \in SUBSET Peers(x),
           NEW ms \in Seq(FairMessage), NEW X, BothWays(X),
           Acts(x, P, ms, X), Affects(x, P, ms, X),
           NEW s \in Server, NEW v \in Server, NEW u \in User, Way(u, s, v), <<s, v>> \notin X
    PROVE  /\ BasicAt(s, v, u)'
           /\ /\ ExactAt(s, v, u)
              /\ x = v /\ Enters(x, P, ms, u) =>
                   u \notin chan[v].member /\ ~KickIn(queue[<<s, v>>], u)
              /\ x = s /\ v \notin P /\ Leaves(x, P, ms, X, u) =>
                   ~AddIn(queue[<<v, s>>], u)
              => ExactAt(s, v, u)'
  <1> DEFINE D == queue[<<v, s>>]
             U == queue[<<s, v>>]
             M == chan[s].member
             N == chan[v].member
             near == link[<<v, s>>]
             far == link[<<s, v>>]
             Free == /\ x = v /\ Enters(x, P, ms, u) =>
                          u \notin chan[v].member /\ ~KickIn(queue[<<s, v>>], u)
                     /\ x = s /\ v \notin P /\ Leaves(x, P, ms, X, u) =>
                          ~AddIn(queue[<<v, s>>], u)
  <1>1. <<s, v>> \in Link /\ <<v, s>> \in Link /\ s # v
    BY OneWay
  <1>2. <<s, v>> \in Link \ X /\ <<v, s>> \in Link \ X
    <2>1. Back(<<v, s>>) = <<s, v>>
      BY DEF Back
    <2> QED BY <1>1, <2>1 DEF BothWays
  <1>3. D \in Seq(FairMessage) /\ U \in Seq(FairMessage)
    BY <1>1, QueueType
  <1>4. BasicAt(s, v, u)
    BY DEF Base, AllBasic
  <1>5. link'[<<v, s>>] = near /\ link'[<<s, v>>] = far
    BY <1>2 DEF Acts
  <1>6. queue'[<<v, s>>] = IF s = x /\ v \in P THEN Tail(D)
                           ELSE IF v = x /\ s \notin P /\ near = "up" THEN D \o ms
                           ELSE D
    BY <1>2 DEF Acts
  <1>7. queue'[<<s, v>>] = IF v = x /\ s \in P THEN Tail(U)
                           ELSE IF s = x /\ v \notin P /\ far = "up" THEN U \o ms
                           ELSE U
    BY <1>2 DEF Acts
  <1>8. (s # x => chan'[s] = chan[s]) /\ (v # x => chan'[v] = chan[v])
    BY DEF Acts
  <1>9. BasicAt(s, v, u)' <=>
          Basic(queue'[<<v, s>>], queue'[<<s, v>>], chan'[s].member, near, far, s, u)
    BY <1>5 DEF BasicAt, Basic, AtLast, After, Adds, Takes, Kicks, KickIn, Beyond
  <1>10. ExactAt(s, v, u)' <=>
           Exact(queue'[<<v, s>>], queue'[<<s, v>>], chan'[s].member, chan'[v].member,
                 near, far, s, u)
    BY <1>5 DEF ExactAt, Exact, AtLast, AddsOnce, After, Adds, Takes, Kicks, KickIn, AddIn,
                Beyond
  <1>11. Basic(D, U, M, near, far, s, u)
    BY <1>4 DEF BasicAt
  <1>12. ExactAt(s, v, u) <=> Exact(D, U, M, N, near, far, s, u)
    BY DEF ExactAt
  <1> HIDE DEF D, U, M, N, near, far
  <1>20. CASE x = v /\ s \notin P
    <2> DEFINE D2 == queue'[<<v, s>>]
               N2 == chan'[v].member
    <2>1. queue'[<<s, v>>] = U /\ chan'[s].member = M
      BY <1>1, <1>6, <1>7, <1>8, <1>20 DEF M
    <2>2. near = "up" => D2 = D \o ms
      BY <1>1, <1>6, <1>20
    <2>3. near # "up" => D2 = D
      BY <1>1, <1>6, <1>20
    <2> HIDE DEF D2
    <2>4. Basic(D2, U, M, near, far, s, u)
      BY <1>11, <2>3, NearTellsBasic
    <2>5. ASSUME Exact(D, U, M, N, near, far, s, u), Free
          PROVE  Exact(D2, U, M, N2, near, far, s, u)
      <3>1. CASE Stays(x, P, ms, u)
        <4>1. /\ u \in N2 <=> u \in N
              /\ \A i \in 1..Len(ms) : ~Adds(ms[i], u) /\ ~Takes(s, ms[i], u)
          BY <1>20, <3>1, LinesAre DEF Stays, N
        <4> HIDE DEF N2
        <4> QED BY <1>3, <1>11, <2>2, <2>3, <2>5, <4>1, NearTells
      <3>2. CASE Enters(x, P, ms, u)
        <4>1. /\ u \in N2 /\ u \notin N /\ ~KickIn(U, u)
              /\ \E m \in FairMessage : ms = <<m>> /\ Adds(m, u)
          BY <1>20, <2>5, <3>2 DEF Enters, N, U
        <4> HIDE DEF N2
        <4> QED BY <1>3, <1>11, <2>2, <2>3, <2>5, <4>1, NearTells
      <3>3. CASE Leaves(x, P, ms, X, u)
        <4>1. /\ u \notin N2
              /\ \E m \in FairMessage : ms = <<m>> /\ Takes(s, m, u)
          BY <1>20, <3>3 DEF Leaves
        <4> HIDE DEF N2
        <4> QED BY <1>3, <1>11, <2>2, <2>3, <2>5, <4>1, NearTells
      <3> QED BY <3>1, <3>2, <3>3 DEF Affects
    <2> QED BY <1>9, <1>10, <1>12, <2>1, <2>4, <2>5 DEF D2
  <1>21. CASE x = v /\ s \in P
    <2>1. /\ queue'[<<s, v>>] = Tail(U) /\ queue'[<<v, s>>] = D /\ chan'[s].member = M
          /\ U # <<>> /\ Line(s, v) = Head(U)
      BY <1>1, <1>6, <1>7, <1>8, <1>21 DEF M, U, Acts, Line
    <2>2. \/ Kicks(Head(U), u) /\ u \notin chan'[v].member
          \/ ~Kicks(Head(U), u) /\ (u \in chan'[v].member <=> u \in N)
      BY <1>21, <2>1, HearsBack DEF N
    <2>3. /\ Basic(D, Tail(U), M, near, far, s, u)
          /\ Exact(D, U, M, N, near, far, s, u) =>
               Exact(D, Tail(U), M, chan'[v].member, near, far, s, u)
      BY <1>3, <1>11, <2>1, <2>2, NearHears
    <2> QED BY <1>9, <1>10, <1>12, <2>1, <2>3
  <1>22. CASE x = s /\ v \in P
    <2>1. /\ queue'[<<s, v>>] = U /\ queue'[<<v, s>>] = Tail(D) /\ chan'[v].member = N
          /\ D # <<>> /\ Line(v, s) = Head(D)
      BY <1>1, <1>6, <1>7, <1>8, <1>22 DEF N, D, Acts, Line
    <2>2. u \in chan'[s].member <=>
            Adds(Head(D), u) \/ (u \in M /\ ~Takes(s, Head(D), u))
      BY <1>22, <2>1, HearsOf DEF M
    <2>3. far = "up"
      BY <1>22, ParsedLinkUp DEF far, Base
    <2>4. /\ Basic(Tail(D), U, chan'[s].member, near, far, s, u)
          /\ Exact(D, U, M, N, near, far, s, u) =>
               Exact(Tail(D), U, chan'[s].member, N, near, far, s, u)
      BY <1>3, <1>11, <2>1, <2>2, <2>3, FarHears
    <2> QED BY <1>9, <1>10, <1>12, <2>1, <2>4
  <1>23. CASE x = s /\ v \notin P
    <2> DEFINE U2 == queue'[<<s, v>>]
               M2 == chan'[s].member
    <2>1. queue'[<<v, s>>] = D /\ chan'[v].member = N
      BY <1>1, <1>6, <1>7, <1>8, <1>23 DEF N
    <2>2. far = "up" => U2 = U \o ms
      BY <1>1, <1>7, <1>23
    <2>3. far # "up" => U2 = U
      BY <1>1, <1>7, <1>23
    <2>4. /\ \/ (u \in M2 <=> u \in M) /\ ~KickIn(ms, u)
             \/ u \in M /\ u \notin M2 /\ KickIn(ms, u)
          /\ Free => (KickIn(ms, u) => ~AddIn(D, u))
      BY <1>23, HearsNothing DEF M, D
    <2> HIDE DEF U2, M2, Free
    <2>5. /\ Basic(D, U2, M2, near, far, s, u)
          /\ /\ Exact(D, U, M, N, near, far, s, u)
             /\ KickIn(ms, u) => ~AddIn(D, u)
             => Exact(D, U2, M2, N, near, far, s, u)
      BY <1>3, <1>11, <2>2, <2>3, <2>4, FarElsewhere
    <2> QED BY <1>9, <1>10, <1>12, <2>1, <2>4, <2>5 DEF U2, M2, Free
  <1>24. CASE x # s /\ x # v
    <2>1. /\ queue'[<<v, s>>] = D /\ queue'[<<s, v>>] = U
          /\ chan'[s].member = M /\ chan'[v].member = N
      BY <1>6, <1>7, <1>8, <1>24 DEF M, N
    <2> QED BY <1>9, <1>10, <1>11, <1>12, <2>1
  <1> QED BY <1>20, <1>21, <1>22, <1>23, <1>24

\* The line parsed is one of those on their way.
LEMMA LineInQueue ==
    ASSUME Fair, NEW x \in Server, NEW P \in SUBSET Peers(x), NEW ms, NEW X,
           Acts(x, P, ms, X), NEW p \in P
    PROVE  /\ p \in Server /\ <<p, x>> \in Link /\ <<x, p>> \in Link
           /\ queue[<<p, x>>] \in Seq(FairMessage) /\ queue[<<p, x>>] # <<>>
           /\ Line(p, x) \in Lines(queue[<<p, x>>]) /\ Line(p, x) = queue[<<p, x>>][1]
           /\ 1 \in 1..Len(queue[<<p, x>>])
           /\ Line(p, x) \in FairMessage
  <1>1. p \in Server /\ <<x, p>> \in Link /\ <<p, x>> \in Link
    BY LinkEnds
  <1>2. queue[<<p, x>>] \in Seq(FairMessage) /\ queue[<<p, x>>] # <<>>
    BY <1>1, QueueType DEF Acts
  <1>3. /\ Head(queue[<<p, x>>]) = queue[<<p, x>>][1]
        /\ 1 \in 1..Len(queue[<<p, x>>])
    BY <1>2, Parsed
  <1>4. /\ Head(queue[<<p, x>>]) \in Lines(queue[<<p, x>>])
        /\ Lines(queue[<<p, x>>]) \subseteq FairMessage
    BY <1>2, LinesParsed
  <1> QED BY <1>1, <1>2, <1>3, <1>4 DEF Line

\* Whom a server puts on the channel was not on it.
LEMMA EntersFresh ==
    ASSUME Fair, AllExact, NEW x \in Server, NEW P \in SUBSET Peers(x), NEW ms, NEW X,
           Acts(x, P, ms, X), NEW u \in User, Enters(x, P, ms, u)
    PROVE  u \notin chan[x].member
  <1> SUFFICES ASSUME NEW p \in P, Way(u, x, p), Adds(Line(p, x), u)
               PROVE  u \notin chan[x].member
    BY DEF Enters
  <1>1. p \in Server /\ Line(p, x) = queue[<<p, x>>][1] /\ 1 \in 1..Len(queue[<<p, x>>])
    BY LineInQueue
  <1>2. AddsOnce(x, u, queue[<<p, x>>], chan[x].member)
    BY <1>1 DEF AllExact, ExactAt, Exact
  <1>3. ~After(x, u, queue[<<p, x>>], 1 - 1, chan[x].member)
    BY <1>1, <1>2 DEF AddsOnce
  <1> QED BY <1>3, AfterNone

\* Who is on the channel is put on it by no line before one that takes it off.
LEMMA StaysOn ==
    ASSUME NEW s, NEW u, NEW q, NEW M, u \in M, AddsOnce(s, u, q, M),
           \A i \in 1..Len(q) : ~Takes(s, q[i], u), Len(q) \in Nat
    PROVE  ~AddIn(q, u)
  <1> SUFFICES ASSUME NEW n \in 1..Len(q), Adds(q[n], u) PROVE FALSE
    BY DEF AddIn
  <1>1. \A j \in 1..(n - 1) : j \in 1..Len(q)
    OBVIOUS
  <1>2. After(s, u, q, n - 1, M)
    BY <1>1 DEF After
  <1> QED BY <1>2 DEF AddsOnce

\* Two neighbours at whom nothing changes that is another matter.
LEMMA ActsExact ==
    ASSUME Fair, MembersInv, NEW x \in Server, NEW P \in SUBSET Peers(x),
           NEW ms \in Seq(FairMessage), NEW X, BothWays(X),
           Acts(x, P, ms, X), Affects(x, P, ms, X), ~({"kick", "again"} \subseteq past'),
           NEW s \in Server, NEW v \in Server, NEW u \in User, Way(u, s, v), <<s, v>> \notin X
    PROVE  ExactAt(s, v, u)'
  <1>1. past \subseteq past'
    BY DEF Acts
  <1>2. Base /\ AllExact /\ ("kick" \notin past => Wave) /\ ("again" \notin past => Clean)
    BY <1>1 DEF MembersInv
  <1>3. /\ <<s, v>> \in Link /\ <<v, s>> \in Link /\ s # v /\ v \in Peers(s) /\ s \in Peers(v)
        /\ ~Way(u, v, s) /\ \A t \in Peers(s) \ {v} : Way(u, t, s)
    BY OneWay
  <1>4. ASSUME x = v, Enters(x, P, ms, u)
        PROVE  u \notin chan[v].member /\ ~KickIn(queue[<<s, v>>], u)
    <2>1. u \notin chan[v].member
      BY <1>2, <1>4, EntersFresh
    <2>2. CASE "kick" \notin past
      BY <1>2, <2>1, <2>2 DEF Wave, KickWave
    <2>3. CASE "again" \notin past'
      <3>1. Clean
        BY <1>1, <1>2, <2>3
      <3>2. CASE Again \subseteq past'
        <4>1. "removed" \notin past
          BY <2>3, <3>2 DEF Again
        <4>2. \A m \in Lines(queue[<<s, v>>]) : m.type # "KICK"
          BY <1>2, <1>3, <4>1 DEF Base, Streams, KickAt
        <4> QED BY <2>1, <4>2, LinesAre DEF Kicks
      <3>3. ASSUME NEW p \in P, Way(u, x, p), Adds(Line(p, x), u)
            PROVE  ~KickIn(queue[<<s, v>>], u)
        <4>1. /\ p \in Server /\ Line(p, x) = queue[<<p, x>>][1]
              /\ 1 \in 1..Len(queue[<<p, x>>])
          BY LineInQueue
        <4>2. AddIn(queue[<<p, v>>], u)
          BY <1>4, <3>3, <4>1 DEF AddIn
        <4>3. JoinWave(v, p, u)
          BY <1>4, <3>1, <3>3, <4>1 DEF Clean
        <4>4. s \in Side[<<p, v>>]
          <5>1. s \in Peers(v) \ {p} /\ p \in Peers(v)
            BY <1>3, <1>4, <3>3
          <5>2. Side[<<v, s>>] \subseteq Side[<<p, v>>]
            BY <5>1, LinkEnds
          <5>3. s \in Side[<<v, s>>]
            BY <1>3, LinkEnds
          <5> QED BY <5>2, <5>3
        <4> QED BY <1>3, <4>2, <4>3, <4>4 DEF JoinWave
      <3> QED BY <1>4, <2>1, <3>2, <3>3 DEF Enters
    <2> QED BY <1>1, <2>1, <2>2, <2>3
  <1>5. ASSUME x = s, v \notin P, Leaves(x, P, ms, X, u), AddIn(queue[<<v, s>>], u)
        PROVE  FALSE
    <2>1. u \in chan[s].member /\ KickIn(ms, u)
      <3>1. u \notin chan'[s].member
        BY <1>5 DEF Leaves
      <3>2. \/ (u \in chan'[s].member <=> u \in chan[s].member) /\ ~KickIn(ms, u)
            \/ u \in chan[s].member /\ KickIn(ms, u)
        BY <1>5, HearsNothing
      <3>3. PICK m \in FairMessage : /\ ms = <<m>>
               /\ \/ Kicks(m, u) /\ u \in chan[x].member
                  \/ \E p \in P : Way(u, x, p)
                  \/ Home[u] = x
                  \/ \E w \in Server : Way(u, x, w) /\ <<x, w>> \in X
        BY <1>5 DEF Leaves
      <3>4. Kicks(m, u)
        <4>1. Home[u] # s /\ \A w \in Server : Way(u, s, w) => w = v
          BY OneWay
        <4>2. \A p \in P : p \in Server
          BY DEF Peers
        <4> QED BY <1>5, <3>3, <4>1, <4>2
      <3>5. KickIn(ms, u)
        BY <3>3, <3>4, LinesAre, LinesOne
      <3> QED BY <3>2, <3>5
    <2>2. PICK m \in Lines(ms) : Kicks(m, u)
      BY <2>1, LinesAre
    <2>3. \/ Made("kick") \subseteq past'
          \/ \E p \in P : Kicks(Line(p, x), u)
      <3>1. m.type = "KICK" /\ m.uid = u
        BY <2>2 DEF Kicks
      <3> QED BY <3>1, KickSent
    <2>4. CASE "again" \notin past
      <3>1. \A y \in Side[<<v, s>>] : u \notin chan[y].member
        BY <1>2, <1>5, <2>4 DEF Clean, JoinWave
      <3>2. s \in Side[<<v, s>>]
        BY <1>3, LinkEnds
      <3> QED BY <2>1, <3>1, <3>2
    <2>5. CASE "kick" \notin past'
      <3>1. Wave
        BY <1>1, <1>2, <2>5
      <3>2. CASE Made("kick") \subseteq past'
        <4>1. queue[<<v, s>>] = <<>>
          BY <1>3, <2>5, <3>2 DEF Made
        <4> QED BY <1>5, <4>1 DEF AddIn
      <3>3. ASSUME NEW p \in P, Kicks(Line(p, x), u)
            PROVE  FALSE
        <4>1. /\ p \in Server /\ <<p, x>> \in Link /\ Line(p, x) \in Lines(queue[<<p, x>>])
              /\ p # v /\ p \in Peers(s)
          BY <1>5, LineInQueue
        <4>2. Way(u, p, s)
          BY <1>3, <4>1
        <4>3. KickIn(queue[<<p, s>>], u)
          BY <1>5, <3>3, <4>1, LinesAre
        <4>4. KickWave(p, s, u)
          BY <3>1, <4>1, <4>2 DEF Wave
        <4>5. ~KickIn(queue[<<v, s>>], u)
          <5>1. <<v, s>> \in Link \ {<<p, s>>} /\ <<v, s>>[2] \notin Side[<<s, p>>]
            BY <1>3, <4>1, LinkEnds
          <5> QED BY <4>3, <4>4, <5>1 DEF KickWave
        <4>6. \A n \in Lines(queue[<<v, s>>]) : n.type \notin {"PART", "SQUIT", "CLOSE"}
          BY <1>3, <3>1, <3>3, <4>1 DEF Wave, OneKick, Kicks
        <4>7. \A i \in 1..Len(queue[<<v, s>>]) : ~Takes(s, queue[<<v, s>>][i], u)
          BY <4>5, <4>6, LinesAre DEF Takes
        <4>8. AddsOnce(s, u, queue[<<v, s>>], chan[s].member)
          BY <1>2 DEF AllExact, ExactAt, Exact
        <4>9. Len(queue[<<v, s>>]) \in Nat
          <5>1. queue[<<v, s>>] \in Seq(FairMessage)
            BY <1>3, QueueType
          <5> QED BY <5>1, LenProperties
        <4> QED BY <1>5, <2>1, <4>7, <4>8, <4>9, StaysOn
      <3> QED BY <2>3, <3>2, <3>3
    <2> QED BY <1>1, <2>4, <2>5
  <1>6. ExactAt(s, v, u)
    BY <1>2 DEF AllExact
  <1> QED BY <1>2, <1>4, <1>5, <1>6, ActsPair

-----------------------------------------------------------------------------
(* At most one line of a kind.                                             *)

OnlyOne(q, K) == \A i, j \in 1..Len(q) : q[i] \in K /\ q[j] \in K => i = j

\* Of at most one line of K none is left when it is parsed.
LEMMA OnlyOneParsed ==
    ASSUME NEW S, NEW q \in Seq(S), q # <<>>, NEW K, OnlyOne(q, K)
    PROVE  /\ OnlyOne(Tail(q), K)
           /\ Head(q) \in K => \A i \in 1..Len(Tail(q)) : Tail(q)[i] \notin K
  <1>1. /\ Len(q) \in Nat /\ Head(q) = q[1] /\ 1 \in 1..Len(q)
        /\ \A i \in 1..Len(Tail(q)) : Tail(q)[i] = q[i + 1] /\ i + 1 \in 1..Len(q)
    BY Parsed
  <1>2. ASSUME NEW i \in 1..Len(Tail(q)), NEW j \in 1..Len(Tail(q)),
               Tail(q)[i] \in K, Tail(q)[j] \in K
        PROVE  i = j
    <2>1. i + 1 = j + 1
      BY <1>1, <1>2 DEF OnlyOne
    <2> QED BY <2>1
  <1>3. ASSUME Head(q) \in K, NEW i \in 1..Len(Tail(q)), Tail(q)[i] \in K PROVE FALSE
    <2>1. i + 1 = 1
      BY <1>1, <1>3 DEF OnlyOne
    <2> QED BY <2>1
  <1>4. OnlyOne(Tail(q), K)
    BY <1>2 DEF OnlyOne
  <1> QED BY <1>3, <1>4

\* ... and one line is added to none.
LEMMA OnlyOneAppended ==
    ASSUME NEW S, NEW q \in Seq(S), NEW ms \in Seq(S), NEW K,
           \/ OnlyOne(q, K) /\ \A i \in 1..Len(ms) : ms[i] \notin K
           \/ (\A i \in 1..Len(q) : q[i] \notin K) /\ Len(ms) = 1
    PROVE  OnlyOne(q \o ms, K)
  <1>1. /\ Len(q \o ms) = Len(q) + Len(ms) /\ Len(q) \in Nat /\ Len(ms) \in Nat
        /\ \A i \in 1..Len(q) : (q \o ms)[i] = q[i]
        /\ \A j \in (Len(q) + 1)..(Len(q) + Len(ms)) :
                j - Len(q) \in 1..Len(ms) /\ (q \o ms)[j] = ms[j - Len(q)]
    BY Appended
  <1>2. \A i \in 1..Len(q \o ms) : i \in 1..Len(q) \/ i \in (Len(q) + 1)..(Len(q) + Len(ms))
    BY <1>1
  <1>3. CASE OnlyOne(q, K) /\ \A i \in 1..Len(ms) : ms[i] \notin K
    BY <1>1, <1>2, <1>3 DEF OnlyOne
  <1>4. CASE (\A i \in 1..Len(q) : q[i] \notin K) /\ Len(ms) = 1
    <2>1. \A i \in 1..Len(q \o ms) : (q \o ms)[i] \in K => i = Len(q) + 1
      <3>1. \A i \in (Len(q) + 1)..(Len(q) + Len(ms)) : i = Len(q) + 1
        BY <1>1, <1>4
      <3> QED BY <1>1, <1>2, <1>4, <3>1
    <2> QED BY <2>1 DEF OnlyOne
  <1> QED BY <1>3, <1>4

KickLines(u) == {m \in FairMessage : Kicks(m, u)}
AddLines(u) == {m \in FairMessage : Adds(m, u)}

\* A single KICK, a single addition, by sets of lines.
LEMMA OnceAre ==
    ASSUME NEW q \in Seq(FairMessage), NEW u
    PROVE  /\ KickOnce(q, u) <=> OnlyOne(q, KickLines(u))
           /\ KickIn(q, u) <=> \E i \in 1..Len(q) : q[i] \in KickLines(u)
           /\ AddOnce(q, u) <=> OnlyOne(q, AddLines(u))
           /\ AddIn(q, u) <=> \E i \in 1..Len(q) : q[i] \in AddLines(u)
           /\ q # <<>> => /\ Head(q) \in KickLines(u) <=> Kicks(Head(q), u)
                          /\ Head(q) \in AddLines(u) <=> Adds(Head(q), u)
                          /\ Tail(q) \in Seq(FairMessage)
  <1>1. \A i \in 1..Len(q) : q[i] \in FairMessage
    BY ElementOfSeq
  <1>2. q # <<>> => Head(q) \in FairMessage /\ Tail(q) \in Seq(FairMessage)
    BY HeadTailProperties
  <1> QED BY <1>1, <1>2 DEF KickOnce, AddOnce, OnlyOne, KickIn, AddIn, KickLines, AddLines

\* A single KICK is parsed, a single addition.
LEMMA OnceParsed ==
    ASSUME NEW q \in Seq(FairMessage), NEW u, q # <<>>
    PROVE  /\ KickOnce(q, u) => KickOnce(Tail(q), u)
           /\ KickOnce(q, u) /\ Kicks(Head(q), u) => ~KickIn(Tail(q), u)
           /\ AddOnce(q, u) => AddOnce(Tail(q), u)
           /\ AddOnce(q, u) /\ Adds(Head(q), u) => ~AddIn(Tail(q), u)
  <1> DEFINE K == KickLines(u)
             A == AddLines(u)
             r == Tail(q)
  <1>1. /\ KickOnce(q, u) <=> OnlyOne(q, K)
        /\ AddOnce(q, u) <=> OnlyOne(q, A)
        /\ Head(q) \in K <=> Kicks(Head(q), u)
        /\ Head(q) \in A <=> Adds(Head(q), u)
        /\ r \in Seq(FairMessage)
    BY OnceAre
  <1>2. /\ KickOnce(r, u) <=> OnlyOne(r, K)
        /\ AddOnce(r, u) <=> OnlyOne(r, A)
        /\ KickIn(r, u) <=> \E i \in 1..Len(r) : r[i] \in K
        /\ AddIn(r, u) <=> \E i \in 1..Len(r) : r[i] \in A
    BY <1>1, OnceAre
  <1> HIDE DEF K, A
  <1>3. OnlyOne(q, K) => /\ OnlyOne(r, K)
                         /\ Head(q) \in K => \A i \in 1..Len(r) : r[i] \notin K
    BY OnlyOneParsed
  <1>4. OnlyOne(q, A) => /\ OnlyOne(r, A)
                         /\ Head(q) \in A => \A i \in 1..Len(r) : r[i] \notin A
    BY OnlyOneParsed
  <1> HIDE DEF r
  <1>5. /\ KickOnce(q, u) => KickOnce(r, u)
        /\ KickOnce(q, u) /\ Kicks(Head(q), u) => ~KickIn(r, u)
        /\ AddOnce(q, u) => AddOnce(r, u)
        /\ AddOnce(q, u) /\ Adds(Head(q), u) => ~AddIn(r, u)
    BY <1>1, <1>2, <1>3, <1>4
  <1> QED BY <1>5 DEF r

\* ... and appended where there was none.
LEMMA OnceAppended ==
    ASSUME NEW q \in Seq(FairMessage), NEW ms \in Seq(FairMessage), NEW u
    PROVE  /\ \/ KickOnce(q, u) /\ ~KickIn(ms, u)
              \/ ~KickIn(q, u) /\ Len(ms) = 1
              => KickOnce(q \o ms, u)
           /\ \/ AddOnce(q, u) /\ ~AddIn(ms, u)
              \/ ~AddIn(q, u) /\ Len(ms) = 1
              => AddOnce(q \o ms, u)
  <1> DEFINE K == KickLines(u)
             A == AddLines(u)
  <1>1. /\ KickOnce(q, u) <=> OnlyOne(q, K)
        /\ AddOnce(q, u) <=> OnlyOne(q, A)
        /\ KickIn(q, u) <=> \E i \in 1..Len(q) : q[i] \in K
        /\ AddIn(q, u) <=> \E i \in 1..Len(q) : q[i] \in A
    BY OnceAre
  <1>2. /\ KickIn(ms, u) <=> \E i \in 1..Len(ms) : ms[i] \in K
        /\ AddIn(ms, u) <=> \E i \in 1..Len(ms) : ms[i] \in A
    BY OnceAre
  <1>3. q \o ms \in Seq(FairMessage)
    BY ConcatProperties
  <1>4. /\ KickOnce(q \o ms, u) <=> OnlyOne(q \o ms, K)
        /\ AddOnce(q \o ms, u) <=> OnlyOne(q \o ms, A)
    BY <1>3, OnceAre
  <1> HIDE DEF K, A
  <1>5. \/ OnlyOne(q, K) /\ \A i \in 1..Len(ms) : ms[i] \notin K
        \/ (\A i \in 1..Len(q) : q[i] \notin K) /\ Len(ms) = 1
        => OnlyOne(q \o ms, K)
    BY OnlyOneAppended
  <1>6. \/ OnlyOne(q, A) /\ \A i \in 1..Len(ms) : ms[i] \notin A
        \/ (\A i \in 1..Len(q) : q[i] \notin A) /\ Len(ms) = 1
        => OnlyOne(q \o ms, A)
    BY OnlyOneAppended
  <1> QED BY <1>1, <1>2, <1>4, <1>5, <1>6

\* What is new on a stream has been sent.
LEMMA ActsIn ==
    ASSUME Fair, NEW x \in Server, NEW P, NEW ms \in Seq(FairMessage), NEW X,
           Acts(x, P, ms, X), NEW l \in Link \ X, NEW u
    PROVE  /\ KickIn(queue'[l], u) =>
                KickIn(queue[l], u) \/ (l[1] = x /\ l[2] \notin P /\ KickIn(ms, u))
           /\ AddIn(queue'[l], u) =>
                AddIn(queue[l], u) \/ (l[1] = x /\ l[2] \notin P /\ AddIn(ms, u))
  <1>1. \A m \in Lines(queue'[l]) :
          m \in Lines(queue[l]) \/ (l[1] = x /\ l[2] \notin P /\ m \in Lines(ms))
    BY ActsLines
  <1>2. /\ KickIn(queue'[l], u) <=> \E m \in Lines(queue'[l]) : Kicks(m, u)
        /\ AddIn(queue'[l], u) <=> \E m \in Lines(queue'[l]) : Adds(m, u)
    BY LinesAre
  <1>3. /\ KickIn(queue[l], u) <=> \E m \in Lines(queue[l]) : Kicks(m, u)
        /\ AddIn(queue[l], u) <=> \E m \in Lines(queue[l]) : Adds(m, u)
    BY LinesAre
  <1>4. /\ KickIn(ms, u) <=> \E m \in Lines(ms) : Kicks(m, u)
        /\ AddIn(ms, u) <=> \E m \in Lines(ms) : Adds(m, u)
    BY LinesAre
  <1> QED BY <1>1, <1>2, <1>3, <1>4

\* Who is kicked by a line was a member; nothing was on its way, or the server passes a
\* KICK on.
LEMMA KickInSent ==
    ASSUME NEW x, NEW P, NEW ms \in Seq(FairMessage), NEW X, Affects(x, P, ms, X),
           NEW u, KickIn(ms, u)
    PROVE  /\ u \in User /\ u \in chan[x].member /\ Leaves(x, P, ms, X, u) /\ Len(ms) = 1
           /\ \/ P = {} /\ Made("kick") \subseteq past'
              \/ \E p \in P : Kicks(Line(p, x), u)
  <1>1. PICK m \in Lines(ms) : m.type = "KICK" /\ m.uid = u
    BY LinesAre DEF Kicks
  <1>2. /\ u \in User /\ u \in chan[x].member /\ Leaves(x, P, ms, X, u) /\ ms = <<m>>
        /\ \/ P = {} /\ Made("kick") \subseteq past'
           \/ \E p \in P : Kicks(Line(p, x), u)
    BY <1>1, KickSent
  <1> QED BY <1>2

-----------------------------------------------------------------------------
(* One KICK at a time.                                                     *)

\* One KICK at a time is passed on, or made when nothing is on its way (m_kick).
LEMMA ActsOneKick ==
    ASSUME Fair, OneKick, NEW x \in Server, NEW P \in SUBSET Peers(x),
           NEW ms \in Seq(FairMessage),
           Acts(x, P, ms, {}), Sends(x, P, ms, {}), Affects(x, P, ms, {}), "kick" \notin past'
    PROVE  OneKick'
  <1> SUFFICES ASSUME NEW l \in Link, NEW k \in Link,
                      NEW m \in Lines(queue'[l]), NEW n \in Lines(queue'[k]), m.type = "KICK"
               PROVE  /\ n.type \notin {"PART", "SQUIT", "CLOSE"}
                      /\ n.type = "KICK" => n.uid = m.uid
    BY DEF OneKick, Lines
  <1>1. m \in Lines(queue[l]) \/ m \in Lines(ms)
    <2>1. l \in Link \ {}
      OBVIOUS
    <2> QED BY <2>1, ActsLines
  <1>2. n \in Lines(queue[k]) \/ n \in Lines(ms)
    <2>1. k \in Link \ {}
      OBVIOUS
    <2>2. \A y \in Lines(queue'[k]) : y \in Lines(queue[k]) \/ y \in Lines(ms)
      BY <2>1, ActsLines
    <2> QED BY <2>2
  <1>3. \A y \in Lines(ms) : y.type = "KICK" =>
          /\ ms = <<y>>
          /\ Made("kick") \subseteq past' \/ \E p \in P : Kicks(Line(p, x), y.uid)
    BY KickSent
  <1>4. \A p \in P : <<p, x>> \in Link /\ Line(p, x) \in Lines(queue[<<p, x>>])
    BY LineInQueue
  <1>5. Made("kick") \subseteq past' => \A e \in Link : Lines(queue[e]) = {}
    BY LinesOne DEF Made
  <1>6. CASE m \in Lines(queue[l]) /\ n \in Lines(queue[k])
    BY <1>6 DEF OneKick
  <1>7. CASE m \in Lines(queue[l]) /\ n \in Lines(ms)
    <2>1. n.type \notin {"PART", "SQUIT", "CLOSE"}
      BY <1>7 DEF Sends, NoKicks
    <2>2. ASSUME n.type = "KICK" PROVE n.uid = m.uid
      <3>1. PICK p \in P : Kicks(Line(p, x), n.uid)
        BY <1>3, <1>5, <1>7, <2>2
      <3>2. /\ <<p, x>> \in Link /\ Line(p, x) \in Lines(queue[<<p, x>>])
            /\ Line(p, x).type = "KICK" /\ Line(p, x).uid = n.uid
        BY <1>4, <3>1 DEF Kicks
      <3>3. Line(p, x).uid = m.uid
        BY <1>7, <3>2 DEF OneKick
      <3> QED BY <3>2, <3>3
    <2> QED BY <2>1, <2>2
  <1>8. CASE m \in Lines(ms) /\ n \in Lines(queue[k])
    <2>1. PICK p \in P : Kicks(Line(p, x), m.uid)
      BY <1>3, <1>5, <1>8
    <2>2. /\ <<p, x>> \in Link /\ Line(p, x) \in Lines(queue[<<p, x>>])
          /\ Line(p, x).type = "KICK" /\ Line(p, x).uid = m.uid
      BY <1>4, <2>1 DEF Kicks
    <2>3. /\ n.type \notin {"PART", "SQUIT", "CLOSE"}
          /\ n.type = "KICK" => n.uid = Line(p, x).uid
      BY <1>8, <2>2 DEF OneKick
    <2> QED BY <2>2, <2>3
  <1>9. CASE m \in Lines(ms) /\ n \in Lines(ms)
    <2>1. m = n
      BY <1>3, <1>9, LinesOne
    <2> QED BY <2>1
  <1> QED BY <1>1, <1>2, <1>6, <1>7, <1>8, <1>9

\* While s kicks u, no line on its way to s takes u off the channel.
LEMMA KickAlone ==
    ASSUME Fair, Wave, NEW s \in Server, NEW P \in SUBSET Peers(s),
           NEW ms \in Seq(FairMessage), NEW X,
           Acts(s, P, ms, X), Affects(s, P, ms, X), "kick" \notin past',
           NEW v \in Server, NEW u \in User, Way(u, s, v), v \notin P, KickIn(ms, u)
    PROVE  /\ \A i \in 1..Len(queue[<<v, s>>]) : ~Takes(s, queue[<<v, s>>][i], u)
           /\ Len(queue[<<v, s>>]) \in Nat
           /\ \/ \A l \in Link : ~KickIn(queue[l], u)
              \/ \E p \in P : Way(u, p, s) /\ KickIn(queue[<<p, s>>], u) /\ Kicks(Line(p, s), u)
  <1>1. /\ <<v, s>> \in Link /\ v \in Peers(s) /\ \A t \in Peers(s) \ {v} : Way(u, t, s)
    BY OneWay
  <1>2. queue[<<v, s>>] \in Seq(FairMessage) /\ Len(queue[<<v, s>>]) \in Nat
    BY <1>1, QueueType, LenProperties
  <1>3. CASE Made("kick") \subseteq past'
    <2>1. \A l \in Link : queue[l] = <<>>
      BY <1>3 DEF Made
    <2> QED BY <1>1, <1>2, <2>1 DEF KickIn
  <1>4. ASSUME NEW p \in P, Kicks(Line(p, s), u)
        PROVE  /\ \A i \in 1..Len(queue[<<v, s>>]) : ~Takes(s, queue[<<v, s>>][i], u)
               /\ Way(u, p, s) /\ KickIn(queue[<<p, s>>], u)
    <2>1. /\ p \in Server /\ <<p, s>> \in Link /\ Line(p, s) \in Lines(queue[<<p, s>>])
          /\ p # v /\ p \in Peers(s)
      BY LineInQueue
    <2>2. Way(u, p, s)
      BY <1>1, <2>1
    <2>3. KickIn(queue[<<p, s>>], u)
      BY <1>4, <2>1, LinesAre
    <2>4. KickWave(p, s, u)
      BY <2>1, <2>2 DEF Wave
    <2>5. ~KickIn(queue[<<v, s>>], u)
      <3>1. <<v, s>> \in Link \ {<<p, s>>} /\ <<v, s>>[2] \notin Side[<<s, p>>]
        BY <1>1, <2>1, LinkEnds
      <3> QED BY <2>3, <2>4, <3>1 DEF KickWave
    <2>6. \A n \in Lines(queue[<<v, s>>]) : n.type \notin {"PART", "SQUIT", "CLOSE"}
      BY <1>1, <1>4, <2>1 DEF Wave, OneKick, Kicks
    <2>7. \A i \in 1..Len(queue[<<v, s>>]) : ~Takes(s, queue[<<v, s>>][i], u)
      BY <2>5, <2>6, LinesAre DEF Takes
    <2> QED BY <2>2, <2>3, <2>7
  <1> QED BY <1>2, <1>3, <1>4, KickInSent

\* A KICK on its way to the server of the user, and none elsewhere but behind it.
LEMMA ActsKickWave ==
    ASSUME Fair, Base, AllExact, Wave, NEW x \in Server, NEW P \in SUBSET Peers(x),
           NEW ms \in Seq(FairMessage),
           Acts(x, P, ms, {}), Affects(x, P, ms, {}), "kick" \notin past',
           NEW s \in Server, NEW v \in Server, NEW u \in User, Way(u, s, v)
    PROVE  KickWave(s, v, u)'
  <1> DEFINE U == queue[<<s, v>>]
             D == queue[<<v, s>>]
             U2 == queue'[<<s, v>>]
  <1> SUFFICES ASSUME KickIn(U2, u)
               PROVE  /\ u \in chan'[v].member
                      /\ KickOnce(U2, u)
                      /\ \A l \in Link \ {<<s, v>>} :
                           l[2] \notin Side[<<v, s>>] => ~KickIn(queue'[l], u)
    BY DEF KickWave, KickOnce, KickIn, Kicks
  <1>1. /\ <<s, v>> \in Link /\ <<v, s>> \in Link /\ s # v /\ v \in Peers(s) /\ s \in Peers(v)
        /\ ~Way(u, v, s) /\ \A t \in Peers(s) \ {v} : Way(u, t, s)
    BY OneWay
  <1>2. /\ s \in Side[<<v, s>>] /\ v \notin Side[<<v, s>>]
        /\ \A t \in Peers(s) \ {v} : Side[<<s, t>>] \subseteq Side[<<v, s>>] /\ t \in Side[<<s, t>>]
        /\ \A y \in Side[<<v, s>>] \ {s} : Peers(y) \subseteq Side[<<v, s>>]
    BY <1>1, LinkEnds
  <1>3. \A l \in Link :
          KickIn(queue'[l], u) =>
            KickIn(queue[l], u) \/ (l[1] = x /\ l[2] \notin P /\ KickIn(ms, u))
    <2>1. ASSUME NEW l \in Link PROVE l \in Link \ {}
      OBVIOUS
    <2> QED BY <2>1, ActsIn
  <1>4. U \in Seq(FairMessage) /\ D \in Seq(FairMessage)
    BY <1>1, QueueType
  <1>5. U2 = IF v = x /\ s \in P THEN Tail(U)
             ELSE IF s = x /\ v \notin P /\ link[<<s, v>>] = "up" THEN U \o ms
             ELSE U
    BY <1>1 DEF Acts
  <1>6. KickWave(s, v, u) /\ BasicAt(s, v, u) /\ ExactAt(s, v, u)
    BY DEF Wave, Base, AllBasic, AllExact
  <1>7. KickIn(ms, u) =>
          /\ u \in chan[x].member /\ Len(ms) = 1
          /\ \/ Made("kick") \subseteq past'
             \/ \E p \in P : Kicks(Line(p, x), u)
    BY KickInSent
  <1>8. Made("kick") \subseteq past' => \A l \in Link : ~KickIn(queue[l], u)
    BY DEF Made, KickIn
  <1>9. \A p \in P : /\ <<p, x>> \in Link /\ p \in Peers(x) /\ p \in Server
                     /\ Kicks(Line(p, x), u) => KickIn(queue[<<p, x>>], u)
    BY LineInQueue, LinesAre
  <1> HIDE DEF U2
  <1>20. CASE KickIn(U, u)
    <2>1. /\ u \in chan[v].member /\ KickOnce(U, u)
          /\ \A l \in Link \ {<<s, v>>} : l[2] \notin Side[<<v, s>>] => ~KickIn(queue[l], u)
      BY <1>6, <1>20 DEF KickWave
    <2>2. u \notin chan[s].member
      BY <1>6, <1>20 DEF ExactAt, Exact
    <2>3. ~(v = x /\ s \in P /\ Kicks(Line(s, v), u))
      <3>1. ASSUME v = x, s \in P, Kicks(Line(s, v), u) PROVE FALSE
        <4>1. U2 = Tail(U) /\ U # <<>> /\ Line(s, v) = Head(U)
          BY <1>5, <3>1 DEF Acts, Line
        <4>2. ~KickIn(Tail(U), u)
          BY <1>4, <2>1, <3>1, <4>1, OnceParsed
        <4> QED BY <4>1, <4>2
      <3> QED BY <3>1
    <2>4. \A p \in P : Kicks(Line(p, x), u) => x \in Side[<<v, s>>]
      <3> SUFFICES ASSUME NEW p \in P, Kicks(Line(p, x), u), x \notin Side[<<v, s>>]
                   PROVE  FALSE
        OBVIOUS
      <3>1. <<p, x>> \in Link /\ KickIn(queue[<<p, x>>], u)
        BY <1>9
      <3>2. <<p, x>> = <<s, v>>
        BY <2>1, <3>1
      <3> QED BY <2>3, <3>2
    <2>5. u \in chan'[v].member
      <3>1. CASE x # v
        BY <2>1, <3>1 DEF Acts
      <3>2. CASE x = v
        <4>1. CASE Stays(x, P, ms, u) \/ Enters(x, P, ms, u)
          BY <2>1, <3>2, <4>1 DEF Stays, Enters
        <4>2. CASE Leaves(x, P, ms, {}, u)
          <5>1. ~NoKicks
            <6>1. PICK m \in Lines(queue[<<s, v>>]) : Kicks(m, u)
              BY <1>20, LinesAre
            <6> QED BY <1>1, <6>1 DEF NoKicks, Kicks
          <5>2. PICK m \in FairMessage : ms = <<m>> /\ Kicks(m, u)
            BY <4>2, <5>1 DEF Leaves
          <5>3. KickIn(ms, u)
            BY <5>2, LinesAre, LinesOne
          <5> QED BY <1>1, <1>2, <1>7, <1>8, <1>20, <2>4, <3>2, <5>3
        <4> QED BY <4>1, <4>2 DEF Affects
      <3> QED BY <3>1, <3>2
    <2>6. KickOnce(U2, u)
      <3>1. CASE v = x /\ s \in P
        <4>1. U2 = Tail(U) /\ U # <<>>
          BY <1>5, <3>1 DEF Acts
        <4> QED BY <1>4, <2>1, <4>1, OnceParsed
      <3>2. CASE s = x /\ v \notin P /\ link[<<s, v>>] = "up"
        <4>1. U2 = U \o ms
          BY <1>1, <1>5, <3>2
        <4>2. ~KickIn(ms, u)
          BY <1>7, <2>2, <3>2
        <4> QED BY <1>4, <2>1, <4>1, <4>2, OnceAppended
      <3> QED BY <1>5, <2>1, <3>1, <3>2
    <2>7. ASSUME NEW l \in Link \ {<<s, v>>}, l[2] \notin Side[<<v, s>>], KickIn(queue'[l], u)
          PROVE  FALSE
      <3>1. l[1] = x /\ l[2] \notin P /\ KickIn(ms, u)
        BY <1>3, <2>1, <2>7
      <3>2. PICK p \in P : Kicks(Line(p, x), u)
        BY <1>1, <1>7, <1>8, <1>20, <3>1
      <3>3. x \in Side[<<v, s>>]
        BY <2>4, <3>2
      <3>4. l[2] \in Peers(x) /\ l = <<x, l[2]>>
        BY <3>1, LinkIsPair
      <3>5. CASE x # s
        BY <1>2, <2>7, <3>3, <3>4, <3>5
      <3>6. CASE x = s
        BY <1>2, <2>7, <3>4, <3>6
      <3> QED BY <3>5, <3>6
    <2> QED BY <2>5, <2>6, <2>7
  <1>21. CASE ~KickIn(U, u)
    <2>1. s = x /\ v \notin P /\ KickIn(ms, u)
      BY <1>1, <1>3, <1>21 DEF U2
    <2>2. /\ \A i \in 1..Len(D) : ~Takes(s, D[i], u)
          /\ \/ \A l \in Link : ~KickIn(queue[l], u)
             \/ \E p \in P : Way(u, p, s) /\ KickIn(queue[<<p, s>>], u)
      BY <2>1, KickAlone
    <2>3. u \in chan[s].member /\ Len(ms) = 1
      BY <1>7, <2>1
    <2>4. u \in chan'[v].member
      <3>1. AtLast(s, u, D, chan[s].member)
        BY <2>2, <2>3 DEF AtLast, After
      <3>2. link[<<v, s>>] = "up" /\ u \in chan[v].member
        BY <1>6, <3>1 DEF BasicAt, Basic, ExactAt, Exact
      <3> QED BY <1>1, <2>1, <3>2 DEF Acts
    <2>5. KickOnce(U2, u)
      <3>1. U2 = U \o ms \/ U2 = U
        BY <1>1, <1>5, <2>1
      <3>2. KickOnce(U \o ms, u)
        BY <1>4, <1>21, <2>3, OnceAppended
      <3>3. U2 = U => FALSE
        BY <1>21
      <3> QED BY <3>1, <3>2, <3>3
    <2>6. ASSUME NEW l \in Link \ {<<s, v>>}, l[2] \notin Side[<<v, s>>], KickIn(queue'[l], u)
          PROVE  FALSE
      <3>1. l[2] \in Peers(l[1]) /\ l = <<l[1], l[2]>>
        BY LinkIsPair
      <3>2. l[1] # s
        <4>1. ASSUME l[1] = s PROVE FALSE
          <5>1. l[2] \in Peers(s) \ {v}
            BY <2>6, <3>1, <4>1
          <5> QED BY <1>2, <2>6, <5>1
        <4> QED BY <4>1
      <3>3. KickIn(queue[l], u)
        BY <1>3, <2>1, <2>6, <3>2
      <3>4. PICK p \in P : Way(u, p, s) /\ KickIn(queue[<<p, s>>], u)
        BY <2>2, <3>3
      <3>5. p \in Peers(s) \ {v} /\ p \in Server
        BY <1>9, <2>1, <3>4
      <3>6. KickWave(p, s, u)
        BY <3>4, <3>5 DEF Wave
      <3>7. l # <<p, s>>
        BY <1>2, <2>6
      <3>8. l[2] \in Side[<<s, p>>]
        BY <3>3, <3>4, <3>6, <3>7 DEF KickWave
      <3> QED BY <1>2, <2>6, <3>5, <3>8
    <2> QED BY <2>4, <2>5, <2>6
  <1> QED BY <1>20, <1>21

\* The KICK on its way is passed on by whoever has parsed it, to the rest.
LEMMA ActsWave ==
    ASSUME Fair, Base, AllExact, Wave, NEW x \in Server, NEW P \in SUBSET Peers(x),
           NEW ms \in Seq(FairMessage),
           Acts(x, P, ms, {}), Sends(x, P, ms, {}), Affects(x, P, ms, {}), "kick" \notin past'
    PROVE  Wave'
  <1>1. OneKick'
    BY ActsOneKick DEF Wave
  <1>2. ASSUME NEW s \in Server, NEW v \in Server, NEW u \in User, Way(u, s, v)
        PROVE  KickWave(s, v, u)'
    BY <1>2, ActsKickWave
  <1>3. \A s, v \in Server : \A u \in User : Way(u, s, v)' => KickWave(s, v, u)'
    BY <1>2 DEF Way
  <1> QED BY <1>1, <1>3 DEF Wave

-----------------------------------------------------------------------------
(* Users that join for the first time.                                     *)

\* Who is put on the channel by a line that is sent is a member from now on.
LEMMA AddInSent ==
    ASSUME NEW x, NEW P, NEW ms, NEW X, Affects(x, P, ms, X), NEW u \in User, AddIn(ms, u)
    PROVE  Enters(x, P, ms, u) /\ Len(ms) = 1
  <1>1. PICK m \in Lines(ms) : Adds(m, u)
    BY LinesAre
  <1>2. ~Stays(x, P, ms, u)
    BY <1>1 DEF Stays
  <1>3. ~Leaves(x, P, ms, X, u)
    <2> SUFFICES ASSUME NEW n \in FairMessage, ms = <<n>>, ~Adds(n, u) PROVE FALSE
      BY DEF Leaves
    <2>1. m = n
      BY LinesOne
    <2> QED BY <1>1, <2>1
  <1>4. Enters(x, P, ms, u)
    BY <1>2, <1>3 DEF Affects
  <1>5. Len(ms) = 1
    BY <1>4 DEF Enters
  <1> QED BY <1>4, <1>5

\* Whom a server puts on the channel was on it nowhere, or comes by a line.
LEMMA EntersFrom ==
    ASSUME Fair, Base, Clean, NEW x \in Server, NEW P \in SUBSET Peers(x),
           NEW ms \in Seq(FairMessage),
           Acts(x, P, ms, {}), "again" \notin past',
           NEW u \in User, Enters(x, P, ms, u)
    PROVE  \/ /\ Home[u] = x
              /\ \A y \in Server : u \notin chan[y].member
              /\ \A l \in Link : ~AddIn(queue[l], u) /\ ~KickIn(queue[l], u)
           \/ \E p \in P : /\ p \in Peers(x) /\ p \in Server /\ <<p, x>> \in Link
                           /\ Way(u, x, p) /\ Adds(Line(p, x), u)
                           /\ AddIn(queue[<<p, x>>], u) /\ JoinWave(x, p, u)
  <1>1. CASE P = {} /\ Home[u] = x /\ u \notin chan[x].member /\ Again \subseteq past'
    <2>1. "removed" \notin past
      BY <1>1 DEF Again
    <2>2. \A l \in Link : ~KickIn(queue[l], u)
      <3>1. \A l \in Link : \A m \in Lines(queue[l]) : m.type # "KICK"
        BY <2>1 DEF Base, Streams, KickAt
      <3> QED BY <3>1, LinesAre DEF Kicks
    <2>3. NobodyLeft
      BY <2>1 DEF Clean
    <2> QED BY <1>1, <2>2, <2>3 DEF NobodyLeft
  <1>2. ASSUME NEW p \in P, Way(u, x, p), Adds(Line(p, x), u)
        PROVE  /\ p \in Peers(x) /\ p \in Server /\ <<p, x>> \in Link
               /\ AddIn(queue[<<p, x>>], u) /\ JoinWave(x, p, u)
    <2>1. /\ p \in Server /\ <<p, x>> \in Link
          /\ Line(p, x) \in Lines(queue[<<p, x>>])
      BY LineInQueue
    <2>2. AddIn(queue[<<p, x>>], u)
      BY <1>2, <2>1, LinesAre
    <2> QED BY <1>2, <2>1, <2>2 DEF Clean
  <1> QED BY <1>1, <1>2 DEF Enters

\* A first JOIN is passed on by whoever has parsed it, to servers that have not.
LEMMA ActsJoinWave ==
    ASSUME Fair, Base, Clean, NEW x \in Server, NEW P \in SUBSET Peers(x),
           NEW ms \in Seq(FairMessage),
           Acts(x, P, ms, {}), Affects(x, P, ms, {}), "again" \notin past',
           NEW s \in Server, NEW v \in Server, NEW u \in User, Way(u, s, v)
    PROVE  JoinWave(s, v, u)'
  <1> DEFINE D == queue[<<v, s>>]
             D2 == queue'[<<v, s>>]
             far == Side[<<v, s>>]
  <1> SUFFICES ASSUME AddIn(D2, u)
               PROVE  /\ AddOnce(D2, u)
                      /\ \A y \in far : u \notin chan'[y].member
                      /\ \A l \in Link : l[1] \in far =>
                           ~AddIn(queue'[l], u) /\ ~KickIn(queue'[l], u)
    BY DEF JoinWave, AddOnce, AddIn, KickIn, Adds, Kicks
  <1>1. /\ <<s, v>> \in Link /\ <<v, s>> \in Link /\ s # v /\ v \in Peers(s) /\ s \in Peers(v)
        /\ Home[u] \notin far /\ \A w \in Server : Way(u, s, w) => w = v
        /\ ~Way(u, v, s)
    BY OneWay
  <1>2. /\ s \in far /\ v \notin far /\ far \subseteq Server
        /\ \A p \in Peers(v) \ {s} : Side[<<v, s>>] \subseteq Side[<<p, v>>]
        /\ \A y \in far \ {s} : Peers(y) \subseteq far
        /\ \A p \in Peers(v) \ {s} : v \in Side[<<p, v>>]
    <2>1. \A p \in Peers(v) \ {s} : Side[<<v, s>>] \subseteq Side[<<p, v>>] /\ v \in Side[<<p, v>>]
      BY <1>1, LinkEnds
    <2>2. far \subseteq Server
      BY <1>1, ChannelNetworkAssumption
    <2> QED BY <1>1, <2>1, <2>2, LinkEnds
  <1>3. \A l \in Link :
          /\ KickIn(queue'[l], u) => KickIn(queue[l], u) \/ (l[1] = x /\ KickIn(ms, u))
          /\ AddIn(queue'[l], u) =>
               AddIn(queue[l], u) \/ (l[1] = x /\ l[2] \notin P /\ AddIn(ms, u))
    <2> SUFFICES ASSUME NEW l \in Link
                 PROVE  /\ KickIn(queue'[l], u) =>
                             KickIn(queue[l], u) \/ (l[1] = x /\ KickIn(ms, u))
                        /\ AddIn(queue'[l], u) =>
                             AddIn(queue[l], u) \/ (l[1] = x /\ l[2] \notin P /\ AddIn(ms, u))
      OBVIOUS
    <2>1. l \in Link \ {}
      OBVIOUS
    <2>2. /\ KickIn(queue'[l], u) =>
               KickIn(queue[l], u) \/ (l[1] = x /\ l[2] \notin P /\ KickIn(ms, u))
          /\ AddIn(queue'[l], u) =>
               AddIn(queue[l], u) \/ (l[1] = x /\ l[2] \notin P /\ AddIn(ms, u))
      BY <2>1, ActsIn
    <2> QED BY <2>2
  <1>4. D \in Seq(FairMessage)
    BY <1>1, QueueType
  <1>5. D2 = IF s = x /\ v \in P THEN Tail(D)
             ELSE IF v = x /\ s \notin P /\ link[<<v, s>>] = "up" THEN D \o ms
             ELSE D
    BY <1>1 DEF Acts
  <1>6. JoinWave(s, v, u)
    BY DEF Clean
  <1>7. AddIn(ms, u) => Enters(x, P, ms, u) /\ Len(ms) = 1
    BY AddInSent
  <1>8. \A y \in Server :
          u \in chan'[y].member => u \in chan[y].member \/ (y = x /\ Enters(x, P, ms, u))
    <2>1. ASSUME NEW y \in Server, u \in chan'[y].member, u \notin chan[y].member
          PROVE  y = x /\ Enters(x, P, ms, u)
      <3>1. y = x
        BY <2>1 DEF Acts
      <3> QED BY <2>1, <3>1 DEF Affects, Stays, Leaves
    <2> QED BY <2>1
  <1>9. KickIn(ms, u) => u \in chan[x].member
    BY KickInSent
  <1> HIDE DEF D2, far
  <1>20. CASE AddIn(D, u)
    <2>1. /\ AddOnce(D, u) /\ \A y \in far : u \notin chan[y].member
          /\ \A l \in Link : l[1] \in far => ~AddIn(queue[l], u) /\ ~KickIn(queue[l], u)
      BY <1>6, <1>20 DEF JoinWave, far
    <2>2. ASSUME x \in far, Enters(x, P, ms, u) PROVE FALSE
      <3>1. PICK p \in P : /\ p \in Peers(x) /\ p \in Server /\ <<p, x>> \in Link
                           /\ Way(u, x, p) /\ Adds(Line(p, x), u) /\ AddIn(queue[<<p, x>>], u)
        BY <1>1, <2>2, EntersFrom
      <3>2. p \notin far
        BY <2>1, <3>1
      <3>3. x = s
        BY <1>2, <2>2, <3>1, <3>2
      <3>4. p = v
        BY <1>1, <3>1, <3>3
      <3>5. D2 = Tail(D) /\ D # <<>> /\ Line(v, s) = Head(D)
        BY <1>5, <3>1, <3>3, <3>4 DEF Acts, Line
      <3>6. ~AddIn(Tail(D), u)
        BY <1>4, <2>1, <3>1, <3>3, <3>4, <3>5, OnceParsed
      <3> QED BY <3>5, <3>6
    <2>3. AddOnce(D2, u)
      <3>1. CASE s = x /\ v \in P
        <4>1. D2 = Tail(D) /\ D # <<>>
          BY <1>5, <3>1 DEF Acts
        <4> QED BY <1>4, <2>1, <4>1, OnceParsed
      <3>2. CASE v = x /\ s \notin P /\ link[<<v, s>>] = "up"
        <4>1. D2 = D \o ms
          BY <1>1, <1>5, <3>2
        <4>2. ASSUME AddIn(ms, u) PROVE FALSE
          <5>1. PICK p \in P : /\ p \in Peers(x) /\ p \in Server /\ <<p, x>> \in Link
                               /\ Way(u, x, p) /\ AddIn(queue[<<p, x>>], u) /\ JoinWave(x, p, u)
            BY <1>1, <1>7, <1>20, <4>2, EntersFrom
          <5>2. <<v, s>>[1] \in Side[<<p, x>>]
            BY <1>2, <3>2, <5>1
          <5> QED BY <1>1, <1>20, <5>1, <5>2 DEF JoinWave
        <4> QED BY <1>4, <2>1, <4>1, <4>2, OnceAppended
      <3> QED BY <1>5, <2>1, <3>1, <3>2
    <2>4. \A y \in far : u \notin chan'[y].member
      BY <1>2, <1>8, <2>1, <2>2
    <2>5. \A l \in Link : l[1] \in far => ~AddIn(queue'[l], u) /\ ~KickIn(queue'[l], u)
      BY <1>3, <1>7, <1>9, <2>1, <2>2
    <2> QED BY <2>3, <2>4, <2>5
  <1>21. CASE ~AddIn(D, u)
    <2>1. v = x /\ s \notin P /\ AddIn(ms, u)
      BY <1>1, <1>3, <1>21 DEF D2
    <2>2. Enters(x, P, ms, u) /\ Len(ms) = 1
      BY <1>7, <2>1
    <2>3. AddOnce(D2, u)
      <3>1. D2 = D \o ms \/ D2 = D
        BY <1>1, <1>5, <2>1
      <3>2. AddOnce(D \o ms, u)
        BY <1>4, <1>21, <2>2, OnceAppended
      <3>3. D2 = D => FALSE
        BY <1>21
      <3> QED BY <3>1, <3>2, <3>3
    <2>4. /\ \A y \in far : u \notin chan[y].member
          /\ \A l \in Link : l[1] \in far => ~AddIn(queue[l], u) /\ ~KickIn(queue[l], u)
      <3>1. CASE /\ \A y \in Server : u \notin chan[y].member
                 /\ \A l \in Link : ~AddIn(queue[l], u) /\ ~KickIn(queue[l], u)
        BY <1>2, <3>1
      <3>2. ASSUME NEW p \in P, p \in Peers(x), Way(u, x, p), AddIn(queue[<<p, x>>], u),
                   JoinWave(x, p, u)
            PROVE  <2>4
        <4>1. far \subseteq Side[<<p, x>>]
          BY <1>1, <1>2, <2>1, <3>2 DEF far
        <4> QED BY <3>2, <4>1 DEF JoinWave
      <3> QED BY <2>2, <3>1, <3>2, EntersFrom
    <2>5. x \notin far
      BY <1>2, <2>1
    <2> QED BY <1>2, <1>3, <1>8, <2>3, <2>4, <2>5
  <1> QED BY <1>20, <1>21

\* As long as nobody is removed, whoever is known is at home on the channel.
LEMMA ActsNobodyLeft ==
    ASSUME Fair, Base, Clean, NEW x \in Server, NEW P \in SUBSET Peers(x),
           NEW ms \in Seq(FairMessage),
           Acts(x, P, ms, {}), Affects(x, P, ms, {}), {"again", "removed"} \cap past' = {}
    PROVE  NobodyLeft'
  <1>1. NobodyLeft
    BY DEF Acts, Clean
  <1> SUFFICES ASSUME NEW u \in User,
                      \/ \E y \in Server : u \in chan'[y].member
                      \/ \E l \in Link : AddIn(queue'[l], u)
               PROVE  u \in chan'[Home[u]].member
    BY DEF NobodyLeft, AddIn, Adds
  <1>2. Home[u] \in Server
    BY ChannelAssumption
  <1>3. \A l \in Link : AddIn(queue'[l], u) => AddIn(queue[l], u) \/ AddIn(ms, u)
    <2>1. ASSUME NEW l \in Link PROVE l \in Link \ {}
      OBVIOUS
    <2> QED BY <2>1, ActsIn
  <1>4. AddIn(ms, u) => Enters(x, P, ms, u)
    BY AddInSent
  <1>5. \A y \in Server : u \in chan'[y].member => u \in chan[y].member \/ Enters(x, P, ms, u)
    BY DEF Acts, Affects, Stays, Leaves
  <1>6. u \in chan[Home[u]].member => u \in chan'[Home[u]].member
    BY <1>2 DEF Acts, Affects, Stays, Enters, Leaves
  <1>7. Enters(x, P, ms, u) => u \in chan'[Home[u]].member
    <2>1. Enters(x, P, ms, u) => Home[u] = x \/ \E l \in Link : AddIn(queue[l], u)
      BY EntersFrom
    <2>2. Enters(x, P, ms, u) => u \in chan'[x].member
      BY DEF Enters
    <2> QED BY <1>1, <1>6, <2>1, <2>2 DEF NobodyLeft
  <1> QED BY <1>1, <1>3, <1>4, <1>5, <1>6, <1>7 DEF NobodyLeft

\* As long as nobody who was removed joins, all of that holds.
LEMMA ActsClean ==
    ASSUME Fair, Base, Clean, NEW x \in Server, NEW P \in SUBSET Peers(x),
           NEW ms \in Seq(FairMessage),
           Acts(x, P, ms, {}), Affects(x, P, ms, {}), "again" \notin past'
    PROVE  Clean'
  <1>1. \A l \in Link : link'[l] # "connecting"
    BY DEF Acts, Clean
  <1>2. ASSUME NEW s \in Server, NEW v \in Server, NEW u \in User, Way(u, s, v)
        PROVE  JoinWave(s, v, u)'
    BY <1>2, ActsJoinWave
  <1>3. \A s, v \in Server : \A u \in User : Way(u, s, v)' => JoinWave(s, v, u)'
    BY <1>2 DEF Way
  <1>4. "removed" \notin past' => NobodyLeft'
    BY ActsNobodyLeft
  <1> QED BY <1>1, <1>3, <1>4 DEF Clean

-----------------------------------------------------------------------------
(* A step of one server that leaves the links alone.                       *)

\* What one server parses and sends keeps the invariant.
LEMMA ActsMembers ==
    ASSUME Fair, MembersInv, NEW x \in Server, NEW P \in SUBSET Peers(x),
           NEW ms \in Seq(FairMessage),
           Acts(x, P, ms, {}), Sends(x, P, ms, {}), Affects(x, P, ms, {})
    PROVE  MembersInv'
  <1>1. BothWays({}) /\ past \subseteq past'
    BY DEF BothWays, Acts
  <1>2. Base /\ Streams /\ KnownWays
    BY DEF MembersInv, Base
  <1>3. Streams'
    <2>1. ASSUME NEW l \in Link
          PROVE  HandshakeAt(l)' /\ LegalAt(l)' /\ KickAt(l)'
      <3>1. l \in Link \ {}
        OBVIOUS
      <3>2. HandshakeAt(l)'
        BY <1>1, <1>2, <3>1, ActsHandshake
      <3>3. LegalAt(l)'
        BY <1>2, <3>1, ActsLegal
      <3>4. KickAt(l)'
        BY <1>2, <3>1, ActsKicks
      <3> QED BY <3>2, <3>3, <3>4
    <2> QED BY <2>1 DEF Streams
  <1>4. KnownWays'
    BY <1>2, ActsWays
  <1>5. AllBasic'
    <2>1. ASSUME NEW s \in Server, NEW v \in Server, NEW u \in User, Way(u, s, v)
          PROVE  BasicAt(s, v, u)'
      <3>1. <<s, v>> \notin {}
        OBVIOUS
      <3>2. BothWays({}) /\ Base
        BY <1>1, <1>2
      <3> QED BY ONLY Fair, Acts(x, P, ms, {}), Affects(x, P, ms, {}), <2>1, <3>1, <3>2, ActsPair,
                      x \in Server, P \in SUBSET Peers(x), ms \in Seq(FairMessage),
                      s \in Server, v \in Server, u \in User
    <2>2. \A s, v \in Server : \A u \in User : Way(u, s, v)' => BasicAt(s, v, u)'
      BY <2>1 DEF Way
    <2> QED BY <2>2 DEF AllBasic
  <1>6. ASSUME ~({"kick", "again"} \subseteq past') PROVE AllExact'
    <2>1. ASSUME NEW s \in Server, NEW v \in Server, NEW u \in User, Way(u, s, v)
          PROVE  ExactAt(s, v, u)'
      <3>1. <<s, v>> \notin {}
        OBVIOUS
      <3>2. BothWays({}) /\ ~({"kick", "again"} \subseteq past')
        BY <1>1, <1>6
      <3> QED BY ONLY Fair, MembersInv, Acts(x, P, ms, {}), Affects(x, P, ms, {}), <2>1, <3>1,
                      <3>2, ActsExact, x \in Server, P \in SUBSET Peers(x),
                      ms \in Seq(FairMessage), s \in Server, v \in Server, u \in User
    <2>2. \A s, v \in Server : \A u \in User : Way(u, s, v)' => ExactAt(s, v, u)'
      BY <2>1 DEF Way
    <2> QED BY <2>2 DEF AllExact
  <1>7. ASSUME "kick" \notin past' PROVE Wave'
    <2>1. AllExact /\ Wave
      BY <1>1, <1>7 DEF MembersInv
    <2> QED BY <1>2, <1>7, <2>1, ActsWave
  <1>8. ASSUME "again" \notin past' PROVE Clean'
    <2>1. Clean
      BY <1>1, <1>8 DEF MembersInv
    <2> QED BY <1>2, <1>8, <2>1, ActsClean
  <1> QED BY <1>3, <1>4, <1>5, <1>6, <1>7, <1>8 DEF MembersInv, Base

-----------------------------------------------------------------------------
(* The members an operation leaves.                                        *)

\* The members after each change of a copy (remove_user_from_channel and the others).
LEMMA MembersAfter ==
    ASSUME NEW c \in FairChannel
    PROVE  /\ \A X : RemoveUsers(c, X).member = c.member \ X
           /\ \A X, op : AddUsers(c, X, op).member = c.member \cup X
           /\ \A ts, modes : LoseModes(c, ts, modes).member = c.member
           /\ \A topic, time : SetTopic(c, topic, time).member = c.member
           /\ \A x \in ModeChange : \A given : SetMode(c, x, given).member = c.member
  <1>1. c \in Channel
    BY DEF FairChannel
  <1>2. \A X : RemoveUsers(c, X).member = c.member \ X
    BY <1>1 DEF RemoveUsers, NoChannel, Channel
  <1>3. \A X, op : AddUsers(c, X, op).member = c.member \cup X
    BY <1>1 DEF AddUsers, Channel
  <1>4. \A ts, modes : LoseModes(c, ts, modes).member = c.member
    BY <1>1 DEF LoseModes, Channel
  <1>5. \A topic, time : SetTopic(c, topic, time).member = c.member
    BY <1>1 DEF SetTopic, Channel
  <1>6. ASSUME NEW x \in ModeChange, NEW given
        PROVE  SetMode(c, x, given).member = c.member
    <2>1. SetStatus(c, x, given).member = c.member
      BY <1>1 DEF SetStatus, Channel
    <2>2. SetFlag(c, x).member = c.member
      BY <1>1 DEF SetFlag, Channel
    <2>3. SetBan(c, x).member = c.member
      BY <1>1 DEF SetBan, Channel
    <2>4. x.what \in {"op", "deop", "flag", "unflag", "ban", "unban"}
      BY DEF ModeChange
    <2> QED BY <2>1, <2>2, <2>3, <2>4 DEF SetMode
  <1> QED BY <1>2, <1>3, <1>4, <1>5, <1>6

\* What became of the channel at x.
LEMMA MembersSet ==
    ASSUME Fair, NEW x \in Server, NEW c, Set(x, c)
    PROVE  chan'[x] = c /\ \A y \in Server \ {x} : chan'[y] = chan[y]
  BY DEF Set, Fair

\* The members after some leave.
LEMMA MembersLeft ==
    ASSUME Fair, NEW x \in Server, NEW X, NEW why, Leave(x, X, why)
    PROVE  /\ chan'[x].member = chan[x].member \ X
           /\ \A y \in Server \ {x} : chan'[y] = chan[y]
           /\ past \subseteq past' /\ why \subseteq past'
           /\ X \cap chan[x].member # {} => "removed" \in past'
  <1>1. chan'[x] = RemoveUsers(chan[x], X) /\ \A y \in Server \ {x} : chan'[y] = chan[y]
    BY MembersSet DEF Leave
  <1>2. chan[x] \in FairChannel
    BY DEF Fair
  <1>3. chan'[x].member = chan[x].member \ X
    BY <1>1, <1>2, MembersAfter
  <1> QED BY <1>1, <1>3 DEF Leave

-----------------------------------------------------------------------------
(* What local users and handlers send.                                     *)

\* What a local user does is sent to every neighbour.
LEMMA SaysActs ==
    ASSUME Fair, NEW x \in Server, NEW ms \in Seq(FairMessage),
           Send(x, ToServers(x, {}, ms)), link' = link, past \subseteq past',
           \A y \in Server \ {x} : chan'[y] = chan[y]
    PROVE  Acts(x, {}, ms, {})
  <1>1. ASSUME NEW l \in Link
        PROVE  queue'[l] = IF l[1] = x /\ link[l] = "up" THEN queue[l] \o ms ELSE queue[l]
    <2>1. queue[l] \in Seq(FairMessage) /\ l = <<l[1], l[2]>> /\ l[2] \in Peers(l[1])
      BY LinkIsPair, QueueType
    <2>2. queue[l] \o <<>> = queue[l]
      BY <2>1, ConcatEmptySeq
    <2>3. queue'[l] = IF l[1] = x THEN queue[l] \o ToServers(x, {}, ms)[l[2]] ELSE queue[l]
      BY DEF Send
    <2>4. l[1] = x => ToServers(x, {}, ms)[l[2]] = IF link[l] = "up" THEN ms ELSE <<>>
      BY <2>1 DEF ToServers
    <2> QED BY <2>2, <2>3, <2>4
  <1> QED BY <1>1 DEF Acts

\* What a neighbour says is passed on to the others, or ignored.
LEMMA RelaysActs ==
    ASSUME Fair, NEW x \in Server, NEW p \in Server, NEW types, Parses(x, p, types),
           types \cap {"SERVER", "CLOSE"} = {}, NEW ms \in Seq(FairMessage),
           Relay(p, x, ms) \/ (ms = <<>> /\ Ignore(p, x)),
           link' = link, past \subseteq past', \A y \in Server \ {x} : chan'[y] = chan[y]
    PROVE  {p} \in SUBSET Peers(x) /\ Acts(x, {p}, ms, {})
  <1>1. /\ p \in Peers(x) /\ queue[<<p, x>>] # <<>> /\ Line(p, x).type \in types
        /\ link[<<x, p>>] # "down"
    BY LineFair DEF Fair, Parses
  <1>2. <<p, x>> \in Link /\ x # p
    BY <1>1, LinkEnds
  <1>3. ASSUME NEW l \in Link
        PROVE  queue'[l] = IF l[2] = x /\ l[1] \in {p} THEN Tail(queue[l])
                           ELSE IF l[1] = x /\ l[2] \notin {p} /\ link[l] = "up"
                             THEN queue[l] \o ms
                           ELSE queue[l]
    <2>1. queue[l] \in Seq(FairMessage) /\ l = <<l[1], l[2]>> /\ l[2] \in Peers(l[1])
      BY LinkIsPair, QueueType
    <2>2. queue[l] \o <<>> = queue[l]
      BY <2>1, ConcatEmptySeq
    <2>3. l = <<p, x>> <=> l[2] = x /\ l[1] \in {p}
      BY <2>1
    <2>4. CASE Relay(p, x, ms)
      <3>1. queue'[l] = IF l = <<p, x>> THEN Tail(queue[l])
                        ELSE IF l[1] = x THEN queue[l] \o ToServers(x, {p}, ms)[l[2]]
                        ELSE queue[l]
        BY <2>4 DEF Relay, Answer
      <3>2. l[1] = x => ToServers(x, {p}, ms)[l[2]] =
                          IF l[2] \notin {p} /\ link[l] = "up" THEN ms ELSE <<>>
        BY <2>1 DEF ToServers
      <3> QED BY <2>2, <2>3, <3>1, <3>2
    <2>5. CASE ms = <<>> /\ Ignore(p, x)
      <3>1. queue'[l] = IF l = <<p, x>> THEN Tail(queue[l])
                        ELSE IF l[1] = x THEN queue[l] \o ToServers(x, {}, <<>>)[l[2]]
                        ELSE queue[l]
        BY <2>5 DEF Ignore, Answer
      <3>2. l[1] = x => ToServers(x, {}, <<>>)[l[2]] = <<>>
        BY <2>1 DEF ToServers
      <3> QED BY <2>2, <2>3, <2>5, <3>1, <3>2
    <2> QED BY <2>4, <2>5
  <1> QED BY <1>1, <1>2, <1>3 DEF Acts

\* Lines that are not about members.
Indifferent == {"TMODE", "MODE", "BMASK", "TOPIC", "TBURST"}

\* Modes, bans and topics are no matter of the members.
LEMMA IndifferentActs ==
    ASSUME NEW x, NEW P, NEW ms, \A m \in Lines(ms) : m.type \in Indifferent,
           chan'[x].member = chan[x].member, \A p \in P : Line(p, x).type \in Indifferent
    PROVE  Sends(x, P, ms, {}) /\ Affects(x, P, ms, {})
  <1>1. \A m \in Lines(ms) :
          m.type \notin {"SERVER", "CLOSE", "SJOIN", "JOIN", "PART", "KICK", "SQUIT"}
    BY DEF Indifferent
  <1>2. \A p \in P :
          Line(p, x).type \notin {"SERVER", "CLOSE", "SJOIN", "JOIN", "PART", "KICK", "SQUIT"}
    BY DEF Indifferent
  <1>3. Sends(x, P, ms, {})
    BY <1>1 DEF Sends
  <1>4. \A u \in User : Stays(x, P, ms, u)
    BY <1>1, <1>2 DEF Stays, Adds, Kicks, Takes
  <1> QED BY <1>3, <1>4 DEF Affects

-----------------------------------------------------------------------------
(* What local users do to the members.                                     *)

\* A local user does something that is not about members.
LEMMA IndifferentSaid ==
    ASSUME Fair, MembersInv, NEW x \in Server, NEW c, Set(x, c), c.member = chan[x].member,
           NEW ms \in Seq(FairMessage), \A m \in Lines(ms) : m.type \in Indifferent,
           Send(x, ToServers(x, {}, ms)), link' = link, past \subseteq past'
    PROVE  MembersInv'
  <1>1. chan'[x] = c /\ \A y \in Server \ {x} : chan'[y] = chan[y]
    BY MembersSet
  <1>2. Acts(x, {}, ms, {})
    BY <1>1, SaysActs
  <1>3. Sends(x, {}, ms, {}) /\ Affects(x, {}, ms, {})
    BY <1>1, IndifferentActs
  <1>4. {} \in SUBSET Peers(x)
    OBVIOUS
  <1> QED BY <1>2, <1>3, <1>4, ActsMembers

\* A local user does something to u, in one line.
LEMMA OneSaid ==
    ASSUME Fair, MembersInv, NEW x \in Server, \A y \in Server \ {x} : chan'[y] = chan[y],
           NEW m \in FairMessage, m.type \notin {"SERVER", "CLOSE", "SQUIT"},
           m.type = "PART" => "kick" \in past' \/ NoKicks,
           m.type \in {"JOIN", "PART"} => Home[m.uid] = x,
           NEW u \in User, \A w \in User \ {u} : ~Adds(m, w) /\ \A t : ~Takes(t, m, w),
           \A w \in User \ {u} : w \in chan'[x].member <=> w \in chan[x].member,
           Enters(x, {}, <<m>>, u) \/ Leaves(x, {}, <<m>>, {}, u),
           Send(x, ToServers(x, {}, <<m>>)), link' = link, past \subseteq past'
    PROVE  MembersInv'
  <1>1. <<m>> \in Seq(FairMessage) /\ Lines(<<m>>) = {m} /\ {} \in SUBSET Peers(x)
    BY ShortSeq, LinesOne
  <1>2. Acts(x, {}, <<m>>, {})
    BY <1>1, SaysActs
  <1>3. Sends(x, {}, <<m>>, {})
    BY <1>1 DEF Sends
  <1>4. \A w \in User \ {u} : Stays(x, {}, <<m>>, w)
    BY <1>1, AddsOrTakes DEF Stays
  <1>5. Affects(x, {}, <<m>>, {})
    BY <1>4 DEF Affects
  <1> QED BY <1>1, <1>2, <1>3, <1>5, ActsMembers

LEMMA CreateMembers ==
    ASSUME Fair, MembersInv, NEW u \in User, NEW t \in Clock[Home[u]], Create(u, t)
    PROVE  MembersInv'
  <1> DEFINE s == Home[u]
             op == [NoOp EXCEPT ![u] = t]
             m == SjoinMsg(t, {"nt"}, {u}, op)
  <1>1. s \in Server /\ t \in Nat
    BY ChannelAssumption
  <1>2. m \in FairMessage
    <2>1. op \in [User -> Nat] /\ (NoLong => \A w \in User : op[w] <= t)
      BY <1>1, NoOpType
    <2>2. {"nt"} \in SUBSET Modes
      BY DEF Modes
    <2> HIDE DEF op
    <2> QED BY <1>1, <2>1, <2>2, SjoinFair
  <1>3. /\ m.type = "SJOIN" /\ m.nicks = {u}
    BY DEF SjoinMsg
  <1>4. /\ chan'[s].member = {u} /\ chan[s].member = {}
        /\ \A y \in Server \ {s} : chan'[y] = chan[y]
        /\ Send(s, ToServers(s, {}, <<m>>)) /\ link' = link /\ past' = past \cup Again
    <2>1. [NoChannel EXCEPT !.ts = t, !.member = {u}, !.op = op, !.modes = {"nt"}].member = {u}
      BY DEF NoChannel
    <2> QED BY <1>1, <2>1, MembersSet DEF Create, Exists
  <1> HIDE DEF m
  <1>5. Enters(s, {}, <<m>>, u)
    BY <1>2, <1>3, <1>4 DEF Enters, Adds
  <1>6. \A w \in User \ {u} : ~Adds(m, w) /\ \A y : ~Takes(y, m, w)
    BY <1>3 DEF Adds, Takes, Kicks
  <1> QED BY <1>1, <1>2, <1>3, <1>4, <1>5, <1>6, OneSaid

LEMMA JoinMembers ==
    ASSUME Fair, MembersInv, NEW u \in User, Join(u)
    PROVE  MembersInv'
  <1> DEFINE s == Home[u]
             m == [type |-> "JOIN", uid |-> u, ts |-> chan[s].ts]
  <1>1. s \in Server /\ chan[s] \in FairChannel
    BY ChannelAssumption DEF Fair
  <1>2. m \in FairMessage
    BY <1>1, ChannelFields, OtherFair
  <1>3. m.type = "JOIN" /\ m.uid = u
    OBVIOUS
  <1>4. /\ chan'[s].member = chan[s].member \cup {u} /\ u \notin chan[s].member
        /\ \A y \in Server \ {s} : chan'[y] = chan[y]
        /\ Send(s, ToServers(s, {}, <<m>>)) /\ link' = link /\ past' = past \cup Again
    <2>1. [chan[s] EXCEPT !.member = @ \cup {u}].member = chan[s].member \cup {u}
      BY <1>1 DEF FairChannel, Channel
    <2> QED BY <1>1, <2>1, MembersSet DEF Join
  <1> HIDE DEF m
  <1>5. Enters(s, {}, <<m>>, u)
    BY <1>2, <1>3, <1>4 DEF Enters, Adds
  <1>6. \A w \in User \ {u} : ~Adds(m, w) /\ \A y : ~Takes(y, m, w)
    BY <1>3 DEF Adds, Takes, Kicks
  <1> QED BY <1>1, <1>2, <1>3, <1>4, <1>5, <1>6, OneSaid

\* A leave is noticed if a KICK is on its way.
LEMMA CrossedKick ==
    ASSUME Fair, Crossed \subseteq past'
    PROVE  "kick" \in past' \/ NoKicks
  <1>1. ASSUME NEW l \in Link, NEW m \in Lines(queue[l]), m.type = "KICK"
        PROVE  "kick" \in past'
    <2>1. InFlight({"KICK"})
      BY <1>1 DEF InFlight, Lines
    <2> QED BY <2>1 DEF Crossed
  <1> QED BY <1>1 DEF NoKicks

LEMMA PartMembers ==
    ASSUME Fair, MembersInv, NEW u \in User, Part(u)
    PROVE  MembersInv'
  <1> DEFINE s == Home[u]
             m == [type |-> "PART", uid |-> u]
  <1>1. s \in Server
    BY ChannelAssumption
  <1>2. m \in FairMessage
    BY OtherFair
  <1>3. m.type = "PART" /\ m.uid = u
    OBVIOUS
  <1>4. /\ chan'[s].member = chan[s].member \ {u}
        /\ \A y \in Server \ {s} : chan'[y] = chan[y]
        /\ Send(s, ToServers(s, {}, <<m>>)) /\ link' = link /\ past \subseteq past'
        /\ "removed" \in past' /\ Crossed \subseteq past'
    <2>1. {u} \cap chan[s].member # {}
      BY DEF Part
    <2> QED BY <1>1, <2>1, MembersLeft DEF Part
  <1>5. "kick" \in past' \/ NoKicks
    BY <1>4, CrossedKick
  <1> HIDE DEF m
  <1>6. Leaves(s, {}, <<m>>, {}, u)
    BY <1>2, <1>3, <1>4, <1>5 DEF Leaves, Adds, Takes, Kicks
  <1>7. \A w \in User \ {u} : ~Adds(m, w) /\ \A y : ~Takes(y, m, w)
    BY <1>3 DEF Adds, Takes, Kicks
  <1> QED BY <1>1, <1>2, <1>3, <1>4, <1>5, <1>6, <1>7, OneSaid

LEMMA KickMembers ==
    ASSUME Fair, MembersInv, NEW o \in User, NEW u \in User, Kick(o, u)
    PROVE  MembersInv'
  <1> DEFINE s == Home[o]
             m == [type |-> "KICK", uid |-> u]
  <1>1. s \in Server
    BY ChannelAssumption
  <1>2. m \in FairMessage
    BY OtherFair
  <1>3. m.type = "KICK" /\ m.uid = u
    OBVIOUS
  <1>4. /\ chan'[s].member = chan[s].member \ {u} /\ u \in chan[s].member
        /\ \A y \in Server \ {s} : chan'[y] = chan[y]
        /\ Send(s, ToServers(s, {}, <<m>>)) /\ link' = link /\ past \subseteq past'
        /\ "removed" \in past' /\ Made("kick") \subseteq past'
    <2>1. {u} \cap chan[s].member # {}
      BY DEF Kick
    <2>2. Leave(s, {u}, Crossed \cup Made("kick"))
      BY DEF Kick
    <2>3. Crossed \cup Made("kick") \subseteq past'
      BY <1>1, <2>2, MembersLeft
    <2>4. /\ chan'[s].member = chan[s].member \ {u} /\ past \subseteq past'
          /\ \A y \in Server \ {s} : chan'[y] = chan[y]
          /\ "removed" \in past'
      BY <1>1, <2>1, <2>2, MembersLeft
    <2> QED BY <2>3, <2>4 DEF Kick
  <1> HIDE DEF m
  <1>5. Leaves(s, {}, <<m>>, {}, u)
    BY <1>2, <1>3, <1>4 DEF Leaves, Adds, Takes, Kicks
  <1>6. \A w \in User \ {u} : ~Adds(m, w) /\ \A y : ~Takes(y, m, w)
    BY <1>3 DEF Adds, Takes, Kicks
  <1> QED BY <1>1, <1>2, <1>3, <1>4, <1>5, <1>6, OneSaid

LEMMA ModeMembers ==
    ASSUME Fair, MembersInv, NEW o \in User, NEW x \in Change, Mode(o, x)
    PROVE  MembersInv'
  <1> DEFINE s == Home[o]
             c == chan[s]
             m == TmodeMsg(o, c.ts, x, c.ts)
  <1>1. s \in Server /\ c \in FairChannel /\ x \in ModeChange /\ c.ts \in Nat
    BY ChannelAssumption, ChannelFields DEF Fair
  <1>2. <<m>> \in Seq(FairMessage)
    BY <1>1, TmodeFair, ShortSeq
  <1>3. \A n \in Lines(<<m>>) : n.type \in Indifferent
    BY LinesOne DEF TmodeMsg, Indifferent
  <1>4. SetMode(c, x, c.ts).member = c.member
    BY <1>1, MembersAfter
  <1>5. /\ Set(s, SetMode(c, x, c.ts)) /\ Send(s, ToServers(s, {}, <<m>>))
        /\ link' = link /\ past \subseteq past'
    BY DEF Mode
  <1> QED BY <1>1, <1>2, <1>3, <1>4, <1>5, IndifferentSaid

LEMMA LongModeMembers ==
    ASSUME Fair, MembersInv, NEW o \in User, NEW x \in Change, NEW y \in Change,
           LongMode(o, x, y)
    PROVE  MembersInv'
  <1> DEFINE s == Home[o]
             c == chan[s]
             d == SetMode(c, x, c.ts)
             m == TmodeMsg(o, c.ts, x, c.ts)
             n == ModeMsg(o, y, c.ts)
             ms == <<m, n>>
  <1>1. /\ s \in Server /\ c \in FairChannel /\ x \in ModeChange /\ y \in ModeChange
        /\ c.ts \in Nat
    BY ChannelAssumption, ChannelFields DEF Fair
  <1>2. d \in FairChannel /\ d.member = c.member
    BY <1>1, SetModeFair, MembersAfter
  <1>3. SetMode(d, y, c.ts).member = d.member
    <2> HIDE DEF d
    <2> QED BY <1>1, <1>2, MembersAfter
  <1>4. ~NoLong
    BY DEF LongMode, Spend, Fair
  <1>5. m \in FairMessage /\ n \in FairMessage
    BY <1>1, <1>4, TmodeFair, ModeFairLine
  <1>6. ms \in Seq(FairMessage)
    <2> HIDE DEF m, n
    <2> QED BY <1>5
  <1>7. \A k \in Lines(ms) : k.type \in Indifferent
    <2>1. m.type = "TMODE" /\ n.type = "MODE"
      BY DEF TmodeMsg, ModeMsg
    <2> HIDE DEF m, n
    <2>2. Lines(ms) = {m, n}
      BY DEF Lines
    <2> QED BY <2>1, <2>2 DEF Indifferent
  <1>8. /\ Set(s, SetMode(d, y, c.ts)) /\ Send(s, ToServers(s, {}, ms))
        /\ link' = link /\ past \subseteq past'
    BY DEF LongMode
  <1> HIDE DEF d, ms
  <1> QED BY <1>1, <1>2, <1>3, <1>6, <1>7, <1>8, IndifferentSaid

LEMMA LocalTopicMembers ==
    ASSUME Fair, MembersInv, NEW u \in User, NEW topic \in Topic \cup {"none"},
           NEW t \in Clock[Home[u]], LocalTopic(u, topic, t)
    PROVE  MembersInv'
  <1> DEFINE s == Home[u]
             c == chan[s]
             m == [type |-> "TOPIC", src |-> u, topic |-> topic]
  <1>1. s \in Server /\ c \in FairChannel
    BY ChannelAssumption DEF Fair
  <1>2. <<m>> \in Seq(FairMessage)
    BY OtherFair, ShortSeq
  <1>3. \A n \in Lines(<<m>>) : n.type \in Indifferent
    BY LinesOne DEF Indifferent
  <1>4. SetTopic(c, topic, t).member = c.member
    BY <1>1, MembersAfter
  <1>5. /\ Set(s, SetTopic(c, topic, t)) /\ Send(s, ToServers(s, {}, <<m>>))
        /\ link' = link /\ past \subseteq past'
    BY DEF LocalTopic
  <1> QED BY <1>1, <1>2, <1>3, <1>4, <1>5, IndifferentSaid

LEMMA LocalMembers ==
    ASSUME Fair, MembersInv, Local
    PROVE  MembersInv'
  BY CreateMembers, JoinMembers, PartMembers, KickMembers, ModeMembers, LongModeMembers,
     LocalTopicMembers DEF Local

-----------------------------------------------------------------------------
(* What a line from a neighbour does to them.                              *)

\* The line that s parses.
LEMMA HandlerLine ==
    ASSUME Fair, Base, NEW s \in Server, NEW v \in Server, NEW types, Parses(s, v, types)
    PROVE  /\ v \in Peers(s) /\ <<v, s>> \in Link /\ <<s, v>> \in Link
           /\ queue[<<v, s>>] # <<>>
           /\ Line(v, s) \in FairMessage /\ Line(v, s).type \in types
           /\ Line(v, s) \in Lines(queue[<<v, s>>])
           /\ LegalLine(Line(v, s), <<v, s>>) /\ Back(<<v, s>>) = <<s, v>>
  <1>1. /\ v \in Peers(s) /\ queue[<<v, s>>] # <<>>
        /\ Line(v, s) \in FairMessage /\ Line(v, s).type \in types
    BY LineFair DEF Fair
  <1>2. <<v, s>> \in Link /\ <<s, v>> \in Link
    BY <1>1, LinkEnds
  <1>3. Line(v, s) \in Lines(queue[<<v, s>>])
    <2>1. queue[<<v, s>>] \in Seq(FairMessage)
      BY <1>2, QueueType
    <2> QED BY <1>1, <2>1, LinesParsed DEF Line
  <1>4. LegalLine(Line(v, s), <<v, s>>)
    BY <1>2, <1>3 DEF Base, Streams, LegalAt
  <1> QED BY <1>1, <1>2, <1>3, <1>4 DEF Back

\* A handler of a line that is not about members.
LEMMA IndifferentHandled ==
    ASSUME Fair, MembersInv, NEW s \in Server, NEW v \in Server,
           Parses(s, v, {"TMODE", "MODE"}) \/ Parses(s, v, {"BMASK"})
             \/ Parses(s, v, {"TOPIC"}) \/ Parses(s, v, {"TBURST"}),
           chan'[s].member = chan[s].member, \A y \in Server \ {s} : chan'[y] = chan[y],
           NEW ms \in Seq(FairMessage), \A m \in Lines(ms) : m.type \in Indifferent,
           Relay(v, s, ms) \/ (ms = <<>> /\ Ignore(v, s)),
           UNCHANGED <<link, past>>
    PROVE  MembersInv'
  <1>1. Parses(s, v, Indifferent)
    BY DEF Parses, Indifferent
  <1>2. Line(v, s).type \in Indifferent
    BY <1>1 DEF Parses, Line
  <1>3. Indifferent \cap {"SERVER", "CLOSE"} = {}
    BY DEF Indifferent
  <1>4. {v} \in SUBSET Peers(s) /\ Acts(s, {v}, ms, {})
    BY <1>1, <1>3, RelaysActs
  <1>5. Sends(s, {v}, ms, {}) /\ Affects(s, {v}, ms, {})
    BY <1>2, IndifferentActs
  <1> QED BY <1>4, <1>5, ActsMembers

\* What a handler that ignores the line leaves alone.
LEMMA Ignored ==
    ASSUME Fair, MembersInv, NEW s \in Server, NEW v \in Server,
           Parses(s, v, {"TMODE", "MODE"}) \/ Parses(s, v, {"BMASK"})
             \/ Parses(s, v, {"TOPIC"}) \/ Parses(s, v, {"TBURST"}),
           UNCHANGED chan, Ignore(v, s), UNCHANGED <<link, past>>
    PROVE  MembersInv'
  <1>1. <<>> \in Seq(FairMessage) /\ \A m \in Lines(<<>>) : m.type \in Indifferent
    BY EmptySeq, LinesOne
  <1> QED BY <1>1, IndifferentHandled

LEMMA MsModeMembers ==
    ASSUME Fair, MembersInv, NEW s \in Server, NEW v \in Server, MsMode(s, v)
    PROVE  MembersInv'
  <1> DEFINE m == Line(v, s)
             c == chan[s]
             n == TmodeMsg(m.src, c.ts, m.change, m.given)
  <1>1. Parses(s, v, {"TMODE", "MODE"}) /\ UNCHANGED <<link, past>>
    BY DEF MsMode
  <1>2. m \in FairMessage /\ m.type \in {"TMODE", "MODE"} /\ c \in FairChannel
    BY <1>1, LineFair DEF Fair
  <1>3. m.change \in ModeChange
    BY <1>2, MessageFields
  <1>4. CASE Accepts(c, m) /\ Effective(c, m.change)
    <2>1. Set(s, SetMode(c, m.change, m.given)) /\ Relay(v, s, <<n>>)
      BY <1>4 DEF MsMode
    <2>2. SetMode(c, m.change, m.given).member = c.member
      BY <1>2, <1>3, MembersAfter
    <2>3. chan'[s].member = c.member /\ \A y \in Server \ {s} : chan'[y] = chan[y]
      BY <2>1, <2>2, MembersSet
    <2>4. n \in FairMessage
      <3>1. m.type = "TMODE" \/ m.type = "MODE"
        BY <1>2
      <3>2. /\ m.src \in User /\ m.given \in Nat /\ c.ts \in Nat
        BY <1>2, <3>1, MessageFields, ChannelFields
      <3>3. NoLong => m.given <= c.ts
        <4>1. ASSUME NoLong PROVE m.given <= c.ts
          <5>1. m.type = "TMODE"
            BY <1>2, <3>1, <4>1, MessageFields
          <5>2. m.ts \in Nat /\ m.given <= m.ts
            BY <1>2, <4>1, <5>1, MessageFields
          <5>3. m.ts <= c.ts
            BY <1>4, <5>1 DEF Accepts
          <5>4. \A a, b, d \in Nat : a <= b /\ b <= d => a <= d
            OBVIOUS
          <5> QED BY <3>2, <5>2, <5>3, <5>4
        <4> QED BY <4>1
      <3> QED BY <1>3, <3>2, <3>3, TmodeFair
    <2>5. <<n>> \in Seq(FairMessage)
      BY <2>4, ShortSeq
    <2>6. \A k \in Lines(<<n>>) : k.type \in Indifferent
      BY LinesOne DEF TmodeMsg, Indifferent
    <2> QED BY <1>1, <2>1, <2>3, <2>5, <2>6, IndifferentHandled
  <1>5. CASE ~(Accepts(c, m) /\ Effective(c, m.change))
    <2>1. UNCHANGED chan /\ Ignore(v, s)
      BY <1>5 DEF MsMode
    <2> QED BY <1>1, <2>1, Ignored
  <1> QED BY <1>4, <1>5

LEMMA MsBmaskMembers ==
    ASSUME Fair, MembersInv, NEW s \in Server, NEW v \in Server, MsBmask(s, v)
    PROVE  MembersInv'
  <1> DEFINE m == Line(v, s)
             c == chan[s]
             n == [m EXCEPT !.ts = c.ts]
             d == [c EXCEPT !.bans = @ \cup m.bans]
  <1>1. Parses(s, v, {"BMASK"}) /\ UNCHANGED <<link, past>>
    BY DEF MsBmask
  <1>2. m \in FairMessage /\ m.type = "BMASK" /\ c \in FairChannel
    <2>1. m \in FairMessage /\ m.type \in {"BMASK"}
      BY <1>1, LineFair DEF Fair
    <2> QED BY <2>1 DEF Fair
  <1>3. CASE Exists(c) /\ m.ts <= c.ts
    <2>1. Set(s, d) /\ Relay(v, s, <<n>>)
      BY <1>3 DEF MsBmask
    <2>2. d.member = c.member
      BY <1>2 DEF FairChannel, Channel
    <2>3. chan'[s].member = c.member /\ \A y \in Server \ {s} : chan'[y] = chan[y]
      BY <2>1, <2>2, MembersSet
    <2>4. n \in FairMessage /\ n.type = "BMASK"
      <3>1. c.ts \in Nat
        BY <1>2, ChannelFields
      <3>2. n \in FairMessage
        BY <1>2, <3>1, RestampedFair
      <3>3. n.type = "BMASK"
        BY <1>2 DEF FairMessage, Message
      <3> QED BY <3>2, <3>3
    <2>5. <<n>> \in Seq(FairMessage)
      BY <2>4, ShortSeq
    <2>6. \A k \in Lines(<<n>>) : k.type \in Indifferent
      BY <2>4, LinesOne DEF Indifferent
    <2> QED BY <1>1, <2>1, <2>3, <2>5, <2>6, IndifferentHandled
  <1>4. CASE ~(Exists(c) /\ m.ts <= c.ts)
    <2>1. UNCHANGED chan /\ Ignore(v, s)
      BY <1>4 DEF MsBmask
    <2> QED BY <1>1, <2>1, Ignored
  <1> QED BY <1>3, <1>4

LEMMA MsTopicMembers ==
    ASSUME Fair, MembersInv, NEW s \in Server, NEW v \in Server, MsTopic(s, v)
    PROVE  MembersInv'
  <1> DEFINE m == Line(v, s)
             c == chan[s]
  <1>1. Parses(s, v, {"TOPIC"}) /\ UNCHANGED <<link, past>>
    BY DEF MsTopic
  <1>2. m \in FairMessage /\ m.type = "TOPIC" /\ c \in FairChannel
    <2>1. m \in FairMessage /\ m.type \in {"TOPIC"}
      BY <1>1, LineFair DEF Fair
    <2> QED BY <2>1 DEF Fair
  <1>3. CASE MayTopic(c, m.src)
    <2>1. PICK t \in Clock[s] : Set(s, SetTopic(c, m.topic, t))
      BY <1>3 DEF MsTopic
    <2>2. Relay(v, s, <<m>>)
      BY <1>3 DEF MsTopic
    <2>3. chan'[s].member = c.member /\ \A y \in Server \ {s} : chan'[y] = chan[y]
      BY <1>2, <2>1, MembersAfter, MembersSet
    <2>4. <<m>> \in Seq(FairMessage) /\ \A k \in Lines(<<m>>) : k.type \in Indifferent
      BY <1>2, ShortSeq, LinesOne DEF Indifferent
    <2> QED BY <1>1, <2>2, <2>3, <2>4, IndifferentHandled
  <1>4. CASE ~MayTopic(c, m.src)
    <2>1. UNCHANGED chan /\ Ignore(v, s)
      BY <1>4 DEF MsTopic
    <2> QED BY <1>1, <2>1, Ignored
  <1> QED BY <1>3, <1>4

LEMMA MsTburstMembers ==
    ASSUME Fair, MembersInv, NEW s \in Server, NEW v \in Server, MsTburst(s, v)
    PROVE  MembersInv'
  <1> DEFINE m == Line(v, s)
             c == chan[s]
             accept == m.ts < c.ts \/ (m.ts = c.ts /\ m.time > c.topictime)
             d == IF accept THEN SetTopic(c, m.topic, m.time) ELSE c
  <1>1. Parses(s, v, {"TBURST"}) /\ UNCHANGED <<link, past>>
    BY DEF MsTburst
  <1>2. m \in FairMessage /\ m.type = "TBURST" /\ c \in FairChannel
    <2>1. m \in FairMessage /\ m.type \in {"TBURST"}
      BY <1>1, LineFair DEF Fair
    <2> QED BY <2>1 DEF Fair
  <1>3. CASE Exists(c)
    <2>1. Set(s, d) /\ Relay(v, s, <<m>>)
      BY <1>3 DEF MsTburst
    <2>2. d.member = c.member
      BY <1>2, MembersAfter
    <2>3. chan'[s].member = c.member /\ \A y \in Server \ {s} : chan'[y] = chan[y]
      BY <2>1, <2>2, MembersSet
    <2>4. <<m>> \in Seq(FairMessage) /\ \A k \in Lines(<<m>>) : k.type \in Indifferent
      BY <1>2, ShortSeq, LinesOne DEF Indifferent
    <2> QED BY <1>1, <2>1, <2>3, <2>4, IndifferentHandled
  <1>4. CASE ~Exists(c)
    <2>1. UNCHANGED chan /\ Ignore(v, s)
      BY <1>4 DEF MsTburst
    <2> QED BY <1>1, <2>1, Ignored
  <1> QED BY <1>3, <1>4

-----------------------------------------------------------------------------
(* ms_sjoin and ms_join                                                    *)

\* An SJOIN: who comes from the right direction joins, and that is passed on.
LEMMA SjoinHandled ==
    ASSUME Fair, MembersInv, NEW s \in Server, NEW v \in Server, Parses(s, v, {"SJOIN"}),
           NEW X, X = Nicks(s, v, Line(v, s)), chan'[s].member = chan[s].member \cup X,
           \A y \in Server \ {s} : chan'[y] = chan[y],
           \/ /\ X = {} /\ Ignore(v, s)
           \/ \E n \in FairMessage : n.type = "SJOIN" /\ n.nicks = X /\ RelaySjoin(v, s, n),
           UNCHANGED <<link, past>>
    PROVE  MembersInv'
  <1>1. /\ v \in Peers(s) /\ Line(v, s) \in FairMessage /\ Line(v, s).type = "SJOIN"
    <2>1. v \in Peers(s) /\ Line(v, s) \in FairMessage /\ Line(v, s).type \in {"SJOIN"}
      BY LineFair DEF Fair
    <2> QED BY <2>1
  <1>2. \A u \in User : u \in X <=> Way(u, s, v) /\ Adds(Line(v, s), u)
    BY <1>1 DEF Nicks, Way, Adds
  <1>3. {"SJOIN"} \cap {"SERVER", "CLOSE"} = {}
    OBVIOUS
  <1>4. \A u \in User : ~Kicks(Line(v, s), u) /\ ~Takes(s, Line(v, s), u)
    BY <1>1 DEF Kicks, Takes
  <1>5. CASE X = {} /\ Ignore(v, s)
    <2>1. <<>> \in Seq(FairMessage) /\ Lines(<<>>) = {}
      BY EmptySeq, LinesOne
    <2>2. {v} \in SUBSET Peers(s) /\ Acts(s, {v}, <<>>, {})
      BY <1>3, <1>5, <2>1, RelaysActs
    <2>3. Sends(s, {v}, <<>>, {})
      BY <2>1 DEF Sends
    <2>4. \A u \in User : Stays(s, {v}, <<>>, u)
      BY <1>2, <1>4, <1>5, <2>1 DEF Stays
    <2> QED BY <2>1, <2>2, <2>3, <2>4, ActsMembers DEF Affects
  <1>6. ASSUME NEW n \in FairMessage, n.type = "SJOIN", n.nicks = X, Relay(v, s, <<n>>)
        PROVE  MembersInv'
    <2>1. <<n>> \in Seq(FairMessage) /\ Lines(<<n>>) = {n}
      BY ShortSeq, LinesOne
    <2>2. {v} \in SUBSET Peers(s) /\ Acts(s, {v}, <<n>>, {})
      BY <1>3, <1>6, <2>1, RelaysActs
    <2>3. Sends(s, {v}, <<n>>, {})
      BY <1>6, <2>1 DEF Sends
    <2>4. \A u \in User : (Adds(n, u) <=> u \in X) /\ ~Kicks(n, u) /\ \A t : ~Takes(t, n, u)
      BY <1>6 DEF Adds, Kicks, Takes
    <2>5. \A u \in User : u \in X => Enters(s, {v}, <<n>>, u)
      BY <1>2, <2>4 DEF Enters
    <2>6. \A u \in User : u \notin X => Stays(s, {v}, <<n>>, u)
      BY <1>2, <1>4, <2>1, <2>4 DEF Stays
    <2> QED BY <2>1, <2>2, <2>3, <2>5, <2>6, ActsMembers DEF Affects
  <1> QED BY <1>5, <1>6 DEF RelaySjoin

LEMMA SjoinWinsMembers ==
    ASSUME Fair, MembersInv, NEW s \in Server, NEW v \in Server, SjoinWins(s, v)
    PROVE  MembersInv'
  <1> DEFINE m == Line(v, s)
             c == chan[s]
             X == Nicks(s, v, m)
             lost == LoseModes(c, m.ts, Named(m))
             more == AddUsers(lost, X, m.op)
             won == [more EXCEPT !.bans = {}]
             n == SjoinMsg(m.ts, Relayed(m, won), X, m.op)
  <1>1. Parses(s, v, {"SJOIN"}) /\ UNCHANGED <<link, past>>
    BY DEF SjoinWins
  <1>2. m \in FairMessage /\ m.type = "SJOIN" /\ c \in FairChannel
    <2>1. m \in FairMessage /\ m.type \in {"SJOIN"}
      BY <1>1, LineFair DEF Fair
    <2> QED BY <2>1 DEF Fair
  <1>3. /\ m.ts \in Nat /\ m.op \in [User -> Nat] /\ X \in SUBSET User
        /\ (NoLong => \A u \in User : m.op[u] <= m.ts) /\ Named(m) \in SUBSET Modes
    BY <1>2, MessageFields, NicksType, ModesType
  <1>4. lost \in FairChannel /\ lost.ts = m.ts /\ lost.member = c.member
    BY <1>2, <1>3, LoseModesFair, MembersAfter
  <1>5. more \in FairChannel /\ more.member = c.member \cup X
    <2> HIDE DEF lost, X
    <2>1. NoLong => \A u \in User : m.op[u] <= lost.ts
      BY <1>3, <1>4
    <2> QED BY <1>3, <1>4, <2>1, AddUsersFair, MembersAfter
  <1>6. won \in FairChannel /\ won.member = c.member \cup X
    <2> HIDE DEF more
    <2> QED BY <1>5 DEF FairChannel, Channel
  <1>7. IF Exists(won) THEN Set(s, won) /\ RelaySjoin(v, s, n) ELSE UNCHANGED chan /\ Ignore(v, s)
    BY DEF SjoinWins
  <1> HIDE DEF won
  <1>8. CASE Exists(won)
    <2>1. chan'[s].member = c.member \cup X /\ \A y \in Server \ {s} : chan'[y] = chan[y]
      BY <1>6, <1>7, <1>8, MembersSet
    <2>2. n \in FairMessage /\ n.type = "SJOIN" /\ n.nicks = X
      <3>1. Relayed(m, won) \in (SUBSET Modes) \cup {{"0"}}
        BY <1>2, <1>6, ModesType
      <3>2. n \in FairMessage
        BY <1>3, <3>1, SjoinFair
      <3> QED BY <3>2 DEF SjoinMsg
    <2> HIDE DEF n, X
    <2> QED BY <1>1, <1>7, <1>8, <2>1, <2>2, SjoinHandled DEF X
  <1>9. CASE ~Exists(won)
    <2>1. X = {} /\ chan' = chan /\ Ignore(v, s)
      BY <1>6, <1>7, <1>9 DEF Exists
    <2>2. chan'[s].member = c.member \cup X /\ \A y \in Server \ {s} : chan'[y] = chan[y]
      BY <2>1
    <2> HIDE DEF X
    <2> QED BY <1>1, <2>1, <2>2, SjoinHandled DEF X
  <1> QED BY <1>8, <1>9

LEMMA SjoinMergesMembers ==
    ASSUME Fair, MembersInv, NEW s \in Server, NEW v \in Server, SjoinMerges(s, v)
    PROVE  MembersInv'
  <1> DEFINE m == Line(v, s)
             c == chan[s]
             X == Nicks(s, v, m)
             merged == [c EXCEPT !.modes = @ \cup Named(m)]
             both == AddUsers(merged, X, m.op)
             n == SjoinMsg(c.ts, Relayed(m, both), X, m.op)
  <1>1. Parses(s, v, {"SJOIN"}) /\ UNCHANGED <<link, past>>
    BY DEF SjoinMerges
  <1>2. m \in FairMessage /\ m.type = "SJOIN" /\ c \in FairChannel
    <2>1. m \in FairMessage /\ m.type \in {"SJOIN"}
      BY <1>1, LineFair DEF Fair
    <2> QED BY <2>1 DEF Fair
  <1>3. /\ m.ts \in Nat /\ m.op \in [User -> Nat] /\ X \in SUBSET User
        /\ (NoLong => \A u \in User : m.op[u] <= m.ts) /\ Named(m) \in SUBSET Modes
    BY <1>2, MessageFields, NicksType, ModesType
  <1>4. m.ts = c.ts /\ Set(s, both) /\ RelaySjoin(v, s, n)
    BY DEF SjoinMerges
  <1>5. merged \in FairChannel /\ merged.ts = c.ts /\ merged.member = c.member
    BY <1>2, <1>3 DEF FairChannel, Channel
  <1> HIDE DEF merged, X
  <1>6. both \in FairChannel /\ both.member = c.member \cup X
    <2>1. NoLong => \A u \in User : m.op[u] <= merged.ts
      BY <1>3, <1>4, <1>5
    <2> QED BY <1>3, <1>5, <2>1, AddUsersFair, MembersAfter
  <1> HIDE DEF both
  <1>7. n \in FairMessage /\ n.type = "SJOIN" /\ n.nicks = X
    <2>1. Relayed(m, both) \in (SUBSET Modes) \cup {{"0"}}
      BY <1>2, <1>6, ModesType
    <2>2. n \in FairMessage
      BY <1>3, <1>4, <2>1, SjoinFair
    <2> QED BY <2>2 DEF SjoinMsg
  <1>8. chan'[s].member = c.member \cup X /\ \A y \in Server \ {s} : chan'[y] = chan[y]
    BY <1>4, <1>6, MembersSet
  <1> HIDE DEF n
  <1> QED BY <1>1, <1>4, <1>7, <1>8, SjoinHandled DEF X

LEMMA SjoinLosesMembers ==
    ASSUME Fair, MembersInv, NEW s \in Server, NEW v \in Server, SjoinLoses(s, v)
    PROVE  MembersInv'
  <1> DEFINE m == Line(v, s)
             c == chan[s]
             X == Nicks(s, v, m)
             rejected == {u \in X \ c.member : m.op[u] # 0}
             added == AddUsers(c, X, NoOp)
             kept == [added EXCEPT !.deopped = @ \cup rejected]
             n == SjoinMsg(c.ts, {"0"}, X, NoOp)
  <1>1. Parses(s, v, {"SJOIN"}) /\ UNCHANGED <<link, past>>
    BY DEF SjoinLoses
  <1>2. m \in FairMessage /\ m.type = "SJOIN" /\ c \in FairChannel
    <2>1. m \in FairMessage /\ m.type \in {"SJOIN"}
      BY <1>1, LineFair DEF Fair
    <2> QED BY <2>1 DEF Fair
  <1>3. X \in SUBSET User /\ c.ts \in Nat
    BY <1>2, NicksType, ChannelFields
  <1>4. Set(s, kept) /\ RelaySjoin(v, s, n)
    BY DEF SjoinLoses
  <1> HIDE DEF rejected, X
  <1>5. NoLong => \A u \in User : NoOp[u] <= c.ts
    BY <1>3, NoOpType
  <1>6. added \in FairChannel /\ added.member = c.member \cup X
    BY <1>2, <1>3, <1>5, NoOpType, AddUsersFair, MembersAfter
  <1> HIDE DEF added
  <1>7. kept.member = c.member \cup X
    BY <1>6 DEF FairChannel, Channel
  <1> HIDE DEF kept
  <1>8. n \in FairMessage /\ n.type = "SJOIN" /\ n.nicks = X
    <2>1. {"0"} \in (SUBSET Modes) \cup {{"0"}}
      OBVIOUS
    <2>2. n \in FairMessage
      BY <1>3, <1>5, <2>1, NoOpType, SjoinFair
    <2> QED BY <2>2 DEF SjoinMsg
  <1>9. chan'[s].member = c.member \cup X /\ \A y \in Server \ {s} : chan'[y] = chan[y]
    BY <1>4, <1>7, MembersSet
  <1> HIDE DEF n
  <1> QED BY <1>1, <1>4, <1>8, <1>9, SjoinHandled DEF X

LEMMA MsJoinMembers ==
    ASSUME Fair, MembersInv, NEW s \in Server, NEW v \in Server, MsJoin(s, v)
    PROVE  MembersInv'
  <1> DEFINE m == Line(v, s)
             c == chan[s]
             kept == IF Exists(c) /\ m.ts >= c.ts THEN c ELSE LoseModes(c, m.ts, {})
             n == [m EXCEPT !.ts = kept.ts]
  <1>1. Parses(s, v, {"JOIN"}) /\ UNCHANGED <<link, past>>
    BY DEF MsJoin
  <1>2. /\ m \in FairMessage /\ m.type = "JOIN" /\ c \in FairChannel /\ v \in Peers(s)
        /\ Home[m.uid] \in Side[<<s, v>>]
    <2>1. /\ m \in FairMessage /\ m.type \in {"JOIN"} /\ v \in Peers(s)
          /\ LegalLine(m, <<v, s>>) /\ Back(<<v, s>>) = <<s, v>>
      BY <1>1, HandlerLine DEF MembersInv
    <2> QED BY <2>1 DEF Fair, LegalLine
  <1>3. m.ts \in Nat /\ m.uid \in User /\ c.ts \in Nat
    BY <1>2, MessageFields, ChannelFields
  <1>4. kept \in FairChannel /\ kept.member = c.member /\ kept.ts \in Nat
    <2>1. {} \in SUBSET Modes
      OBVIOUS
    <2>2. LoseModes(c, m.ts, {}) \in FairChannel /\ LoseModes(c, m.ts, {}).member = c.member
      BY <1>2, <1>3, <2>1, LoseModesFair, MembersAfter
    <2>3. kept \in FairChannel /\ kept.member = c.member
      BY <1>2, <2>2
    <2> QED BY <2>3, ChannelFields
  <1>5. Set(s, AddUsers(kept, {m.uid}, NoOp)) /\ Relay(v, s, <<n>>)
    BY DEF MsJoin
  <1> HIDE DEF kept
  <1>6. chan'[s].member = c.member \cup {m.uid} /\ \A y \in Server \ {s} : chan'[y] = chan[y]
    BY <1>4, <1>5, MembersAfter, MembersSet
  <1>7. n \in FairMessage /\ n.type = "JOIN" /\ n.uid = m.uid
    <2>1. n \in FairMessage
      BY <1>2, <1>4, RestampedFair
    <2>2. n.type = "JOIN" /\ n.uid = m.uid
      BY <1>2, <1>4 DEF FairMessage, Message
    <2> QED BY <2>1, <2>2
  <1>8. <<n>> \in Seq(FairMessage) /\ Lines(<<n>>) = {n}
    BY <1>7, ShortSeq, LinesOne
  <1> HIDE DEF n
  <1>9. {v} \in SUBSET Peers(s) /\ Acts(s, {v}, <<n>>, {})
    <2>1. {"JOIN"} \cap {"SERVER", "CLOSE"} = {}
      OBVIOUS
    <2> QED BY <1>1, <1>5, <1>6, <1>8, <2>1, RelaysActs
  <1>10. Sends(s, {v}, <<n>>, {})
    BY <1>2, <1>7, <1>8 DEF Sends
  <1>11. \A u \in User : /\ Adds(n, u) <=> u = m.uid
                         /\ Adds(m, u) <=> u = m.uid
                         /\ ~Kicks(n, u) /\ ~Kicks(m, u)
                         /\ \A t : ~Takes(t, n, u) /\ ~Takes(t, m, u)
    BY <1>2, <1>7 DEF Adds, Kicks, Takes
  <1>12. Enters(s, {v}, <<n>>, m.uid)
    BY <1>2, <1>3, <1>6, <1>7, <1>11 DEF Enters, Way
  <1>13. \A u \in User : u # m.uid => Stays(s, {v}, <<n>>, u)
    BY <1>6, <1>8, <1>11 DEF Stays
  <1>14. Affects(s, {v}, <<n>>, {})
    BY <1>12, <1>13 DEF Affects
  <1> QED BY <1>8, <1>9, <1>10, <1>14, ActsMembers

\* Nobody parts and no server splits off while a KICK is on its way.
LEMMA NoKickCrossed ==
    ASSUME Fair, MembersInv, NEW l \in Link, NEW n \in Lines(queue[l]),
           n.type \in {"PART", "SQUIT", "CLOSE"}, past \subseteq past'
    PROVE  "kick" \in past' \/ NoKicks
  <1> SUFFICES ASSUME "kick" \notin past' PROVE NoKicks
    OBVIOUS
  <1>1. OneKick
    BY DEF MembersInv, Wave
  <1> QED BY <1>1 DEF OneKick, NoKicks

LEMMA MsLeaveMembers ==
    ASSUME Fair, MembersInv, NEW s \in Server, NEW v \in Server, MsLeave(s, v)
    PROVE  MembersInv'
  <1> DEFINE m == Line(v, s)
             c == chan[s]
  <1>1. Parses(s, v, {"PART", "KICK"}) /\ link' = link
    BY DEF MsLeave
  <1>2. /\ m \in FairMessage /\ m.type \in {"PART", "KICK"} /\ v \in Peers(s)
        /\ <<v, s>> \in Link /\ m \in Lines(queue[<<v, s>>])
        /\ m.type = "PART" => Home[m.uid] \in Side[<<s, v>>]
    <2>1. /\ m \in FairMessage /\ m.type \in {"PART", "KICK"} /\ v \in Peers(s)
          /\ <<v, s>> \in Link /\ m \in Lines(queue[<<v, s>>])
          /\ LegalLine(m, <<v, s>>) /\ Back(<<v, s>>) = <<s, v>>
      BY <1>1, HandlerLine DEF MembersInv
    <2> QED BY <2>1 DEF LegalLine
  <1>3. {"PART", "KICK"} \cap {"SERVER", "CLOSE"} = {}
    OBVIOUS
  <1>4. \A u \in User : /\ ~Adds(m, u)
                        /\ Kicks(m, u) <=> m.type = "KICK" /\ u = m.uid
                        /\ \A t : Takes(t, m, u) <=> u = m.uid
    BY <1>2 DEF Adds, Kicks, Takes
  <1>5. m.uid \in User
    BY <1>2, MessageFields
  <1>6. CASE m.uid \in c.member
    <2>1. Leave(s, {m.uid}, {}) /\ Relay(v, s, <<m>>)
      BY <1>6 DEF MsLeave
    <2>2. /\ chan'[s].member = c.member \ {m.uid} /\ past \subseteq past'
          /\ \A y \in Server \ {s} : chan'[y] = chan[y]
      BY <1>6, <2>1, MembersLeft
    <2>3. "removed" \in past'
      <3>1. {m.uid} \cap chan[s].member # {}
        BY <1>6
      <3> QED BY <2>1, <3>1, MembersLeft
    <2>4. <<m>> \in Seq(FairMessage) /\ Lines(<<m>>) = {m}
      BY <1>2, ShortSeq, LinesOne
    <2>5. {v} \in SUBSET Peers(s) /\ Acts(s, {v}, <<m>>, {})
      <3>1. \A y \in Server \ {s} : chan'[y] = chan[y]
        BY <2>1, MembersLeft
      <3> QED BY <1>1, <1>3, <2>1, <2>2, <2>4, <3>1, RelaysActs
    <2>6. m.type = "PART" => "kick" \in past' \/ NoKicks
      BY <1>2, <2>2, NoKickCrossed
    <2>7. Sends(s, {v}, <<m>>, {})
      BY <1>2, <2>4, <2>6 DEF Sends
    <2>8. Leaves(s, {v}, <<m>>, {}, m.uid)
      BY <1>2, <1>4, <1>5, <1>6, <2>2, <2>3, <2>6 DEF Leaves, Way
    <2>9. \A u \in User : u # m.uid => Stays(s, {v}, <<m>>, u)
      BY <1>4, <2>2, <2>4 DEF Stays
    <2>10. Affects(s, {v}, <<m>>, {})
      BY <2>8, <2>9 DEF Affects
    <2> QED BY <2>4, <2>5, <2>7, <2>10, ActsMembers
  <1>7. CASE m.uid \notin c.member
    <2>1. UNCHANGED <<chan, past>> /\ Ignore(v, s)
      BY <1>7 DEF MsLeave
    <2>2. <<>> \in Seq(FairMessage) /\ Lines(<<>>) = {}
      BY EmptySeq, LinesOne
    <2>3. {v} \in SUBSET Peers(s) /\ Acts(s, {v}, <<>>, {})
      <3>1. past \subseteq past' /\ \A y \in Server \ {s} : chan'[y] = chan[y]
        BY <2>1
      <3> QED BY <1>1, <1>3, <2>1, <2>2, <3>1, RelaysActs
    <2>4. Sends(s, {v}, <<>>, {})
      BY <2>2 DEF Sends
    <2>5. \A u \in User : Stays(s, {v}, <<>>, u)
      BY <1>4, <1>7, <2>1, <2>2 DEF Stays
    <2> QED BY <2>2, <2>3, <2>4, <2>5, ActsMembers DEF Affects
  <1> QED BY <1>6, <1>7

-----------------------------------------------------------------------------
(* ms_squit                                                                *)

\* Who is beyond a server behind v: through some link to it that leads away.
LEMMA BeyondIs ==
    ASSUME NEW s, NEW x, NEW u
    PROVE  u \in Beyond(s, x) <=>
             u \in User /\ \E k \in Link : k[2] = x /\ s \notin Side[k] /\ Home[u] \in Side[k]
  BY DEF Beyond

\* What is beyond x for s, which reaches x through v, is so for the neighbours that hear
\* of it, and the other way round.
LEMMA BeyondBehind ==
    ASSUME NEW s \in Server, NEW v \in Peers(s), NEW x \in Side[<<s, v>>], NEW u \in User
    PROVE  /\ u \in Beyond(s, x) => Way(u, s, v)
           /\ \A t \in Server : Way(u, t, s) => (u \in Beyond(t, x) <=> u \in Beyond(s, x))
  <1>1. /\ v \in Server /\ <<s, v>> \in Link /\ s \notin Side[<<s, v>>]
        /\ \A t \in Peers(s) \ {v} : t \notin Side[<<s, v>>]
    <2>1. \A t \in Peers(s) \ {v} : t \notin Side[<<s, v>>]
      <3> SUFFICES ASSUME NEW t \in Peers(s) \ {v} PROVE t \notin Side[<<s, v>>]
        OBVIOUS
      <3>1. t \in Side[<<s, t>>] /\ Side[<<s, v>>] \cap Side[<<s, t>>] = {}
        BY ChannelNetworkAssumption
      <3> QED BY <3>1
    <2> QED BY <2>1, LinkEnds
  <1>2. ASSUME NEW k \in Link, k[2] = x, s \notin Side[k]
        PROVE  Side[k] \subseteq Side[<<s, v>>]
    BY <1>1, <1>2, ChannelNetworkAssumption
  <1>3. ASSUME u \in Beyond(s, x)
        PROVE  Way(u, s, v) /\ \A t \in Server : Way(u, t, s) => u \in Beyond(t, x)
    <2>1. PICK k \in Link : k[2] = x /\ s \notin Side[k] /\ Home[u] \in Side[k]
      BY <1>3, BeyondIs
    <2>2. Side[k] \subseteq Side[<<s, v>>]
      BY <1>2, <2>1
    <2>3. Way(u, s, v)
      BY <2>1, <2>2 DEF Way
    <2>4. ASSUME NEW t \in Server, Way(u, t, s) PROVE u \in Beyond(t, x)
      <3>1. t \in Peers(s) /\ ~Way(u, s, t)
        BY <2>4, OneWay
      <3>2. t # v
        BY <2>3, <3>1
      <3>3. t \notin Side[k]
        BY <1>1, <2>2, <3>1, <3>2
      <3> QED BY <2>1, <3>3, BeyondIs
    <2> QED BY <2>3, <2>4
  <1>4. ASSUME NEW t \in Server, Way(u, t, s), u \in Beyond(t, x), u \notin Beyond(s, x)
        PROVE  FALSE
    <2>1. PICK k \in Link : k[2] = x /\ t \notin Side[k] /\ Home[u] \in Side[k]
      BY <1>4, BeyondIs
    <2>2. s \in Side[k]
      BY <1>4, <2>1, BeyondIs
    <2>3. t \in Peers(s)
      BY <1>4, OneWay
    <2>4. k = <<k[1], x>> /\ k[1] \in Server /\ x \in Peers(k[1])
      BY <2>1, LinkIsPair
    <2>5. \A y \in Side[k] \ {x} : Peers(y) \subseteq Side[k]
      BY <2>4, LinkEnds
    <2>6. s = x
      BY <2>1, <2>2, <2>3, <2>5
    <2> QED BY <1>1, <2>6
  <1> QED BY <1>3, <1>4

LEMMA MsSquitMembers ==
    ASSUME Fair, MembersInv, NEW s \in Server, NEW v \in Server, MsSquit(s, v)
    PROVE  MembersInv'
  <1> DEFINE m == Line(v, s)
             x == m.server
             B == Beyond(s, x)
  <1>1. Parses(s, v, {"SQUIT"}) /\ link' = link
    BY DEF MsSquit
  <1>2. /\ m \in FairMessage /\ m.type = "SQUIT" /\ v \in Peers(s)
        /\ <<v, s>> \in Link /\ m \in Lines(queue[<<v, s>>])
        /\ x \in Side[<<s, v>>]
    <2>1. /\ m \in FairMessage /\ m.type \in {"SQUIT"} /\ v \in Peers(s)
          /\ <<v, s>> \in Link /\ m \in Lines(queue[<<v, s>>])
          /\ LegalLine(m, <<v, s>>) /\ Back(<<v, s>>) = <<s, v>>
      BY <1>1, HandlerLine DEF MembersInv
    <2> QED BY <2>1 DEF LegalLine
  <1>3. Leave(s, B, {}) /\ Relay(v, s, <<m>>)
    BY DEF MsSquit
  <1>4. /\ chan'[s].member = chan[s].member \ B /\ past \subseteq past'
        /\ \A y \in Server \ {s} : chan'[y] = chan[y]
        /\ B \cap chan[s].member # {} => "removed" \in past'
    BY <1>3, MembersLeft
  <1>5. <<m>> \in Seq(FairMessage) /\ Lines(<<m>>) = {m}
    BY <1>2, ShortSeq, LinesOne
  <1>6. {v} \in SUBSET Peers(s) /\ Acts(s, {v}, <<m>>, {})
    <2>1. {"SQUIT"} \cap {"SERVER", "CLOSE"} = {}
      OBVIOUS
    <2> QED BY <1>1, <1>3, <1>4, <1>5, <2>1, RelaysActs
  <1>7. "kick" \in past' \/ NoKicks
    BY <1>2, <1>4, NoKickCrossed
  <1>8. Sends(s, {v}, <<m>>, {})
    BY <1>2, <1>5, <1>7 DEF Sends
  <1>9. \A u \in User : /\ ~Adds(m, u) /\ ~Kicks(m, u)
                        /\ \A t : Takes(t, m, u) <=> u \in Beyond(t, x)
    BY <1>2 DEF Adds, Kicks, Takes
  <1>10. \A u \in User :
           /\ u \in B => Way(u, s, v)
           /\ \A t \in Server : Way(u, t, s) => (u \in Beyond(t, x) <=> u \in B)
    BY <1>2, BeyondBehind
  <1> HIDE DEF B
  <1>11. \A u \in User : u \in B => Leaves(s, {v}, <<m>>, {}, u)
    <2> SUFFICES ASSUME NEW u \in User, u \in B PROVE Leaves(s, {v}, <<m>>, {}, u)
      OBVIOUS
    <2>1. Takes(s, m, u)
      BY <1>9 DEF B
    <2>2. u \in chan[s].member => "removed" \in past'
      BY <1>4
    <2> QED BY <1>2, <1>4, <1>7, <1>9, <1>10, <2>1, <2>2 DEF Leaves
  <1>12. \A u \in User : u \notin B => Stays(s, {v}, <<m>>, u)
    <2> SUFFICES ASSUME NEW u \in User, u \notin B PROVE Stays(s, {v}, <<m>>, u)
      OBVIOUS
    <2>1. ~Takes(s, m, u)
      BY <1>9 DEF B
    <2> QED BY <1>4, <1>5, <1>9, <1>10, <2>1 DEF Stays
  <1>13. Affects(s, {v}, <<m>>, {})
    BY <1>11, <1>12 DEF Affects
  <1> QED BY <1>5, <1>6, <1>8, <1>13, ActsMembers

-----------------------------------------------------------------------------
(* The end of a link.                                                      *)

Ends(s, v) == {<<s, v>>, <<v, s>>}

Split(s, v) ==
    IF link[<<s, v>>] = "up" THEN <<[type |-> "SQUIT", server |-> v]>> ELSE <<>>

\* What is left of the stream q to a neighbour whose link ends: nothing if the neighbour
\* has ended it, or its first lines and the end.
Rest(q, r, near) ==
    \/ r = <<>> /\ near = "down"
    \/ \E k \in 0..Len(q) : r = Append(SubSeq(q, 1, k), [type |-> "CLOSE"])

\* Beyond a neighbour is who is known through it.
LEMMA BeyondNeighbour ==
    ASSUME NEW s \in Server, NEW v \in Peers(s), NEW u \in User
    PROVE  /\ u \in Beyond(s, v) <=> Way(u, s, v)
           /\ \A t \in Server : Way(u, t, s) => (u \in Beyond(t, v) <=> Way(u, s, v))
  <1>1. <<s, v>> \in Link /\ s \notin Side[<<s, v>>] /\ v \in Side[<<s, v>>]
    BY LinkEnds, ChannelNetworkAssumption
  <1>2. Way(u, s, v) => u \in Beyond(s, v)
    BY <1>1, BeyondIs DEF Way
  <1>3. u \in Beyond(s, v) => Way(u, s, v)
    BY <1>1, BeyondBehind
  <1>4. \A t \in Server : Way(u, t, s) => (u \in Beyond(t, v) <=> u \in Beyond(s, v))
    BY <1>1, BeyondBehind
  <1> QED BY <1>2, <1>3, <1>4

\* exit_client of a neighbour, as an action of one server.
LEMMA DropLinkActs ==
    ASSUME Fair, Base, NEW s \in Server, NEW v \in Server, <<s, v>> \in Link, NEW toV, NEW why,
           DropLink(s, v, toV, why), "kick" \in past' \/ NoKicks
    PROVE  /\ BothWays(Ends(s, v)) /\ Split(s, v) \in Seq(FairMessage)
           /\ v \in Peers(s) /\ <<v, s>> \in Link /\ s # v /\ {} \in SUBSET Peers(s)
           /\ Acts(s, {}, Split(s, v), Ends(s, v)) /\ Sends(s, {}, Split(s, v), Ends(s, v))
           /\ Affects(s, {}, Split(s, v), Ends(s, v))
           /\ \A u \in User : Way(u, s, v) => u \notin chan'[s].member
  <1> DEFINE X == Ends(s, v)
             ms == Split(s, v)
             m == [type |-> "SQUIT", server |-> v]
             B == Beyond(s, v)
  <1>1. v \in Peers(s) /\ <<v, s>> \in Link /\ s # v /\ v \in Side[<<s, v>>]
    BY LinkEnds, ChannelNetworkAssumption DEF Peers
  <1>2. BothWays(X)
    BY <1>1 DEF BothWays, Ends, Back
  <1>3. m \in FairMessage /\ m.type = "SQUIT" /\ m.server = v
    BY OtherFair
  <1>4. /\ link[<<s, v>>] = "up" => ms = <<m>> /\ Lines(ms) = {m}
        /\ link[<<s, v>>] # "up" => ms = <<>> /\ Lines(ms) = {}
    BY LinesOne DEF Split
  <1>5. /\ chan'[s].member = chan[s].member \ B /\ past \subseteq past'
        /\ \A y \in Server \ {s} : chan'[y] = chan[y]
        /\ B \cap chan[s].member # {} => "removed" \in past'
    BY MembersLeft DEF DropLink
  <1> HIDE DEF m
  <1>6. ms \in Seq(FairMessage)
    <2> HIDE DEF ms
    <2> QED BY <1>3, <1>4, ShortSeq, EmptySeq
  <1>7. \A u \in User :
          /\ u \in B <=> Way(u, s, v)
          /\ \A t \in Server : Way(u, t, s) => (u \in Beyond(t, v) <=> Way(u, s, v))
    BY <1>1, BeyondNeighbour
  <1>8. Acts(s, {}, ms, X)
    <2>1. ASSUME NEW l \in Link \ X
          PROVE  /\ link'[l] = link[l]
                 /\ queue'[l] = IF l[1] = s /\ link[l] = "up" THEN queue[l] \o ms ELSE queue[l]
      <3>1. l # <<s, v>> /\ l # <<v, s>> /\ queue[l] \in Seq(FairMessage)
        BY <2>1, QueueType DEF Ends
      <3>2. queue[l] \o <<>> = queue[l] /\ Append(queue[l], m) = queue[l] \o <<m>>
        BY <1>3, <3>1, ConcatEmptySeq, AppendIsConcat
      <3>3. queue'[l] = IF l[1] = s /\ link[l] = "up" /\ link[<<s, v>>] = "up"
                          THEN Append(queue[l], m)
                        ELSE queue[l]
        BY <2>1, <3>1 DEF DropLink, m
      <3>4. link'[l] = link[l]
        BY <2>1, <3>1 DEF DropLink, Fair
      <3> QED BY <1>4, <3>2, <3>3, <3>4
    <2> QED BY <1>5, <2>1 DEF Acts
  <1>9. Sends(s, {}, ms, X)
    <2>1. <<s, v>> \in X
      BY DEF Ends
    <2>2. ASSUME NEW n \in Lines(ms) PROVE n = m /\ ms = <<n>>
      BY <1>4, <2>2
    <2> QED BY <1>1, <1>3, <2>1, <2>2 DEF Sends
  <1>10. \A u \in User : /\ ~Adds(m, u) /\ ~Kicks(m, u)
                         /\ \A t : Takes(t, m, u) <=> u \in Beyond(t, v)
    BY <1>3 DEF Adds, Kicks, Takes
  <1> HIDE DEF B, X, ms
  <1>11. ASSUME NEW u \in User, Way(u, s, v), link[<<s, v>>] = "up"
         PROVE  Leaves(s, {}, ms, X, u)
    <2>1. u \in B /\ \A t \in Server : Way(u, t, s) => Takes(t, m, u)
      BY <1>7, <1>10, <1>11
    <2>2. u \in chan[s].member => "removed" \in past'
      BY <1>5, <2>1
    <2>3. <<s, v>> \in X
      BY DEF Ends, X
    <2> QED BY <1>3, <1>4, <1>5, <1>10, <1>11, <2>1, <2>2, <2>3 DEF Leaves
  <1>12. ASSUME NEW u \in User, Way(u, s, v), link[<<s, v>>] # "up"
         PROVE  Stays(s, {}, ms, u)
    <2>1. u \notin chan[s].member
      BY <1>12 DEF Base, AllBasic, BasicAt, Basic
    <2> QED BY <1>4, <1>5, <1>12, <2>1 DEF Stays
  <1>13. ASSUME NEW u \in User, ~Way(u, s, v)
         PROVE  Stays(s, {}, ms, u)
    <2>1. u \notin B /\ \A t \in Server : Way(u, t, s) => ~Takes(t, m, u)
      BY <1>7, <1>10, <1>13
    <2>2. \A n \in Lines(ms) : n = m
      BY <1>4
    <2> QED BY <1>5, <1>10, <2>1, <2>2 DEF Stays
  <1>14. Affects(s, {}, ms, X)
    BY <1>11, <1>12, <1>13 DEF Affects
  <1>15. \A u \in User : Way(u, s, v) => u \notin chan'[s].member
    BY <1>5, <1>7
  <1> QED BY <1>1, <1>2, <1>6, <1>8, <1>9, <1>14, <1>15 DEF X, ms

\* What the rest of a stream holds.
LEMMA RestLines ==
    ASSUME NEW q \in Seq(FairMessage), NEW r, NEW near, Rest(q, r, near)
    PROVE  \A m \in Lines(r) : m \in Lines(q) \/ m.type = "CLOSE"
  <1>1. CASE r = <<>>
    BY <1>1, LinesOne
  <1> DEFINE c == [type |-> "CLOSE"]
  <1>2. ASSUME NEW k \in 0..Len(q), r = Append(SubSeq(q, 1, k), c)
        PROVE  \A m \in Lines(r) : m \in Lines(q) \/ m.type = "CLOSE"
    <2>1. c \in FairMessage /\ c.type = "CLOSE"
      BY OtherFair
    <2> HIDE DEF c
    <2>2. /\ Len(r) = k + 1 /\ k \in Nat /\ r[k + 1] = c
          /\ \A i \in 1..k : r[i] = q[i] /\ i \in 1..Len(q)
      BY <1>2, <2>1, Cut
    <2>3. \A i \in 1..Len(r) : i \in 1..k \/ i = k + 1
      BY <2>2
    <2> QED BY <2>1, <2>2, <2>3 DEF Lines
  <1> QED BY <1>1, <1>2 DEF Rest

\* What the rest of a stream does to a user.
LEMMA RestFacts ==
    ASSUME NEW q \in Seq(FairMessage), NEW r, NEW near, Rest(q, r, near), NEW s, NEW u, NEW M
    PROVE  /\ AtLast(s, u, r, M) => near = "down" /\ u \in M
           /\ AddsOnce(s, u, q, M) => AddsOnce(s, u, r, M)
           /\ KickIn(r, u) => KickIn(q, u)
           /\ AddIn(r, u) => AddIn(q, u)
           /\ AddOnce(q, u) => AddOnce(r, u)
  <1>1. CASE r = <<>> /\ near = "down"
    BY <1>1, AtLastEmpty DEF AddOnce
  <1> DEFINE c == [type |-> "CLOSE"]
  <1>2. ASSUME NEW k \in 0..Len(q), r = Append(SubSeq(q, 1, k), c)
        PROVE  /\ ~AtLast(s, u, r, M)
               /\ AddsOnce(s, u, q, M) => AddsOnce(s, u, r, M)
               /\ KickIn(r, u) => KickIn(q, u)
               /\ AddIn(r, u) => AddIn(q, u)
               /\ AddOnce(q, u) => AddOnce(r, u)
    <2>1. c \in FairMessage /\ c.type = "CLOSE"
      BY OtherFair
    <2> HIDE DEF c
    <2>2. /\ Len(r) = k + 1 /\ k \in Nat /\ r[k + 1] = c
          /\ \A i \in 1..k : r[i] = q[i] /\ i \in 1..Len(q)
      BY <1>2, <2>1, Cut
    <2>3. /\ ~AtLast(s, u, r, M)
          /\ AddsOnce(s, u, q, M) => AddsOnce(s, u, r, M)
          /\ KickIn(r, u) => KickIn(q, u)
          /\ AddIn(r, u) => AddIn(q, u)
      BY ONLY <2>1, <2>2, AtLastCut
    <2>4. \A i \in 1..Len(r) : Adds(r[i], u) => i \in 1..k
      <3>1. \A i \in 1..Len(r) : i \in 1..k \/ i = k + 1
        BY <2>2
      <3>2. ~Adds(c, u)
        BY <2>1 DEF Adds
      <3> QED BY <2>2, <3>1, <3>2
    <2>5. AddOnce(q, u) => AddOnce(r, u)
      BY <2>2, <2>4 DEF AddOnce
    <2> QED BY <2>3, <2>5
  <1> QED BY <1>1, <1>2 DEF Rest

\* The rest of a stream begins as the stream did.
LEMMA RestHandshake ==
    ASSUME NEW q \in Seq(FairMessage), NEW r, NEW near, Rest(q, r, near),
           near = "connecting" => q # <<>> /\ Head(q).type \in {"SERVER", "CLOSE"},
           \A i \in 1..Len(q) : q[i].type = "SERVER" => i = 1 /\ near = "connecting"
    PROVE  /\ near = "connecting" => r # <<>> /\ Head(r).type \in {"SERVER", "CLOSE"}
           /\ \A i \in 1..Len(r) : r[i].type = "SERVER" => i = 1 /\ near = "connecting"
  <1>1. CASE r = <<>> /\ near = "down"
    BY <1>1
  <1> DEFINE c == [type |-> "CLOSE"]
  <1>2. ASSUME NEW k \in 0..Len(q), r = Append(SubSeq(q, 1, k), c)
        PROVE  /\ near = "connecting" => r # <<>> /\ Head(r).type \in {"SERVER", "CLOSE"}
               /\ \A i \in 1..Len(r) : r[i].type = "SERVER" => i = 1 /\ near = "connecting"
    <2>1. c \in FairMessage /\ c.type = "CLOSE"
      BY OtherFair
    <2> HIDE DEF c
    <2>2. /\ Len(r) = k + 1 /\ k \in Nat /\ r[k + 1] = c /\ r \in Seq(FairMessage)
          /\ \A i \in 1..k : r[i] = q[i] /\ i \in 1..Len(q)
      BY <1>2, <2>1, Cut
    <2>3. \A i \in 1..Len(r) : i \in 1..k \/ i = k + 1
      BY <2>2
    <2>4. r # <<>>
      BY <2>2
    <2>5. Head(r) = r[1]
      BY <2>2, <2>4, HeadTailProperties
    <2>6. near = "connecting" => r[1].type \in {"SERVER", "CLOSE"}
      <3>1. CASE k = 0
        BY <2>1, <2>2, <3>1
      <3>2. CASE k # 0
        <4>1. 1 \in 1..k
          BY <2>2, <3>2
        <4>2. q # <<>> => Head(q) = q[1]
          BY HeadTailProperties
        <4> QED BY <2>2, <4>1, <4>2
      <3> QED BY <3>1, <3>2
    <2>7. \A i \in 1..Len(r) : r[i].type = "SERVER" => i = 1 /\ near = "connecting"
      BY <2>1, <2>2, <2>3
    <2> QED BY <2>4, <2>5, <2>6, <2>7
  <1> QED BY <1>1, <1>2 DEF Rest

\* Streams and members after a link has ended.
LEMMA DropLinkStreams ==
    ASSUME Fair, MembersInv, NEW s \in Server, NEW v \in Server, <<s, v>> \in Link, NEW toV,
           NEW why, DropLink(s, v, toV, why), "kick" \in past' \/ NoKicks,
           Rest(queue[<<s, v>>], toV, link[<<v, s>>])
    PROVE  Streams'
  <1> DEFINE X == Ends(s, v)
             ms == Split(s, v)
  <1>1. /\ BothWays(X) /\ ms \in Seq(FairMessage)
        /\ v \in Peers(s) /\ <<v, s>> \in Link /\ s # v /\ {} \in SUBSET Peers(s)
        /\ Acts(s, {}, ms, X) /\ Sends(s, {}, ms, X) /\ Affects(s, {}, ms, X)
    BY DropLinkActs DEF MembersInv
  <1>2. /\ queue'[<<v, s>>] = <<>> /\ queue'[<<s, v>>] = toV
        /\ link'[<<s, v>>] = "down" /\ link'[<<v, s>>] = link[<<v, s>>]
    BY <1>1 DEF DropLink, Fair
  <1>3. Streams /\ past \subseteq past'
    BY <1>1 DEF MembersInv, Base, Acts
  <1>4. queue[<<s, v>>] \in Seq(FairMessage)
    BY QueueType
  <1> HIDE DEF X, ms
  <1>5. ASSUME NEW l \in Link \ X PROVE HandshakeAt(l)' /\ LegalAt(l)' /\ KickAt(l)'
    <2>1. HandshakeAt(l)'
      BY <1>1, <1>3, ActsHandshake
    <2>2. LegalAt(l)'
      BY <1>1, <1>3, ActsLegal
    <2>3. KickAt(l)'
      BY <1>1, <1>3, ActsKicks
    <2> QED BY <2>1, <2>2, <2>3
  <1>6. HandshakeAt(<<v, s>>)' /\ LegalAt(<<v, s>>)' /\ KickAt(<<v, s>>)'
    <2>1. Lines(<<>>) = {} /\ \A i \in 1..Len(<<>>) : FALSE
      <3>1. Lines(<<>>) = {}
        BY LinesOne
      <3> QED BY <3>1
    <2>2. Back(<<v, s>>) = <<s, v>>
      BY DEF Back
    <2> QED BY <1>2, <2>1, <2>2 DEF HandshakeAt, LegalAt, KickAt
  <1>7. HandshakeAt(<<s, v>>)' /\ LegalAt(<<s, v>>)' /\ KickAt(<<s, v>>)'
    <2>1. Back(<<s, v>>) = <<v, s>>
      BY DEF Back
    <2>2. HandshakeAt(<<s, v>>) /\ LegalAt(<<s, v>>) /\ KickAt(<<s, v>>)
      BY <1>3 DEF Streams
    <2>3. \A m \in Lines(toV) : m \in Lines(queue[<<s, v>>]) \/ m.type = "CLOSE"
      BY <1>4, RestLines
    <2>4. HandshakeAt(<<s, v>>)'
      <3>1. /\ link[<<v, s>>] = "connecting" => toV # <<>> /\ Head(toV).type \in {"SERVER", "CLOSE"}
            /\ \A i \in 1..Len(toV) :
                 toV[i].type = "SERVER" => i = 1 /\ link[<<v, s>>] = "connecting"
        <4>1. /\ link[<<v, s>>] = "connecting" =>
                   queue[<<s, v>>] # <<>> /\ Head(queue[<<s, v>>]).type \in {"SERVER", "CLOSE"}
              /\ \A i \in 1..Len(queue[<<s, v>>]) :
                   queue[<<s, v>>][i].type = "SERVER" => i = 1 /\ link[<<v, s>>] = "connecting"
          BY <2>1, <2>2 DEF HandshakeAt
        <4>2. Rest(queue[<<s, v>>], toV, link[<<v, s>>])
          OBVIOUS
        <4> DEFINE q == queue[<<s, v>>]
                   near == link[<<v, s>>]
        <4> HIDE DEF q, near
        <4>3. /\ q \in Seq(FairMessage) /\ Rest(q, toV, near)
              /\ near = "connecting" => q # <<>> /\ Head(q).type \in {"SERVER", "CLOSE"}
              /\ \A i \in 1..Len(q) : q[i].type = "SERVER" => i = 1 /\ near = "connecting"
          BY <1>4, <4>1, <4>2 DEF q, near
        <4>4. /\ near = "connecting" => toV # <<>> /\ Head(toV).type \in {"SERVER", "CLOSE"}
              /\ \A i \in 1..Len(toV) : toV[i].type = "SERVER" => i = 1 /\ near = "connecting"
          BY ONLY <4>3, RestHandshake
        <4> QED BY <4>4 DEF near
      <3> QED BY <1>2, <2>1, <3>1 DEF HandshakeAt
    <2>5. LegalAt(<<s, v>>)'
      BY <1>2, <2>2, <2>3 DEF LegalAt, LegalLine
    <2>6. KickAt(<<s, v>>)'
      BY <1>2, <1>3, <2>2, <2>3 DEF KickAt
    <2> QED BY <2>4, <2>5, <2>6
  <1>8. \A l \in Link : l \in Link \ X \/ l = <<s, v>> \/ l = <<v, s>>
    BY DEF X, Ends
  <1> QED BY <1>5, <1>6, <1>7, <1>8 DEF Streams

\* ... and the two neighbours, of whom one has closed the link.
LEMMA DropLinkPairs ==
    ASSUME Fair, MembersInv, NEW s \in Server, NEW v \in Server, <<s, v>> \in Link, NEW toV,
           NEW why, DropLink(s, v, toV, why), "kick" \in past' \/ NoKicks,
           Rest(queue[<<s, v>>], toV, link[<<v, s>>])
    PROVE  /\ AllBasic'
           /\ ~({"kick", "again"} \subseteq past') => AllExact'
  <1> DEFINE X == Ends(s, v)
             ms == Split(s, v)
             q == queue[<<s, v>>]
             M == chan[v].member
             near == link[<<v, s>>]
  <1>1. /\ BothWays(X) /\ ms \in Seq(FairMessage)
        /\ v \in Peers(s) /\ <<v, s>> \in Link /\ s # v /\ {} \in SUBSET Peers(s)
        /\ Acts(s, {}, ms, X) /\ Affects(s, {}, ms, X)
        /\ \A u \in User : Way(u, s, v) => u \notin chan'[s].member
    BY DropLinkActs DEF MembersInv
  <1>2. /\ queue'[<<v, s>>] = <<>> /\ queue'[<<s, v>>] = toV
        /\ link'[<<s, v>>] = "down" /\ link'[<<v, s>>] = near /\ chan'[v].member = M
    BY <1>1 DEF DropLink, Fair, Acts
  <1>3. q \in Seq(FairMessage)
    BY QueueType
  <1>4. Base
    BY DEF MembersInv
  <1> HIDE DEF X, ms
  <1>5. \A u \in User : /\ ~KickIn(<<>>, u) /\ ~AddIn(<<>>, u)
                        /\ \A t, N : /\ AtLast(t, u, <<>>, N) <=> u \in N
                                     /\ AddsOnce(t, u, <<>>, N)
    BY AtLastEmpty
  <1>6. ASSUME NEW u \in User, Way(u, s, v)
        PROVE  BasicAt(s, v, u)' /\ (AllExact => ExactAt(s, v, u)')
    <2>1. Basic(queue[<<v, s>>], q, chan[s].member, near, link[<<s, v>>], s, u)
      BY <1>4, <1>6 DEF Base, AllBasic, BasicAt
    <2>2. KickIn(toV, u) => KickIn(q, u)
      BY <1>3, RestFacts
    <2>3. u \notin chan'[s].member
      BY <1>1, <1>6
    <2>4. Basic(<<>>, toV, chan'[s].member, near, "down", s, u)
      BY <1>5, <2>1, <2>2, <2>3 DEF Basic
    <2>5. Exact(<<>>, toV, chan'[s].member, M, near, "down", s, u)
      BY <1>5, <2>3 DEF Exact
    <2> QED BY <1>2, <2>4, <2>5 DEF BasicAt, ExactAt
  <1>7. ASSUME NEW u \in User, Way(u, v, s)
        PROVE  BasicAt(v, s, u)' /\ (AllExact => ExactAt(v, s, u)')
    <2>1. Basic(q, queue[<<v, s>>], M, link[<<s, v>>], near, v, u)
      BY <1>4, <1>7 DEF Base, AllBasic, BasicAt
    <2>2. AllExact => Exact(q, queue[<<v, s>>], M, chan[s].member, link[<<s, v>>], near, v, u)
      BY <1>7 DEF AllExact, ExactAt
    <2>3. /\ AtLast(v, u, toV, M) => near = "down" /\ u \in M
          /\ AddsOnce(v, u, q, M) => AddsOnce(v, u, toV, M)
      BY <1>3, RestFacts
    <2> HIDE DEF q, M, near
    <2>4. Basic(toV, <<>>, M, "down", near, v, u)
      BY <2>1, <2>3 DEF Basic
    <2>5. AllExact => Exact(toV, <<>>, M, chan'[s].member, "down", near, v, u)
      BY <1>5, <2>2, <2>3 DEF Exact
    <2> QED BY <1>2, <2>4, <2>5 DEF BasicAt, ExactAt
  <1>8. ASSUME NEW a \in Server, NEW b \in Server, <<a, b>> \in X
        PROVE  (a = s /\ b = v) \/ (a = v /\ b = s)
    BY <1>8 DEF X, Ends
  <1>9. AllBasic'
    <2>1. ASSUME NEW a \in Server, NEW b \in Server, NEW u \in User, Way(u, a, b)
          PROVE  BasicAt(a, b, u)'
      <3>1. CASE <<a, b>> \in X
        BY <1>6, <1>7, <1>8, <2>1, <3>1
      <3>2. CASE <<a, b>> \notin X
        BY <1>1, <1>4, <2>1, <3>2, ActsPair
      <3> QED BY <3>1, <3>2
    <2>2. \A a, b \in Server : \A u \in User : Way(u, a, b)' => BasicAt(a, b, u)'
      BY <2>1 DEF Way
    <2> QED BY <2>2 DEF AllBasic
  <1>10. ASSUME ~({"kick", "again"} \subseteq past') PROVE AllExact'
    <2>1. AllExact
      BY <1>1, <1>10 DEF MembersInv, Acts
    <2>2. ASSUME NEW a \in Server, NEW b \in Server, NEW u \in User, Way(u, a, b)
          PROVE  ExactAt(a, b, u)'
      <3>1. CASE <<a, b>> \in X
        BY <1>6, <1>7, <1>8, <2>1, <2>2, <3>1
      <3>2. CASE <<a, b>> \notin X
        BY <1>1, <1>10, <2>2, <3>2, ActsExact
      <3> QED BY <3>1, <3>2
    <2>3. \A a, b \in Server : \A u \in User : Way(u, a, b)' => ExactAt(a, b, u)'
      BY <2>2 DEF Way
    <2> QED BY <2>3 DEF AllExact
  <1> QED BY <1>9, <1>10

\* Without a KICK on its way there is no wave.
LEMMA NoKicksWave ==
    ASSUME NoKicks'
    PROVE  Wave'
  <1>1. OneKick'
    BY DEF NoKicks, OneKick
  <1>2. ASSUME NEW s \in Server, NEW v \in Server, NEW u \in User, Way(u, s, v)
        PROVE  KickWave(s, v, u)'
    <2>1. <<s, v>> \in Link
      BY <1>2, OneWay
    <2>2. ~KickIn(queue'[<<s, v>>], u)
      BY <2>1, LinesAre DEF NoKicks, Kicks
    <2> QED BY <2>2 DEF KickWave
  <1>3. \A s, v \in Server : \A u \in User : Way(u, s, v)' => KickWave(s, v, u)'
    BY <1>2 DEF Way
  <1> QED BY <1>1, <1>3 DEF Wave

\* The end of a link adds no line but SQUIT and CLOSE, and no member.
LEMMA DropLinkShrinks ==
    ASSUME Fair, Base, NEW s \in Server, NEW v \in Server, <<s, v>> \in Link, NEW toV,
           NEW why, DropLink(s, v, toV, why), "kick" \in past' \/ NoKicks,
           Rest(queue[<<s, v>>], toV, link[<<v, s>>])
    PROVE  /\ NoKicks => NoKicks'
           /\ \A y \in Server : chan'[y].member \subseteq chan[y].member
           /\ "removed" \notin past' => \A y \in Server : chan'[y].member = chan[y].member
           /\ \A l \in Link, u \in User :
                /\ KickIn(queue'[l], u) => KickIn(queue[l], u)
                /\ AddIn(queue'[l], u) => AddIn(queue[l], u)
                /\ AddOnce(queue[l], u) => AddOnce(queue'[l], u)
  <1> DEFINE X == Ends(s, v)
             ms == Split(s, v)
  <1>1. /\ ms \in Seq(FairMessage) /\ <<v, s>> \in Link /\ s # v
        /\ Acts(s, {}, ms, X)
    BY DropLinkActs
  <1>2. /\ queue'[<<v, s>>] = <<>> /\ queue'[<<s, v>>] = toV
    BY <1>1 DEF DropLink
  <1>3. \A m \in Lines(ms) : m.type = "SQUIT"
    BY LinesOne DEF Split
  <1>4. \A u : ~KickIn(ms, u) /\ ~AddIn(ms, u)
    BY <1>3, LinesAre DEF Kicks, Adds
  <1>5. \A l \in Link : l \in Link \ X \/ l = <<s, v>> \/ l = <<v, s>>
    BY DEF Ends
  <1>6. queue[<<s, v>>] \in Seq(FairMessage)
    BY QueueType
  <1> HIDE DEF X, ms
  <1>7. NoKicks => NoKicks'
    <2>1. ASSUME NoKicks, NEW l \in Link, NEW m \in Lines(queue'[l]) PROVE m.type # "KICK"
      <3>1. CASE l \in Link \ X
        <4>1. m \in Lines(queue[l]) \/ m \in Lines(ms)
          BY <1>1, <2>1, <3>1, ActsLines
        <4> QED BY <1>3, <2>1, <4>1 DEF NoKicks
      <3>2. CASE l = <<s, v>>
        <4>1. m \in Lines(queue[l]) \/ m.type = "CLOSE"
          BY <1>2, <1>6, <2>1, <3>2, RestLines
        <4> QED BY <2>1, <4>1 DEF NoKicks
      <3>3. CASE l = <<v, s>>
        BY <1>2, <2>1, <3>3, LinesOne
      <3> QED BY <1>5, <3>1, <3>2, <3>3
    <2> QED BY <2>1 DEF NoKicks
  <1>8. /\ chan'[s].member = chan[s].member \ Beyond(s, v)
        /\ \A y \in Server \ {s} : chan'[y] = chan[y]
        /\ Beyond(s, v) \cap chan[s].member # {} => "removed" \in past'
    BY MembersLeft DEF DropLink
  <1>9. ASSUME NEW l \in Link, NEW u \in User
        PROVE  /\ KickIn(queue'[l], u) => KickIn(queue[l], u)
               /\ AddIn(queue'[l], u) => AddIn(queue[l], u)
               /\ AddOnce(queue[l], u) => AddOnce(queue'[l], u)
    <2>1. CASE l \in Link \ X
      <3>1. /\ KickIn(queue'[l], u) => KickIn(queue[l], u)
            /\ AddIn(queue'[l], u) => AddIn(queue[l], u)
        BY <1>1, <1>4, <2>1, ActsIn
      <3>2. \/ queue'[l] = queue[l] \o ms
            \/ queue'[l] = queue[l]
        <4>1. \/ /\ l[2] = s /\ l[1] \in {} /\ queue[l] # <<>>
                 /\ queue'[l] = Tail(queue[l]) /\ Line(l[1], s) = Head(queue[l])
              \/ /\ l[1] = s /\ l[2] \notin {} /\ link[l] = "up"
                 /\ queue'[l] = queue[l] \o ms
              \/ queue'[l] = queue[l]
          BY <1>1, <2>1, ActsQueue
        <4> QED BY <4>1
      <3>3. queue[l] \in Seq(FairMessage)
        BY QueueType
      <3>4. AddOnce(queue[l], u) => AddOnce(queue[l] \o ms, u)
        BY <1>1, <1>4, <3>3, OnceAppended
      <3> QED BY <3>1, <3>2, <3>4
    <2>2. CASE l = <<s, v>>
      BY <1>2, <1>6, <2>2, RestFacts
    <2>3. CASE l = <<v, s>>
      BY <1>2, <2>3, AtLastEmpty DEF AddOnce
    <2> QED BY <1>5, <2>1, <2>2, <2>3
  <1> QED BY <1>7, <1>8, <1>9

\* exit_client of a neighbour keeps the invariant.
LEMMA DropLinkMembers ==
    ASSUME Fair, MembersInv, NEW s \in Server, NEW v \in Server, <<s, v>> \in Link, NEW toV,
           NEW why, DropLink(s, v, toV, why), "kick" \in past' \/ NoKicks,
           Rest(queue[<<s, v>>], toV, link[<<v, s>>])
    PROVE  MembersInv'
  <1>1. /\ Acts(s, {}, Split(s, v), Ends(s, v)) /\ Affects(s, {}, Split(s, v), Ends(s, v))
        /\ {} \in SUBSET Peers(s) /\ Base /\ past \subseteq past'
    BY DropLinkActs DEF MembersInv, Acts
  <1>2. Base'
    <2>1. Streams'
      BY DropLinkStreams
    <2>2. KnownWays'
      BY <1>1, ActsWays DEF Base
    <2>3. AllBasic'
      BY DropLinkPairs
    <2> QED BY <2>1, <2>2, <2>3 DEF Base
  <1>3. ~({"kick", "again"} \subseteq past') => AllExact'
    BY DropLinkPairs
  <1>4. /\ NoKicks => NoKicks'
        /\ \A y \in Server : chan'[y].member \subseteq chan[y].member
        /\ "removed" \notin past' => \A y \in Server : chan'[y].member = chan[y].member
        /\ \A l \in Link, u \in User :
             /\ KickIn(queue'[l], u) => KickIn(queue[l], u)
             /\ AddIn(queue'[l], u) => AddIn(queue[l], u)
             /\ AddOnce(queue[l], u) => AddOnce(queue'[l], u)
    BY <1>1, DropLinkShrinks
  <1>5. "kick" \notin past' => Wave'
    BY <1>4, NoKicksWave
  <1>6. ASSUME "again" \notin past' PROVE Clean'
    <2>1. Clean
      BY <1>1, <1>6 DEF MembersInv
    <2>2. \A l \in Link : link'[l] # "connecting"
      BY <2>1 DEF Clean, DropLink, Fair
    <2>3. ASSUME NEW x \in Server, NEW y \in Server, NEW u \in User, Way(u, x, y)
          PROVE  JoinWave(x, y, u)'
      <3>1. JoinWave(x, y, u)
        BY <2>1, <2>3 DEF Clean
      <3>2. /\ <<y, x>> \in Link /\ <<x, y>> \in Link
            /\ Side[<<y, x>>] \subseteq Server /\ Side[<<x, y>>] \subseteq Server
        <4>1. <<y, x>> \in Link /\ <<x, y>> \in Link
          BY <2>3, OneWay
        <4>2. Side \in [Link -> SUBSET Server]
          BY ChannelNetworkAssumption
        <4>3. Side[<<y, x>>] \in SUBSET Server /\ Side[<<x, y>>] \in SUBSET Server
          BY ONLY <4>1, <4>2
        <4> QED BY <4>1, <4>3
      <3> QED BY <1>4, <3>1, <3>2 DEF JoinWave
    <2>4. \A x, y \in Server : \A u \in User : Way(u, x, y)' => JoinWave(x, y, u)'
      BY <2>3 DEF Way
    <2>5. ASSUME "removed" \notin past' PROVE NobodyLeft'
      <3>1. NobodyLeft
        BY <1>1, <2>1, <2>5 DEF Clean
      <3>2. \A u \in User : Home[u] \in Server
        BY ChannelAssumption
      <3> QED BY <1>4, <2>5, <3>1, <3>2 DEF NobodyLeft
    <2> QED BY <2>2, <2>4, <2>5 DEF Clean
  <1> QED BY <1>2, <1>3, <1>5, <1>6 DEF MembersInv

\* Break
LEMMA BreakMembers ==
    ASSUME Fair, MembersInv, NEW s \in Server, NEW v \in Server, Break(s, v)
    PROVE  MembersInv'
  <1>1. PICK toV : /\ DropLink(s, v, toV, Crossed)
                   /\ Rest(queue[<<s, v>>], toV, link[<<v, s>>])
    BY DEF Break, Rest
  <1>2. <<s, v>> \in Link
    BY DEF Break
  <1>3. "kick" \in past' \/ NoKicks
    <2>1. Crossed \subseteq past'
      BY <1>1, MembersLeft DEF DropLink
    <2> QED BY <2>1, CrossedKick
  <1> QED BY <1>1, <1>2, <1>3, DropLinkMembers

\* ReadClose
LEMMA ReadCloseMembers ==
    ASSUME Fair, MembersInv, NEW s \in Server, NEW v \in Server, ReadClose(s, v)
    PROVE  MembersInv'
  <1>1. Base /\ Parses(s, v, {"CLOSE"}) /\ DropLink(s, v, <<>>, {})
    BY DEF ReadClose, MembersInv
  <1>2. /\ <<v, s>> \in Link /\ <<s, v>> \in Link
        /\ Line(v, s).type \in {"CLOSE"}
        /\ Line(v, s) \in Lines(queue[<<v, s>>])
    BY <1>1, HandlerLine
  <1>3. link[<<v, s>>] = "down"
    <2>1. HandshakeAt(<<v, s>>)
      BY <1>1, <1>2 DEF Base, Streams
    <2> QED BY <1>2, <2>1 DEF HandshakeAt
  <1>4. past \subseteq past'
    BY <1>1, MembersLeft DEF DropLink
  <1>5. "kick" \in past' \/ NoKicks
    BY <1>2, <1>4, NoKickCrossed
  <1>6. Rest(queue[<<s, v>>], <<>>, link[<<v, s>>])
    BY <1>3 DEF Rest
  <1> QED BY <1>1, <1>2, <1>5, <1>6, DropLinkMembers

-----------------------------------------------------------------------------
(* Two servers are joined.                                                 *)

\* What a burst says of the members.
BurstTypes == {"SJOIN", "BMASK", "TBURST"}

\* The first line of a burst, and the lists that follow it.
LEMMA HeadThen ==
    ASSUME NEW S, NEW m \in S, NEW a \in Seq(S), NEW b \in Seq(S), NEW r, r = <<m>> \o a \o b
    PROVE  /\ Len(r) \in Nat /\ 1 \in 1..Len(r) /\ r[1] = m
           /\ \A i \in 1..Len(r) : i = 1 \/ r[i] \in Lines(a) \/ r[i] \in Lines(b)
  <1> DEFINE h == <<m>>
             p == h \o a
  <1>1. h \in Seq(S) /\ Len(h) = 1 /\ h[1] = m
    BY ShortSeq
  <1> HIDE DEF h
  <1>2. /\ p \in Seq(S) /\ Len(p) = 1 + Len(a) /\ Len(a) \in Nat
        /\ \A i \in 1..1 : p[i] = h[i]
        /\ \A j \in (1 + 1)..(1 + Len(a)) : j - 1 \in 1..Len(a) /\ p[j] = a[j - 1]
    <2>1. /\ h \o a \in Seq(S) /\ Len(h \o a) = Len(h) + Len(a)
          /\ Len(h) \in Nat /\ Len(a) \in Nat
          /\ \A i \in 1..Len(h) : (h \o a)[i] = h[i]
          /\ \A i \in 1..Len(a) : (h \o a)[Len(h) + i] = a[i]
          /\ \A j \in (Len(h) + 1)..(Len(h) + Len(a)) :
               j - Len(h) \in 1..Len(a) /\ (h \o a)[j] = a[j - Len(h)]
      BY <1>1, Appended
    <2> HIDE DEF p
    <2>2. p = h \o a
      BY DEF p
    <2> QED BY ONLY <1>1, <2>1, <2>2
  <1> DEFINE n == Len(p)
  <1>3. p[1] = m /\ n \in Nat /\ 1 \in 1..n
    BY <1>1, <1>2
  <1>4. \A i \in 1..n : i = 1 \/ p[i] \in Lines(a)
    <2>1. ASSUME NEW i \in 1..n, i # 1 PROVE p[i] \in Lines(a)
      <3>1. i \in (1 + 1)..(1 + Len(a))
        BY <1>2, <2>1
      <3>2. i - 1 \in 1..Len(a) /\ p[i] = a[i - 1]
        BY <1>2, <3>1
      <3> QED BY <3>2 DEF Lines
    <2> QED BY <2>1
  <1> HIDE DEF p
  <1>5. /\ r = p \o b /\ Len(r) = n + Len(b) /\ Len(b) \in Nat
        /\ \A i \in 1..n : r[i] = p[i]
        /\ \A j \in (n + 1)..(n + Len(b)) : j - n \in 1..Len(b) /\ r[j] = b[j - n]
    <2>1. r = p \o b
      BY DEF p, h
    <2>2. /\ p \o b \in Seq(S) /\ Len(p \o b) = Len(p) + Len(b)
          /\ Len(p) \in Nat /\ Len(b) \in Nat
          /\ \A i \in 1..Len(p) : (p \o b)[i] = p[i]
          /\ \A i \in 1..Len(b) : (p \o b)[Len(p) + i] = b[i]
          /\ \A j \in (Len(p) + 1)..(Len(p) + Len(b)) :
               j - Len(p) \in 1..Len(b) /\ (p \o b)[j] = b[j - Len(p)]
      BY <1>2, Appended
    <2> QED BY ONLY <2>1, <2>2 DEF n
  <1> HIDE DEF n
  <1>6. Len(r) \in Nat /\ 1 \in 1..Len(r) /\ r[1] = m
    BY <1>3, <1>5
  <1>7. ASSUME NEW i \in 1..Len(r) PROVE i = 1 \/ r[i] \in Lines(a) \/ r[i] \in Lines(b)
    <2>1. i \in 1..n \/ i \in (n + 1)..(n + Len(b))
      BY <1>3, <1>5
    <2>2. CASE i \in 1..n
      BY <1>4, <1>5, <2>2
    <2>3. CASE i \in (n + 1)..(n + Len(b))
      <3>1. i - n \in 1..Len(b) /\ r[i] = b[i - n]
        BY <1>5, <2>3
      <3> QED BY <3>1 DEF Lines
    <2> QED BY <2>1, <2>2, <2>3
  <1> QED BY <1>6, <1>7

\* burst_all names the members once, in its first line.
LEMMA BurstTells ==
    ASSUME Fair, NEW v \in Server, NEW b, b = Burst(v)
    PROVE  /\ b \in Seq(FairMessage) /\ Len(b) \in Nat
           /\ \A i \in 1..Len(b) : b[i].type \in BurstTypes
           /\ \A u \in User :
                /\ \A i \in 1..Len(b) : Adds(b[i], u) <=> i = 1 /\ u \in chan[v].member
                /\ u \in chan[v].member => 1 \in 1..Len(b)
  <1> DEFINE c == chan[v]
             sjoin == SjoinMsg(c.ts, c.modes, c.member, c.op)
             bmask == [type |-> "BMASK", ts |-> c.ts, bans |-> c.bans]
             tburst == [type |-> "TBURST", ts |-> c.ts, topic |-> c.topic, time |-> c.topictime]
             bans == IF c.bans = {} THEN <<>> ELSE <<bmask>>
             topics == IF c.topictime = 0 THEN <<>> ELSE <<tburst>>
  <1>1. b \in Seq(FairMessage) /\ Len(b) \in Nat
    BY BurstFair
  <1>2. b = IF Exists(c) THEN <<sjoin>> \o bans \o topics ELSE <<>>
    BY DEF Burst
  <1>3. CASE ~Exists(c)
    <2>1. b = <<>> /\ c.member = {}
      BY <1>2, <1>3 DEF Exists
    <2>2. \A i \in 1..Len(b) : FALSE
      BY <2>1
    <2> QED BY <1>1, <2>1, <2>2
  <1>4. CASE Exists(c)
    <2>1. sjoin.type = "SJOIN" /\ sjoin.nicks = c.member
      BY DEF SjoinMsg
    <2>2. bmask.type = "BMASK" /\ tburst.type = "TBURST"
      OBVIOUS
    <2>3. c \in FairChannel
      BY DEF Fair
    <2>4. sjoin \in FairMessage /\ bmask \in FairMessage /\ tburst \in FairMessage
      <3> HIDE DEF c
      <3> QED BY <2>3, ChannelFields, SjoinFair, OtherFair
    <2> HIDE DEF c, sjoin, bmask, tburst
    <2>5. bans \in Seq(FairMessage) /\ topics \in Seq(FairMessage)
      BY <2>4, ShortSeq, EmptySeq
    <2>6. Lines(bans) \subseteq {bmask} /\ Lines(topics) \subseteq {tburst}
      BY LinesOne
    <2> HIDE DEF bans, topics
    <2>7. b = <<sjoin>> \o bans \o topics
      BY <1>2, <1>4
    <2>8. /\ 1 \in 1..Len(b) /\ b[1] = sjoin
          /\ \A i \in 1..Len(b) : i = 1 \/ b[i] \in Lines(bans) \/ b[i] \in Lines(topics)
      BY ONLY <2>4, <2>5, <2>7, HeadThen
    <2>9. \A i \in 1..Len(b) : i = 1 \/ b[i].type \in {"BMASK", "TBURST"}
      BY <2>2, <2>6, <2>8
    <2>10. \A i \in 1..Len(b) : b[i].type \in BurstTypes
      BY <2>1, <2>8, <2>9 DEF BurstTypes
    <2>11. ASSUME NEW u \in User, NEW i \in 1..Len(b)
           PROVE  Adds(b[i], u) <=> i = 1 /\ u \in c.member
      BY <2>1, <2>8, <2>9 DEF Adds
    <2> QED BY <1>1, <2>8, <2>10, <2>11 DEF c
  <1> QED BY <1>3, <1>4

\* A stream in which one line, the k-th, says who is a member.
LEMMA ToldBy ==
    ASSUME NEW q, Len(q) \in Nat, NEW k \in Nat, NEW s, NEW u, NEW M, NEW N, u \notin M,
           \A i \in 1..Len(q) : ~Takes(s, q[i], u) /\ (Adds(q[i], u) <=> i = k /\ u \in N),
           u \in N => k \in 1..Len(q)
    PROVE  /\ AtLast(s, u, q, M) <=> u \in N
           /\ AddsOnce(s, u, q, M) /\ ~KickIn(q, u)
  <1>1. AtLast(s, u, q, M) => u \in N
    BY DEF AtLast, After
  <1>2. ASSUME u \in N PROVE AtLast(s, u, q, M)
    <2>1. k \in 1..Len(q) /\ Adds(q[k], u)
      BY <1>2
    <2>2. \A j \in (k + 1)..Len(q) : j \in 1..Len(q)
      BY <2>1
    <2> QED BY <2>1, <2>2 DEF AtLast, After
  <1>3. AddsOnce(s, u, q, M)
    <2>1. ASSUME NEW n \in 1..Len(q), Adds(q[n], u), After(s, u, q, n - 1, M) PROVE FALSE
      <3>1. PICK i \in 1..(n - 1) : Adds(q[i], u)
        BY <2>1 DEF After
      <3>2. i \in 1..Len(q) /\ i # n
        BY <3>1
      <3> QED BY <2>1, <3>1, <3>2
    <2> QED BY <2>1 DEF AddsOnce
  <1>4. ~KickIn(q, u)
    BY AddsOrTakes DEF KickIn
  <1> QED BY <1>1, <1>2, <1>3, <1>4

\* Lines of a handshake and of a burst raise no wave.
LEMMA WaveKept ==
    ASSUME Wave, chan' = chan,
           \A l \in Link :
             /\ \A m \in Lines(queue'[l]) :
                  m \in Lines(queue[l]) \/ m.type \in BurstTypes \cup {"SERVER"}
             /\ \A u \in User : KickOnce(queue[l], u) => KickOnce(queue'[l], u)
    PROVE  Wave'
  <1>1. \A l \in Link : \A m \in Lines(queue'[l]) :
          \/ m \in Lines(queue[l])
          \/ m.type \notin {"KICK", "PART", "SQUIT", "CLOSE"}
    BY DEF BurstTypes
  <1>2. \A l \in Link, u \in User : KickIn(queue'[l], u) => KickIn(queue[l], u)
    BY <1>1, LinesAre DEF Kicks
  <1>3. OneKick'
    BY <1>1 DEF OneKick, Wave
  <1>4. ASSUME NEW s \in Server, NEW v \in Server, NEW u \in User, Way(u, s, v)
        PROVE  KickWave(s, v, u)'
    <2>1. <<s, v>> \in Link /\ KickWave(s, v, u)
      BY <1>4, OneWay DEF Wave
    <2> QED BY <1>2, <2>1 DEF KickWave
  <1>5. \A s, v \in Server : \A u \in User : Way(u, s, v)' => KickWave(s, v, u)'
    BY <1>4 DEF Way
  <1> QED BY <1>3, <1>5 DEF Wave

\* What joins two servers leaves the rest alone.
LEMMA LinkedMembers ==
    ASSUME Fair, MembersInv, NEW s \in Server, NEW v \in Server, <<s, v>> \in Link,
           chan' = chan, past \subseteq past', "again" \in past',
           \A l \in Link \ Ends(s, v) : queue'[l] = queue[l] /\ link'[l] = link[l],
           \A l \in Ends(s, v) : HandshakeAt(l)',
           \A l \in Link :
             /\ \A m \in Lines(queue'[l]) :
                  m \in Lines(queue[l]) \/ m.type \in BurstTypes \cup {"SERVER"}
             /\ \A u \in User : KickOnce(queue[l], u) => KickOnce(queue'[l], u),
           \A u \in User :
             /\ Way(u, s, v) => BasicAt(s, v, u)' /\ (AllExact => ExactAt(s, v, u)')
             /\ Way(u, v, s) => BasicAt(v, s, u)' /\ (AllExact => ExactAt(v, s, u)')
    PROVE  MembersInv'
  <1>1. Base
    BY DEF MembersInv
  <1>2. Streams'
    <2>1. ASSUME NEW l \in Link PROVE HandshakeAt(l)' /\ LegalAt(l)' /\ KickAt(l)'
      <3>1. HandshakeAt(l) /\ LegalAt(l) /\ KickAt(l)
        BY <1>1 DEF Base, Streams
      <3>2. \A m \in Lines(queue'[l]) :
              \/ m \in Lines(queue[l])
              \/ m.type \notin {"JOIN", "PART", "SQUIT", "KICK"}
        BY DEF BurstTypes
      <3>3. LegalAt(l)'
        BY <3>1, <3>2 DEF LegalAt, LegalLine
      <3>4. KickAt(l)'
        BY <3>1, <3>2 DEF KickAt
      <3>5. HandshakeAt(l)'
        <4>1. CASE l \in Ends(s, v)
          BY <4>1
        <4>2. CASE l \notin Ends(s, v)
          <5>1. l = <<l[1], l[2]>>
            BY LinkIsPair
          <5>2. Back(l) \in Link /\ Back(l) \notin Ends(s, v)
            <6>1. <<l[2], l[1]>> \in Link
              BY LinkIsPair DEF Peers
            <6>2. <<l[2], l[1]>> \notin Ends(s, v)
              BY <4>2, <5>1 DEF Ends
            <6> QED BY <6>1, <6>2 DEF Back
          <5>3. /\ queue'[l] = queue[l] /\ link'[l] = link[l]
                /\ link'[Back(l)] = link[Back(l)]
            BY <4>2, <5>2
          <5> QED BY <3>1, <5>3 DEF HandshakeAt
        <4> QED BY <4>1, <4>2
      <3> QED BY <3>3, <3>4, <3>5
    <2> QED BY <2>1 DEF Streams
  <1>3. KnownWays'
    BY <1>1 DEF Base, KnownWays, Has, Way
  <1>4. ASSUME NEW a \in Server, NEW b \in Server, NEW u \in User, Way(u, a, b)
        PROVE  BasicAt(a, b, u)' /\ (AllExact => ExactAt(a, b, u)')
    <2>1. CASE <<a, b>> \in Ends(s, v)
      <3>1. (a = s /\ b = v) \/ (a = v /\ b = s)
        BY <2>1 DEF Ends
      <3> QED BY <1>4, <3>1
    <2>2. CASE <<a, b>> \notin Ends(s, v)
      <3>1. <<a, b>> \in Link /\ <<b, a>> \in Link
        BY <1>4, OneWay
      <3>2. <<b, a>> \notin Ends(s, v)
        BY <2>2 DEF Ends
      <3>3. /\ queue'[<<a, b>>] = queue[<<a, b>>] /\ link'[<<a, b>>] = link[<<a, b>>]
            /\ queue'[<<b, a>>] = queue[<<b, a>>] /\ link'[<<b, a>>] = link[<<b, a>>]
        BY <2>2, <3>1, <3>2
      <3>4. BasicAt(a, b, u) /\ (AllExact => ExactAt(a, b, u))
        BY <1>1, <1>4 DEF Base, AllBasic, AllExact
      <3>5. BasicAt(a, b, u)'
        BY <3>3, <3>4 DEF BasicAt
      <3>6. AllExact => ExactAt(a, b, u)'
        BY <3>3, <3>4 DEF ExactAt
      <3> QED BY <3>5, <3>6
    <2> QED BY <2>1, <2>2
  <1>5. AllBasic'
    <2>1. \A a, b \in Server : \A u \in User : Way(u, a, b)' => BasicAt(a, b, u)'
      BY <1>4 DEF Way
    <2> QED BY <2>1 DEF AllBasic
  <1>6. ASSUME ~({"kick", "again"} \subseteq past') PROVE AllExact'
    <2>1. AllExact
      BY <1>6 DEF MembersInv
    <2>2. \A a, b \in Server : \A u \in User : Way(u, a, b)' => ExactAt(a, b, u)'
      BY <1>4, <2>1 DEF Way
    <2> QED BY <2>2 DEF AllExact
  <1>7. ASSUME "kick" \notin past' PROVE Wave'
    <2>1. Wave
      BY <1>7 DEF MembersInv
    <2> QED BY <2>1, WaveKept
  <1>8. Base'
    BY <1>2, <1>3, <1>5 DEF Base
  <1> QED BY <1>6, <1>7, <1>8 DEF MembersInv

\* A burst adds no KICK, and no handshake.
LEMMA BurstIn ==
    ASSUME NEW b \in Seq(FairMessage), \A i \in 1..Len(b) : b[i].type \in BurstTypes
    PROVE  /\ \A m \in Lines(b) : m.type \in BurstTypes
           /\ \A u : ~KickIn(b, u)
           /\ \A s, u : \A i \in 1..Len(b) : ~Takes(s, b[i], u)
  <1>1. \A m \in Lines(b) : m.type \in BurstTypes
    BY DEF Lines
  <1>2. \A u : ~KickIn(b, u)
    BY DEF KickIn, Kicks, BurstTypes
  <1>3. \A s, u : \A i \in 1..Len(b) : ~Takes(s, b[i], u)
    BY DEF Takes, Kicks, BurstTypes
  <1> QED BY <1>1, <1>2, <1>3

\* <<SERVER>> \o Burst
LEMMA HandshakeTells ==
    ASSUME Fair, NEW v \in Server, NEW q, q = <<[type |-> "SERVER"]>> \o Burst(v)
    PROVE  /\ Len(q) \in Nat /\ q # <<>> /\ Head(q).type = "SERVER"
           /\ \A m \in Lines(q) : m.type \in BurstTypes \cup {"SERVER"}
           /\ \A i \in 1..Len(q) : q[i].type = "SERVER" => i = 1
           /\ \A u \in User :
                /\ u \in chan[v].member => 2 \in 1..Len(q)
                /\ \A i \in 1..Len(q) : /\ Adds(q[i], u) <=> i = 2 /\ u \in chan[v].member
                                        /\ \A s : ~Takes(s, q[i], u)
                /\ ~KickIn(q, u)
  <1> DEFINE b == Burst(v)
             N == chan[v].member
  <1>12. /\ b \in Seq(FairMessage) /\ Len(b) \in Nat
         /\ \A i \in 1..Len(b) : b[i].type \in BurstTypes
         /\ \A u \in User : /\ \A i \in 1..Len(b) : Adds(b[i], u) <=> i = 1 /\ u \in N
                            /\ u \in N => 1 \in 1..Len(b)
    BY BurstTells
  <1>13. q = <<[type |-> "SERVER"]>> \o b
    OBVIOUS
  <1> HIDE DEF b, N
  <1> DEFINE c == [type |-> "SERVER"]
             h == <<c>>
  <1>1. c \in FairMessage /\ c.type = "SERVER"
    BY OtherFair
  <1> HIDE DEF c
  <1>2. h \in Seq(FairMessage) /\ Len(h) = 1 /\ h[1] = c
    BY <1>1, ShortSeq
  <1> HIDE DEF h
  <1>3. q = h \o b
    BY <1>13 DEF h, c
  <1>4. /\ h \o b \in Seq(FairMessage) /\ Len(h \o b) = Len(h) + Len(b)
        /\ Len(h) \in Nat /\ Len(b) \in Nat
        /\ \A i \in 1..Len(h) : (h \o b)[i] = h[i]
        /\ \A i \in 1..Len(b) : (h \o b)[Len(h) + i] = b[i]
        /\ \A j \in (Len(h) + 1)..(Len(h) + Len(b)) :
             j - Len(h) \in 1..Len(b) /\ (h \o b)[j] = b[j - Len(h)]
    BY <1>2, <1>12, Appended
  <1>5. /\ q \in Seq(FairMessage) /\ Len(q) = 1 + Len(b) /\ q[1] = c /\ Len(q) \in Nat
        /\ 1 \in 1..Len(q)
        /\ \A j \in 2..(1 + Len(b)) : j - 1 \in 1..Len(b) /\ q[j] = b[j - 1]
    BY ONLY <1>2, <1>3, <1>4
  <1>6. \A j \in 1..Len(q) : j = 1 \/ j \in 2..(1 + Len(b))
    BY <1>5
  <1>7. q # <<>> /\ Head(q).type = "SERVER"
    <2>1. q # <<>>
      BY <1>5
    <2>2. Head(q) = q[1]
      BY <1>5, <2>1, HeadTailProperties
    <2> QED BY <1>1, <1>5, <2>1, <2>2
  <1>8. \A j \in 1..Len(q) :
          (j = 1 /\ q[j].type = "SERVER") \/ (j # 1 /\ q[j].type \in BurstTypes)
    <2>1. ASSUME NEW j \in 1..Len(q), j # 1 PROVE q[j].type \in BurstTypes
      <3>1. j - 1 \in 1..Len(b) /\ q[j] = b[j - 1]
        BY <1>5, <1>6, <2>1
      <3> QED BY <1>12, <3>1
    <2>2. q[1].type = "SERVER"
      BY <1>1, <1>5
    <2>3. ASSUME NEW j \in 1..Len(q)
          PROVE  (j = 1 /\ q[j].type = "SERVER") \/ (j # 1 /\ q[j].type \in BurstTypes)
      <3>1. CASE j = 1
        BY <2>2, <3>1
      <3>2. CASE j # 1
        BY <2>1, <3>2
      <3> QED BY <3>1, <3>2
    <2> QED BY <2>3
  <1>9. \A m \in Lines(q) : m.type \in BurstTypes \cup {"SERVER"}
    BY <1>8 DEF Lines
  <1>10. \A i \in 1..Len(q) : q[i].type = "SERVER" => i = 1
    BY <1>8 DEF BurstTypes
  <1>11. ASSUME NEW u \in User
         PROVE  /\ u \in N => 2 \in 1..Len(q)
                /\ \A i \in 1..Len(q) : /\ Adds(q[i], u) <=> i = 2 /\ u \in N
                                        /\ \A s : ~Takes(s, q[i], u)
                /\ ~KickIn(q, u)
    <2>1. u \in N => 2 \in 1..Len(q)
      <3>1. ASSUME u \in N PROVE 2 \in 1..Len(q)
        <4>1. 1 \in 1..Len(b) /\ Len(b) \in Nat
          BY <1>12, <3>1
        <4> QED BY <1>5, <4>1
      <3> QED BY <3>1
    <2>2. ASSUME NEW i \in 1..Len(q)
          PROVE  Adds(q[i], u) <=> i = 2 /\ u \in N
      <3>1. CASE i = 1
        BY <1>8, <3>1 DEF Adds
      <3>2. CASE i # 1
        <4>1. i - 1 \in 1..Len(b) /\ q[i] = b[i - 1] /\ (i - 1 = 1 <=> i = 2)
          BY <1>5, <1>6, <3>2
        <4> QED BY <1>12, <4>1
      <3> QED BY <3>1, <3>2
    <2>3. \A i \in 1..Len(q) : \A s : ~Takes(s, q[i], u)
      BY <1>8 DEF Takes, Kicks, BurstTypes
    <2>4. ~KickIn(q, u)
      BY <1>8 DEF KickIn, Kicks, BurstTypes
    <2> QED BY <2>1, <2>2, <2>3, <2>4
  <1> QED BY <1>5, <1>7, <1>9, <1>10, <1>11 DEF N

\* Connect
LEMMA ConnectMembers ==
    ASSUME Fair, MembersInv, NEW s \in Server, NEW v \in Server, Connect(s, v)
    PROVE  MembersInv'
  <1> DEFINE q == <<[type |-> "SERVER"]>> \o Burst(v)
             N == chan[v].member
  <1>1. /\ <<s, v>> \in Link /\ <<v, s>> \in Link /\ s # v /\ v \in Peers(s)
    BY LinkEnds DEF Connect, Peers
  <1>2. /\ queue[<<s, v>>] = <<>> /\ queue[<<v, s>>] = <<>>
        /\ link[<<s, v>>] = "down" /\ link[<<v, s>>] = "down"
        /\ queue'[<<s, v>>] = <<>> /\ queue'[<<v, s>>] = q
        /\ link'[<<s, v>>] = "connecting" /\ link'[<<v, s>>] = "up"
        /\ chan' = chan /\ past \subseteq past' /\ "again" \in past'
        /\ \A l \in Link \ Ends(s, v) : queue'[l] = queue[l] /\ link'[l] = link[l]
    BY <1>1 DEF Connect, Fair, Ends
  <1>3. /\ Len(q) \in Nat /\ q # <<>> /\ Head(q).type = "SERVER"
        /\ \A m \in Lines(q) : m.type \in BurstTypes \cup {"SERVER"}
        /\ \A i \in 1..Len(q) : q[i].type = "SERVER" => i = 1
        /\ \A u \in User :
             /\ u \in N => 2 \in 1..Len(q)
             /\ \A i \in 1..Len(q) : /\ Adds(q[i], u) <=> i = 2 /\ u \in N
                                     /\ \A t : ~Takes(t, q[i], u)
             /\ ~KickIn(q, u)
    BY HandshakeTells
  <1> HIDE DEF q
  <1>4. /\ \A i \in 1..Len(<<>>) : FALSE
        /\ \A u \in User : ~KickIn(<<>>, u) /\ \A t, M : AddsOnce(t, u, <<>>, M)
        /\ \A u \in User : \A t, M : AtLast(t, u, <<>>, M) <=> u \in M
    <2>1. \A i \in 1..Len(<<>>) : FALSE
      OBVIOUS
    <2> QED BY <2>1, AtLastEmpty
  <1>5. Lines(<<>>) = {}
    BY LinesOne
  <1>6. HandshakeAt(<<s, v>>)' /\ HandshakeAt(<<v, s>>)'
    <2>1. Back(<<s, v>>) = <<v, s>> /\ Back(<<v, s>>) = <<s, v>>
      BY DEF Back
    <2>2. HandshakeAt(<<s, v>>)'
      BY <1>2, <1>4, <1>5, <2>1 DEF HandshakeAt
    <2>3. \A m \in Lines(q) : m.type # "CLOSE"
      BY <1>3 DEF BurstTypes
    <2>4. HandshakeAt(<<v, s>>)'
      BY <1>2, <1>3, <2>1, <2>3 DEF HandshakeAt
    <2> QED BY <2>2, <2>4
  <1>7. \A l \in Ends(s, v) : HandshakeAt(l)'
    BY <1>6 DEF Ends
  <1>8. ASSUME NEW l \in Link
        PROVE  /\ \A m \in Lines(queue'[l]) :
                    m \in Lines(queue[l]) \/ m.type \in BurstTypes \cup {"SERVER"}
               /\ \A u \in User : KickOnce(queue[l], u) => KickOnce(queue'[l], u)
    <2>1. CASE l \notin Ends(s, v)
      BY <1>2, <2>1
    <2>2. CASE l = <<s, v>>
      BY <1>2, <2>2
    <2>3. CASE l = <<v, s>>
      <3>1. \A u \in User : \A i \in 1..Len(q) : ~Kicks(q[i], u)
        BY <1>3 DEF KickIn
      <3> QED BY <1>2, <1>3, <2>3, <3>1 DEF KickOnce
    <2> QED BY <2>1, <2>2, <2>3 DEF Ends
  <1>9. ASSUME NEW u \in User, Way(u, s, v)
        PROVE  BasicAt(s, v, u)' /\ (AllExact => ExactAt(s, v, u)')
    <2> DEFINE M == chan[s].member
    <2>1. u \notin M
      <3>1. BasicAt(s, v, u)
        BY <1>9 DEF MembersInv, Base, AllBasic
      <3> QED BY <1>2, <3>1 DEF BasicAt, Basic
    <2>2. /\ AtLast(s, u, q, M) <=> u \in N
          /\ AddsOnce(s, u, q, M)
      <3>1. \A i \in 1..Len(q) : ~Takes(s, q[i], u) /\ (Adds(q[i], u) <=> i = 2 /\ u \in N)
        BY <1>3
      <3>2. Len(q) \in Nat /\ (u \in N => 2 \in 1..Len(q))
        BY <1>3
      <3> HIDE DEF M, N
      <3>3. /\ AtLast(s, u, q, M) <=> u \in N
            /\ AddsOnce(s, u, q, M) /\ ~KickIn(q, u)
        <4>1. 2 \in Nat
          OBVIOUS
        <4> QED BY ONLY <2>1, <3>1, <3>2, <4>1, ToldBy
      <3> QED BY <3>3
    <2>3. Basic(q, <<>>, M, "up", "connecting", s, u)
      BY <2>1 DEF Basic
    <2>4. Exact(q, <<>>, M, N, "up", "connecting", s, u)
      BY <1>4, <2>2 DEF Exact
    <2> QED BY <1>2, <2>3, <2>4 DEF BasicAt, ExactAt
  <1>10. ASSUME NEW u \in User, Way(u, v, s)
         PROVE  BasicAt(v, s, u)' /\ (AllExact => ExactAt(v, s, u)')
    <2>1. u \notin N
      <3>1. BasicAt(v, s, u)
        BY <1>10 DEF MembersInv, Base, AllBasic
      <3> QED BY <1>2, <3>1 DEF BasicAt, Basic
    <2>2. Basic(<<>>, q, N, "connecting", "up", v, u)
      BY <1>3, <1>4, <2>1 DEF Basic
    <2>3. Exact(<<>>, q, N, chan[s].member, "connecting", "up", v, u)
      BY <1>3, <1>4 DEF Exact
    <2> QED BY <1>2, <2>2, <2>3 DEF BasicAt, ExactAt
  <1>11. /\ chan' = chan /\ past \subseteq past' /\ "again" \in past' /\ <<s, v>> \in Link
         /\ \A l \in Link \ Ends(s, v) : queue'[l] = queue[l] /\ link'[l] = link[l]
         /\ \A u \in User :
              /\ Way(u, s, v) => BasicAt(s, v, u)' /\ (AllExact => ExactAt(s, v, u)')
              /\ Way(u, v, s) => BasicAt(v, s, u)' /\ (AllExact => ExactAt(v, s, u)')
    BY <1>1, <1>2, <1>9, <1>10
  <1> HIDE DEF N
  <1> QED BY <1>7, <1>8, <1>11, LinkedMembers

\* The streams when the side that connected has parsed the SERVER line.
LEMMA ServerEstabActs ==
    ASSUME Fair, MembersInv, NEW s \in Server, NEW v \in Server, ServerEstab(s, v)
    PROVE  /\ <<s, v>> \in Link /\ <<v, s>> \in Link /\ s # v /\ v \in Peers(s)
           /\ queue[<<v, s>>] \in Seq(FairMessage) /\ queue[<<v, s>>] # <<>>
           /\ Head(queue[<<v, s>>]).type = "SERVER"
           /\ link[<<s, v>>] = "connecting" /\ "again" \in past
           /\ queue'[<<v, s>>] = Tail(queue[<<v, s>>])
           /\ queue'[<<s, v>>] = queue[<<s, v>>] \o Burst(s)
           /\ link'[<<s, v>>] = "up" /\ link'[<<v, s>>] = link[<<v, s>>]
           /\ \A l \in Link \ Ends(s, v) : queue'[l] = queue[l] /\ link'[l] = link[l]
  <1>1. Base /\ Parses(s, v, {"SERVER"})
    BY DEF ServerEstab, MembersInv
  <1>2. /\ v \in Peers(s) /\ <<v, s>> \in Link /\ <<s, v>> \in Link
        /\ queue[<<v, s>>] # <<>>
        /\ Line(v, s).type \in {"SERVER"} /\ Line(v, s) \in Lines(queue[<<v, s>>])
    BY <1>1, HandlerLine
  <1>3. s # v
    BY <1>2, LinkEnds
  <1>4. queue[<<v, s>>] \in Seq(FairMessage) /\ queue[<<s, v>>] \in Seq(FairMessage)
    BY <1>2, QueueType
  <1>5. Head(queue[<<v, s>>]).type = "SERVER"
    BY <1>2 DEF Line
  <1>6. link[<<s, v>>] = "connecting"
    <2>1. HandshakeAt(<<v, s>>)
      BY <1>1, <1>2 DEF Base, Streams
    <2>2. /\ Head(queue[<<v, s>>]) = queue[<<v, s>>][1]
          /\ 1 \in 1..Len(queue[<<v, s>>])
      BY <1>2, <1>4, Parsed
    <2>3. Back(<<v, s>>) = <<s, v>>
      BY DEF Back
    <2> QED BY <1>5, <2>1, <2>2, <2>3 DEF HandshakeAt
  <1>7. "again" \in past
    BY <1>2, <1>6 DEF MembersInv, Clean
  <1>8. /\ queue'[<<v, s>>] = Tail(queue[<<v, s>>])
        /\ queue'[<<s, v>>] = queue[<<s, v>>] \o Burst(s)
    BY <1>2, <1>3 DEF ServerEstab, Answer, ToOne
  <1>9. link'[<<s, v>>] = "up" /\ link'[<<v, s>>] = link[<<v, s>>]
    BY <1>2, <1>3 DEF ServerEstab, Fair
  <1>10. ASSUME NEW l \in Link \ Ends(s, v) PROVE queue'[l] = queue[l] /\ link'[l] = link[l]
    <2>1. l # <<s, v>> /\ l # <<v, s>> /\ l[2] \in Peers(l[1]) /\ l = <<l[1], l[2]>>
      BY LinkIsPair DEF Ends
    <2>2. link'[l] = link[l]
      BY <2>1 DEF ServerEstab, Fair
    <2>3. CASE l[1] # s
      BY <2>1, <2>2, <2>3 DEF ServerEstab, Answer
    <2>4. CASE l[1] = s
      <3>1. l[2] \in Peers(s) /\ l[2] # v
        BY <2>1, <2>4
      <3>2. queue'[l] = queue[l] \o <<>>
        BY <2>1, <2>4, <3>1 DEF ServerEstab, Answer, ToOne
      <3>3. queue[l] \in Seq(FairMessage)
        BY QueueType
      <3>4. queue[l] \o <<>> = queue[l]
        BY <3>3
      <3> QED BY <2>2, <3>2, <3>4
    <2> QED BY <2>3, <2>4
  <1> QED BY <1>2, <1>3, <1>4, <1>5, <1>6, <1>7, <1>8, <1>9, <1>10

\* ServerEstab
LEMMA ServerEstabMembers ==
    ASSUME Fair, MembersInv, NEW s \in Server, NEW v \in Server, ServerEstab(s, v)
    PROVE  MembersInv'
  <1> DEFINE q == queue[<<v, s>>]
             r == queue[<<s, v>>]
             b == Burst(s)
             N == chan[s].member
  <1>1. /\ <<s, v>> \in Link /\ <<v, s>> \in Link /\ s # v /\ v \in Peers(s)
        /\ q \in Seq(FairMessage) /\ q # <<>> /\ Head(q).type = "SERVER"
        /\ link[<<s, v>>] = "connecting" /\ "again" \in past
        /\ queue'[<<v, s>>] = Tail(q)
        /\ queue'[<<s, v>>] = r \o b
        /\ link'[<<s, v>>] = "up" /\ link'[<<v, s>>] = link[<<v, s>>]
        /\ \A l \in Link \ Ends(s, v) : queue'[l] = queue[l] /\ link'[l] = link[l]
    BY ServerEstabActs
  <1>2. chan' = chan /\ past' = past
    BY DEF ServerEstab
  <1>3. r \in Seq(FairMessage)
    BY <1>1, QueueType
  <1>4. /\ b \in Seq(FairMessage) /\ Len(b) \in Nat
        /\ \A i \in 1..Len(b) : b[i].type \in BurstTypes
        /\ \A u \in User : /\ \A i \in 1..Len(b) : Adds(b[i], u) <=> i = 1 /\ u \in N
                           /\ u \in N => 1 \in 1..Len(b)
    BY BurstTells
  <1>5. Base /\ HandshakeAt(<<s, v>>) /\ HandshakeAt(<<v, s>>)
    BY <1>1 DEF MembersInv, Base, Streams
  <1>6. Back(<<s, v>>) = <<v, s>> /\ Back(<<v, s>>) = <<s, v>>
    BY DEF Back
  <1> DEFINE near == link[<<v, s>>]
  <1>7. /\ \A m \in Lines(q) : m.type = "CLOSE" => near = "down"
        /\ \A i \in 1..Len(q) : q[i].type = "SERVER" => i = 1
        /\ \A m \in Lines(r) : m.type # "CLOSE"
        /\ near = "connecting" => r # <<>> /\ Head(r).type \in {"SERVER", "CLOSE"}
        /\ \A i \in 1..Len(r) : r[i].type = "SERVER" => i = 1 /\ near = "connecting"
    BY <1>1, <1>5, <1>6 DEF HandshakeAt
  <1>8. \A u \in User :
          /\ near = "connecting" /\ Way(u, s, v) => q = <<>>
          /\ Way(u, v, s) => r = <<>> /\ ~KickIn(q, u) /\ u \notin chan[v].member
    <2>1. ASSUME NEW u \in User, near = "connecting", Way(u, s, v) PROVE q = <<>>
      BY <1>5, <2>1 DEF Base, AllBasic, BasicAt, Basic
    <2>2. ASSUME NEW u \in User, Way(u, v, s)
          PROVE  r = <<>> /\ ~KickIn(q, u) /\ u \notin chan[v].member
      <3>1. Basic(r, q, chan[v].member, "connecting", near, v, u)
        BY <1>1, <1>5, <2>2 DEF Base, AllBasic, BasicAt
      <3>2. r = <<>> /\ ~KickIn(q, u) /\ ~AtLast(v, u, r, chan[v].member)
        BY <3>1 DEF Basic
      <3> QED BY <3>2, AtLastEmpty
    <2> QED BY <2>1, <2>2
  <1>10. /\ Lines(Tail(q)) \subseteq Lines(q)
         /\ Lines(r \o b) = Lines(r) \cup Lines(b)
    BY <1>1, <1>3, <1>4, LinesParsed, LinesAppended
  <1>11. /\ \A m \in Lines(b) : m.type \in BurstTypes
         /\ \A u : ~KickIn(b, u)
         /\ \A t, u : \A i \in 1..Len(b) : ~Takes(t, b[i], u)
    BY <1>4, BurstIn
  <1> HIDE DEF q, r, b, N, near
  <1>12. HandshakeAt(<<v, s>>)'
    <2>1. \A m \in Lines(Tail(q)) : m.type = "CLOSE" => near = "down"
      BY <1>7, <1>10
    <2>2. \A i \in 1..Len(Tail(q)) : Tail(q)[i].type # "SERVER"
      <3>1. \A i \in 1..Len(Tail(q)) : Tail(q)[i] = q[i + 1] /\ i + 1 \in 1..Len(q)
        BY <1>1, Parsed
      <3>2. Len(Tail(q)) \in Nat
        BY <1>1, Parsed
      <3>3. \A i \in 1..Len(Tail(q)) : i + 1 # 1
        BY <3>2
      <3> QED BY <1>7, <3>1, <3>3
    <2> QED BY <1>1, <1>6, <2>1, <2>2 DEF HandshakeAt, near
  <1>13. HandshakeAt(<<s, v>>)'
    <2>1. \A m \in Lines(r \o b) : m.type # "CLOSE"
      BY <1>7, <1>10, <1>11 DEF BurstTypes
    <2>2. /\ Len(r \o b) = Len(r) + Len(b) /\ Len(r) \in Nat /\ Len(b) \in Nat
          /\ r \o b \in Seq(FairMessage)
          /\ \A i \in 1..Len(r) : (r \o b)[i] = r[i]
          /\ \A j \in (Len(r) + 1)..(Len(r) + Len(b)) :
               j - Len(r) \in 1..Len(b) /\ (r \o b)[j] = b[j - Len(r)]
      BY <1>3, <1>4, Appended
    <2>3. near = "connecting" => r \o b # <<>> /\ Head(r \o b).type \in {"SERVER", "CLOSE"}
      <3>1. ASSUME near = "connecting"
            PROVE  r \o b # <<>> /\ Head(r \o b).type \in {"SERVER", "CLOSE"}
        <4>1. r # <<>> /\ Head(r).type \in {"SERVER", "CLOSE"}
          BY <1>7, <3>1
        <4>2. 1 \in 1..Len(r) /\ Head(r) = r[1]
          BY <1>3, <4>1, Parsed
        <4>3. r \o b # <<>>
          BY <2>2, <4>2
        <4>4. Head(r \o b) = (r \o b)[1]
          BY <2>2, <4>3, HeadTailProperties
        <4>5. (r \o b)[1] = r[1]
          BY <2>2, <4>2
        <4> QED BY <4>1, <4>2, <4>3, <4>4, <4>5
      <3> QED BY <3>1
    <2>4. ASSUME NEW i \in 1..Len(r \o b), (r \o b)[i].type = "SERVER"
          PROVE  i = 1 /\ near = "connecting"
      <3>1. i \in 1..Len(r) \/ i \in (Len(r) + 1)..(Len(r) + Len(b))
        BY <2>2
      <3>2. CASE i \in 1..Len(r)
        BY <1>7, <2>2, <2>4, <3>2
      <3>3. CASE i \in (Len(r) + 1)..(Len(r) + Len(b))
        <4>1. (r \o b)[i].type \in BurstTypes
          BY <1>4, <2>2, <3>3
        <4> QED BY <2>4, <4>1 DEF BurstTypes
      <3> QED BY <3>1, <3>2, <3>3
    <2> QED BY <1>1, <1>6, <2>1, <2>3, <2>4 DEF HandshakeAt, near
  <1>14. \A l \in Ends(s, v) : HandshakeAt(l)'
    BY <1>12, <1>13 DEF Ends
  <1>15. ASSUME NEW l \in Link
         PROVE  /\ \A m \in Lines(queue'[l]) :
                     m \in Lines(queue[l]) \/ m.type \in BurstTypes \cup {"SERVER"}
                /\ \A u \in User : KickOnce(queue[l], u) => KickOnce(queue'[l], u)
    <2>1. CASE l \notin Ends(s, v)
      BY <1>1, <2>1
    <2>2. CASE l = <<s, v>>
      <3>1. \A u \in User : KickOnce(r, u) => KickOnce(r \o b, u)
        BY <1>3, <1>4, <1>11, OnceAppended
      <3> QED BY <1>1, <1>10, <1>11, <2>2, <3>1 DEF r
    <2>3. CASE l = <<v, s>>
      <3>1. \A u \in User : KickOnce(q, u) => KickOnce(Tail(q), u)
        BY <1>1, OnceParsed
      <3> QED BY <1>1, <1>10, <2>3, <3>1 DEF q
    <2> QED BY <2>1, <2>2, <2>3 DEF Ends
  <1>16. ASSUME NEW u \in User, Way(u, s, v)
         PROVE  BasicAt(s, v, u)' /\ (AllExact => ExactAt(s, v, u)')
    <2> DEFINE M == chan[s].member
               N1 == chan[v].member
    <2>1. Basic(q, r, M, near, "connecting", s, u)
      BY <1>1, <1>5, <1>16 DEF Base, AllBasic, BasicAt, q, r, near
    <2>2. AllExact => Exact(q, r, M, N1, near, "connecting", s, u)
      BY <1>1, <1>16 DEF AllExact, ExactAt, q, r, near
    <2> HIDE DEF M, N1
    <2>3. ~Adds(Head(q), u) /\ ~Takes(s, Head(q), u)
      BY <1>1 DEF Adds, Takes, Kicks
    <2>4. /\ AtLast(s, u, Tail(q), M) <=> AtLast(s, u, q, M)
          /\ AddsOnce(s, u, q, M) => AddsOnce(s, u, Tail(q), M)
      <3>1. u \in M <=> Adds(Head(q), u) \/ (u \in M /\ ~Takes(s, Head(q), u))
        BY <2>3
      <3> QED BY ONLY <1>1, <3>1, AtLastParsed
    <2>5. KickIn(r \o b, u) <=> KickIn(r, u)
      BY <1>3, <1>4, <1>11, InAppended
    <2>6. AddIn(Tail(q), u) => AddIn(q, u)
      BY <1>1, InParsed
    <2>7. near # "connecting"
      BY <1>1, <1>8, <1>16
    <2>8. Basic(Tail(q), r \o b, M, near, "up", s, u)
      BY <2>1, <2>4, <2>7 DEF Basic
    <2>9. AllExact => Exact(Tail(q), r \o b, M, N1, near, "up", s, u)
      BY <2>2, <2>4, <2>5, <2>6 DEF Exact
    <2>10. BasicAt(s, v, u)'
      BY <1>1, <1>2, <2>8 DEF BasicAt, M, near
    <2>11. AllExact => ExactAt(s, v, u)'
      BY <1>1, <1>2, <2>9 DEF ExactAt, M, N1, near
    <2> QED BY <2>10, <2>11
  <1>17. ASSUME NEW u \in User, Way(u, v, s)
         PROVE  BasicAt(v, s, u)' /\ (AllExact => ExactAt(v, s, u)')
    <2> DEFINE M == chan[v].member
    <2>1. r = <<>> /\ ~KickIn(q, u) /\ u \notin M
      BY <1>8, <1>17
    <2> HIDE DEF M
    <2>2. r \o b = b
      BY <1>4, <2>1
    <2>3. /\ AtLast(v, u, b, M) <=> u \in N
          /\ AddsOnce(v, u, b, M)
      <3>1. \A i \in 1..Len(b) : ~Takes(v, b[i], u) /\ (Adds(b[i], u) <=> i = 1 /\ u \in N)
        BY <1>4, <1>11
      <3>2. Len(b) \in Nat /\ (u \in N => 1 \in 1..Len(b)) /\ 1 \in Nat
        BY <1>4
      <3>3. /\ AtLast(v, u, b, M) <=> u \in N
            /\ AddsOnce(v, u, b, M) /\ ~KickIn(b, u)
        BY ONLY <2>1, <3>1, <3>2, ToldBy
      <3> QED BY <3>3
    <2>4. ~KickIn(Tail(q), u)
      BY <1>1, <2>1, InParsed
    <2>5. Basic(b, Tail(q), M, "up", near, v, u)
      BY <2>1 DEF Basic
    <2>6. Exact(b, Tail(q), M, N, "up", near, v, u)
      BY <2>3, <2>4 DEF Exact
    <2>7. BasicAt(v, s, u)'
      BY <1>1, <1>2, <2>2, <2>5 DEF BasicAt, M, near
    <2>8. ExactAt(v, s, u)'
      BY <1>1, <1>2, <2>2, <2>6 DEF ExactAt, M, N, near
    <2> QED BY <2>7, <2>8
  <1>18. /\ chan' = chan /\ past \subseteq past' /\ "again" \in past' /\ <<s, v>> \in Link
         /\ \A l \in Link \ Ends(s, v) : queue'[l] = queue[l] /\ link'[l] = link[l]
         /\ \A u \in User :
              /\ Way(u, s, v) => BasicAt(s, v, u)' /\ (AllExact => ExactAt(s, v, u)')
              /\ Way(u, v, s) => BasicAt(v, s, u)' /\ (AllExact => ExactAt(v, s, u)')
    BY <1>1, <1>2, <1>16, <1>17
  <1> QED BY <1>14, <1>15, <1>18, LinkedMembers

-----------------------------------------------------------------------------
(* The channel's members, always.                                          *)

\* Nobody is on the channel at first.
LEMMA MembersInit ==
    ASSUME Init
    PROVE  MembersInv
  <1>1. /\ \A s \in Server : chan[s].member = {}
        /\ \A l \in Link : queue[l] = <<>> /\ link[l] = "up"
        /\ past = {}
    BY DEF Init, NoChannel
  <1>2. Lines(<<>>) = {} /\ \A u, s, M : AddsOnce(s, u, <<>>, M)
    BY LinesOne, AtLastEmpty
  <1>3. \A u : ~KickIn(<<>>, u) /\ ~AddIn(<<>>, u)
    BY AtLastEmpty
  <1>4. \A u, s, M : AtLast(s, u, <<>>, M) <=> u \in M
    BY AtLastEmpty
  <1>5. \A i \in 1..Len(<<>>) : FALSE
    OBVIOUS
  <1>6. Streams
    <2>1. ASSUME NEW l \in Link PROVE HandshakeAt(l) /\ LegalAt(l) /\ KickAt(l)
      <3>1. Back(l) \in Link
        BY LinkIsPair DEF Back, Peers
      <3>2. HandshakeAt(l)
        BY <1>1, <1>2, <1>5, <3>1 DEF HandshakeAt
      <3>3. LegalAt(l) /\ KickAt(l)
        BY <1>1, <1>2 DEF LegalAt, KickAt
      <3> QED BY <3>2, <3>3
    <2> QED BY <2>1 DEF Streams
  <1>7. KnownWays
    BY <1>1 DEF KnownWays, Has
  <1>8. ASSUME NEW s \in Server, NEW v \in Server, NEW u \in User, Way(u, s, v)
        PROVE  BasicAt(s, v, u) /\ ExactAt(s, v, u) /\ KickWave(s, v, u) /\ JoinWave(s, v, u)
    <2>1. <<s, v>> \in Link /\ <<v, s>> \in Link
      BY <1>8, OneWay
    <2>2. Basic(<<>>, <<>>, {}, "up", "up", s, u)
      BY DEF Basic
    <2>3. Exact(<<>>, <<>>, {}, {}, "up", "up", s, u)
      BY <1>2, <1>3, <1>4 DEF Exact
    <2>4. BasicAt(s, v, u) /\ ExactAt(s, v, u)
      BY <1>1, <2>1, <2>2, <2>3 DEF BasicAt, ExactAt
    <2>5. KickWave(s, v, u) /\ JoinWave(s, v, u)
      BY <1>1, <1>3, <2>1 DEF KickWave, JoinWave
    <2> QED BY <2>4, <2>5
  <1>9. OneKick
    BY <1>1, <1>2 DEF OneKick
  <1>10. NobodyLeft
    BY <1>1, <1>3 DEF NobodyLeft
  <1>11. Base /\ AllExact
    BY <1>6, <1>7, <1>8 DEF Base, AllBasic, AllExact
  <1>12. Wave /\ Clean
    BY <1>1, <1>8, <1>9, <1>10 DEF Wave, Clean
  <1> QED BY <1>11, <1>12 DEF MembersInv

\* Every step keeps the invariant.
LEMMA MembersStep == Fair /\ MembersInv /\ [Next]_vars => MembersInv'
  <1> SUFFICES ASSUME Fair, MembersInv, [Next]_vars PROVE MembersInv'
    OBVIOUS
  <1>1. CASE Local
    BY <1>1, LocalMembers
  <1>2. ASSUME NEW s \in Server, NEW v \in Server, Receive(s, v)
        PROVE  MembersInv'
    BY <1>2, SjoinWinsMembers, SjoinMergesMembers, SjoinLosesMembers, MsJoinMembers,
       MsLeaveMembers, MsModeMembers, MsBmaskMembers, MsTopicMembers, MsTburstMembers,
       ServerEstabMembers, ReadCloseMembers, MsSquitMembers
       DEF Receive
  <1>3. ASSUME NEW s \in Server, NEW v \in Server, Connect(s, v) \/ Break(s, v)
        PROVE  MembersInv'
    BY <1>3, ConnectMembers, BreakMembers
  <1>4. CASE UNCHANGED vars
    <2>1. /\ chan' = chan /\ link' = link /\ queue' = queue /\ past' = past
      BY <1>4 DEF vars
    <2>2. Base' <=> Base
      BY <2>1 DEF Base, Streams, HandshakeAt, LegalAt, KickAt, KnownWays, Has, AllBasic, BasicAt,
         Way
    <2>3. AllExact' <=> AllExact
      BY <2>1 DEF AllExact, ExactAt, Way
    <2>4. Wave' <=> Wave
      BY <2>1 DEF Wave, OneKick, KickWave, Way
    <2>5. Clean' <=> Clean
      BY <2>1 DEF Clean, JoinWave, NobodyLeft, Way
    <2> QED BY <2>1, <2>2, <2>3, <2>4, <2>5 DEF MembersInv
  <1> QED BY <1>1, <1>2, <1>3, <1>4 DEF Next

\* Streams and copies together say who is on the channel: between neighbours, who is a
\* member at the near end is one at the far end once the lines on their way are parsed,
\* or a KICK is on its way to the near end (ms_join, ms_sjoin, m_part, m_kick, ms_squit,
\* exit_client, server_estab).
THEOREM MembersInvAlways == Spec => []MembersInv
  <1> QED BY InitFair, MembersInit, StepFair, MembersStep, PTL DEF Spec

\* At rest the two ends of a link agree on a user.
LEMMA RestAgrees ==
    ASSUME AllExact, Quiet, NEW s \in Server, NEW v \in Server, Joined(s, v),
           NEW u \in User, Way(u, s, v)
    PROVE  u \in chan[s].member <=> u \in chan[v].member
  <1>1. <<s, v>> \in Link /\ <<v, s>> \in Link
    BY OneWay
  <1>2. Exact(<<>>, <<>>, chan[s].member, chan[v].member, "up", "up", s, u)
    <2>1. ExactAt(s, v, u)
      BY DEF AllExact
    <2>2. /\ queue[<<s, v>>] = <<>> /\ queue[<<v, s>>] = <<>>
          /\ link[<<s, v>>] = "up" /\ link[<<v, s>>] = "up"
      BY <1>1 DEF Quiet, Joined
    <2> QED BY <2>1, <2>2 DEF ExactAt
  <1> QED BY <1>2, AtLastEmpty DEF Exact

\* On a link, one end knows a user through the other, or neither knows it.
LEMMA KnownThrough ==
    ASSUME KnownWays, NEW s \in Server, NEW v \in Peers(s), NEW u \in User,
           u \in chan[s].member
    PROVE  Way(u, s, v) \/ Way(u, v, s)
  <1>1. CASE Home[u] = s
    BY <1>1, HomeWay
  <1>2. CASE Home[u] # s
    <2>1. PICK w \in Server : Way(u, s, w)
      BY <1>2 DEF KnownWays, Has
    <2>2. CASE w = v
      BY <2>1, <2>2
    <2>3. CASE w # v
      <3>1. \A t \in Peers(s) \ {w} : Way(u, t, s)
        BY <2>1, OneWay
      <3> QED BY <2>3, <3>1
    <2> QED BY <2>2, <2>3
  <1> QED BY <1>1, <1>2

\* At rest neighbours agree who is on the channel, whoever parted, was split off or joined
\* the copy the others had already destroyed (ms_join, remove_user_from_channel): on any
\* tree of servers, for any users, unless a KICK crossed other lines and there was a
\* join after a removal.
THEOREM MembersAgree == Spec => []MembersConverge
  <1>1. ASSUME Fair, MembersInv, Quiet, ~({"kick", "again"} \subseteq past),
               NEW l \in Link, Joined(l[1], l[2])
        PROVE  chan[l[1]].member = chan[l[2]].member
    <2>1. PICK s \in Server, v \in Server : s = l[1] /\ v = l[2] /\ v \in Peers(s) /\ s \in Peers(v)
      BY LinkIsPair
    <2>2. AllExact /\ KnownWays
      BY <1>1 DEF MembersInv, Base
    <2>3. Joined(s, v) /\ Joined(v, s)
      BY <1>1, <2>1 DEF Joined
    <2>4. chan[s].member \subseteq User /\ chan[v].member \subseteq User
      <3>1. chan[s] \in FairChannel /\ chan[v] \in FairChannel
        BY <1>1 DEF Fair
      <3> QED BY <3>1 DEF FairChannel, Channel
    <2>5. ASSUME NEW u \in User PROVE u \in chan[s].member <=> u \in chan[v].member
      <3>1. CASE Way(u, s, v)
        BY <1>1, <2>2, <2>3, <3>1, RestAgrees
      <3>2. CASE Way(u, v, s)
        BY <1>1, <2>2, <2>3, <3>2, RestAgrees
      <3>3. CASE ~Way(u, s, v) /\ ~Way(u, v, s)
        BY <2>1, <2>2, <3>3, KnownThrough
      <3> QED BY <3>1, <3>2, <3>3
    <2> QED BY <2>1, <2>4, <2>5
  <1>2. Fair /\ MembersInv => MembersConverge
    BY <1>1 DEF MembersConverge
  <1> QED BY <1>2, FairAlways, MembersInvAlways, PTL

=============================================================================
