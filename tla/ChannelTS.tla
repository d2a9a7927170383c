----------------------------- MODULE ChannelTS -----------------------------
(***************************************************************************)
(* One channel on a network of servers: the handlers of JOIN, SJOIN, PART, *)
(* KICK, MODE, TMODE, BMASK, TOPIC and TBURST (src/modules), and what a    *)
(* split and the burst of server_estab do to the channel.                  *)
(*                                                                         *)
(* Every server keeps its own copy and relays what it accepts.  The copies *)
(* are kept together by the channel's timestamp: the side with the older   *)
(* one keeps its modes and its operators.  The users are on the network    *)
(* all along, except for the servers they are split from; who they are is  *)
(* NickTS's matter.  Owner, protected, operator and half-operator are one  *)
(* status, which the TS rules never tell apart; a voice is left out; the   *)
(* modes with a parameter, which merge by maximum, are left to the flags,  *)
(* which merge by union.                                                   *)
(***************************************************************************)
EXTENDS Naturals, Sequences, FiniteSets

CONSTANTS
    Server,
    Link,        \* the pairs <<s, t>> with a connect block, both directions
    Side,        \* Side[<<s, t>>]: the servers s reaches through t
    User,
    Home,        \* the server a user is on
    Clock,       \* Clock[s]: the times s may read on its clock
    Flag,        \* the flags an operator may set
    Topic,
    Change,      \* the mode changes operators make
    Budget       \* the bounds: each says how often each event may happen

Peers(s) == {t \in Server : <<s, t>> \in Link}

\* The links form a tree: what s reaches through t it reaches through no other, and t
\* does not reach it through s; nothing behind t has a link to elsewhere; a link behind
\* another one that leads away from it reaches less.
ASSUME ChannelNetworkAssumption ==
    /\ Link \subseteq Server \X Server
    /\ Side \in [Link -> SUBSET Server]
    /\ \A s \in Server : \A t \in Peers(s) :
         /\ <<t, s>> \in Link
         /\ t \in Side[<<s, t>>] /\ Side[<<s, t>>] \cap Side[<<t, s>>] = {}
         /\ \A x \in Side[<<s, t>>] \ {t} : Peers(x) \subseteq Side[<<s, t>>]
         /\ \A r \in Peers(s) \ {t} :
              /\ Side[<<s, t>>] \cap Side[<<s, r>>] = {}
              /\ Side[<<s, r>>] \cup {s} \subseteq Side[<<t, s>>]
    /\ \A l, k \in Link : k[2] \in Side[l] /\ l[1] \notin Side[k] => Side[k] \subseteq Side[l]

\* "nt": what a channel is created with; "0": an SJOIN that leaves its modes out.
Modes == Flag \cup {"nt"}

ModeChange ==
    [what : {"op", "deop", "ban", "unban"}, arg : User]
      \cup [what : {"flag", "unflag"}, arg : Flag]

ASSUME ChannelAssumption ==
    /\ Home \in [User -> Server]
    /\ Clock \in [Server -> SUBSET (Nat \ {0})]
    /\ "0" \notin Modes
    /\ "none" \notin Topic
    /\ Change \subseteq ModeChange

\* "long": more mode changes at once than fit on one line.
Event == {"join", "leave", "kick", "mode", "long", "topic", "break"}

ASSUME ChannelBoundAssumption == Budget \subseteq [Event -> Nat]

VARIABLES
    chan,     \* chan[s]: the channel in s's tables
    link,     \* link[<<s, t>>]: t at s: down, connecting, up (in serv_list)
    queue,    \* queue[<<s, t>>]: what s sent to t and t has not parsed
    left,     \* how often each kind of event may still happen
    past      \* history, what ever happened

\* "removed", "emptied": a copy lost members, all of them; "again": then it could be
\* joined; "mode", "kick", "topic": one was made while other lines, the end of a link or the
\* leave of a member crossed it; "long": a long mode change.
Past == {"removed", "emptied", "again", "kick", "mode", "long", "topic"}

vars == <<chan, link, queue, left, past>>

\* op[u]: 0, or the TS under which u was made operator: the code keeps a bit, the
\* TS is there for the properties.
Channel ==
    [ts : Nat, member : SUBSET User, op : [User -> Nat], deopped : SUBSET User,
     modes : SUBSET Modes, bans : SUBSET User, topic : Topic \cup {"none"},
     topictime : Nat]

NoOp == [u \in User |-> 0]

NoChannel ==
    [ts |-> 0, member |-> {}, op |-> NoOp, deopped |-> {}, modes |-> {},
     bans |-> {}, topic |-> "none", topictime |-> 0]

\* "given" is no part of the line: the TS its sender had when it opped somebody.
Message ==
    [type : {"SJOIN"}, ts : Nat, modes : (SUBSET Modes) \cup {{"0"}},
     nicks : SUBSET User, op : [User -> Nat]]
      \cup [type : {"JOIN"}, uid : User, ts : Nat]
      \cup [type : {"PART"}, uid : User]
      \cup [type : {"KICK"}, uid : User]
      \cup [type : {"TMODE"}, src : User, ts : Nat, change : ModeChange, given : Nat]
      \cup [type : {"MODE"}, src : User, change : ModeChange, given : Nat]
      \cup [type : {"BMASK"}, ts : Nat, bans : SUBSET User]
      \cup [type : {"TOPIC"}, src : User, topic : Topic \cup {"none"}]
      \cup [type : {"TBURST"}, ts : Nat, topic : Topic \cup {"none"}, time : Nat]
      \cup [type : {"SQUIT"}, server : Server]
      \cup [type : {"SERVER", "CLOSE"}]

TypeOK ==
    /\ chan \in [Server -> Channel]
    /\ link \in [Link -> {"down", "connecting", "up"}]
    /\ queue \in [Link -> Seq(Message)]
    /\ left \in [Event -> Nat]
    /\ past \subseteq Past

Init ==
    /\ chan = [s \in Server |-> NoChannel]
    /\ link = [l \in Link |-> "up"]
    /\ queue = [l \in Link |-> <<>>]
    /\ left \in Budget
    /\ past = {}

Spend(e) == left[e] > 0 /\ left' = [left EXCEPT ![e] = @ - 1]

-----------------------------------------------------------------------------
(* Messages.                                                               *)

\* sendto_server(one, ...): ms to every server of serv_list but those of one.
ToServers(s, one, ms) ==
    [t \in Peers(s) |-> IF t \notin one /\ link[<<s, t>>] = "up" THEN ms ELSE <<>>]

\* sendto_one(v, ...)
ToOne(s, v, ms) == [t \in Peers(s) |-> IF t = v THEN ms ELSE <<>>]

\* s appends out[t] to what it sends to t.
Send(s, out) ==
    queue' = [l \in Link |-> IF l[1] = s THEN queue[l] \o out[l[2]] ELSE queue[l]]

\* s has parsed the first line from v and sends out.
Answer(v, s, out) ==
    queue' = [l \in Link |-> IF l = <<v, s>> THEN Tail(queue[l])
                             ELSE IF l[1] = s THEN queue[l] \o out[l[2]]
                             ELSE queue[l]]

Relay(v, s, ms) == Answer(v, s, ToServers(s, {v}, ms))

Ignore(v, s) == Answer(v, s, ToServers(s, {}, <<>>))

-----------------------------------------------------------------------------
(* The channel at one server.                                              *)

Exists(c) == c.member # {}

Set(s, c) == chan' = [chan EXCEPT ![s] = c]

Without(f, X) == [u \in User |-> IF u \in X THEN 0 ELSE f[u]]

\* remove_user_from_channel for each of X, destroy_channel after the last member.
RemoveUsers(c, X) ==
    IF c.member \subseteq X
      THEN NoChannel
      ELSE [c EXCEPT !.member = @ \ X, !.deopped = @ \ X, !.op = Without(@, X)]

\* RemoveUsers, with the history of it.
Leave(s, X, why) ==
    /\ Set(s, RemoveUsers(chan[s], X))
    /\ past' = past \cup {e \in {"removed", "emptied"} :
                          /\ X \cap chan[s].member # {}
                          /\ e = "emptied" => chan[s].member \subseteq X}
                     \cup why

\* Mutant: remove_our_modes leaves the operators.
KeepsOps(c, ts, modes) == [c EXCEPT !.ts = ts, !.modes = modes]

\* remove_our_modes, and the modes of the older side instead of ours.
LoseModes(c, ts, modes) == [c EXCEPT !.ts = ts, !.op = NoOp, !.modes = modes]

\* Does a change change something?  Only then is it passed on.
Effective(c, x) ==
    CASE x.what = "op"     -> x.arg \in c.member /\ c.op[x.arg] = 0
      [] x.what = "deop"   -> x.arg \in c.member /\ c.op[x.arg] # 0
      [] x.what = "flag"   -> x.arg \notin c.modes
      [] x.what = "unflag" -> x.arg \in c.modes
      [] x.what = "ban"    -> x.arg \notin c.bans
      [] x.what = "unban"  -> TRUE

\* Mutant: +o does not clear the mark of a rejected operator.
StaysDeopped(c, x, given) ==
    IF x.what = "op" THEN [c EXCEPT !.op[x.arg] = given] ELSE [c EXCEPT !.op[x.arg] = 0]

\* chm_op and those of the other statuses
SetStatus(c, x, given) ==
    IF x.what = "op" THEN [c EXCEPT !.op[x.arg] = given, !.deopped = @ \ {x.arg}]
                     ELSE [c EXCEPT !.op[x.arg] = 0]

\* chm_simple
SetFlag(c, x) ==
    [c EXCEPT !.modes = IF x.what = "flag" THEN @ \cup {x.arg} ELSE @ \ {x.arg}]

\* chm_ban
SetBan(c, x) ==
    [c EXCEPT !.bans = IF x.what = "ban" THEN @ \cup {x.arg} ELSE @ \ {x.arg}]

\* set_channel_mode: one change.
SetMode(c, x, given) ==
    CASE x.what \in {"op", "deop"}     -> SetStatus(c, x, given)
      [] x.what \in {"flag", "unflag"} -> SetFlag(c, x)
      [] x.what \in {"ban", "unban"}   -> SetBan(c, x)

\* set_channel_topic: an empty topic leaves the time of the one before.
SetTopic(c, topic, time) ==
    IF topic = "none" THEN [c EXCEPT !.topic = "none"]
                      ELSE [c EXCEPT !.topic = topic, !.topictime = time]

-----------------------------------------------------------------------------
(* Local users.                                                            *)

TmodeMsg(u, ts, x, given) ==
    [type |-> "TMODE", src |-> u, ts |-> ts, change |-> x, given |-> given]
ModeMsg(u, x, given) == [type |-> "MODE", src |-> u, change |-> x, given |-> given]
SjoinMsg(ts, modes, nicks, op) ==
    [type |-> "SJOIN", ts |-> ts, modes |-> modes, nicks |-> nicks, op |-> op]

\* The kinds of change that cross what happens now.
InFlight(types) ==
    \E l \in Link : \E i \in 1..Len(queue[l]) : queue[l][i].type \in types

Crossed ==
    (IF InFlight({"TMODE", "MODE"}) THEN {"mode"} ELSE {})
      \cup (IF InFlight({"KICK"}) THEN {"kick"} ELSE {})

Made(e) == IF \A l \in Link : queue[l] = <<>> THEN {} ELSE {e}

Again == IF "removed" \in past THEN {"again"} ELSE {}

\* m_join of a channel nobody is on: whoever creates it is its operator.
Create(u, t) ==
    LET s == Home[u]
        op == [NoOp EXCEPT ![u] = t]
    IN /\ ~Exists(chan[s])
       /\ Spend("join") /\ past' = past \cup Again
       /\ Set(s, [NoChannel EXCEPT !.ts = t, !.member = {u}, !.op = op,
                                   !.modes = {"nt"}])
       /\ Send(s, ToServers(s, {}, <<SjoinMsg(t, {"nt"}, {u}, op)>>))
       /\ UNCHANGED link

\* m_join, can_join: the flags stand for those that keep users out.
Join(u) ==
    LET s == Home[u]
        c == chan[s]
    IN /\ Exists(c) /\ u \notin c.member
       /\ u \notin c.bans /\ c.modes \subseteq {"nt"}
       /\ Spend("join") /\ past' = past \cup Again
       /\ Set(s, [c EXCEPT !.member = @ \cup {u}])
       /\ Send(s, ToServers(s, {}, <<[type |-> "JOIN", uid |-> u, ts |-> c.ts]>>))
       /\ UNCHANGED link

\* m_part, part_one_client
Part(u) ==
    LET s == Home[u]
    IN /\ u \in chan[s].member
       /\ Spend("leave")
       /\ Leave(s, {u}, Crossed)
       /\ Send(s, ToServers(s, {}, <<[type |-> "PART", uid |-> u]>>))
       /\ UNCHANGED link

\* m_kick by a local operator.
Kick(o, u) ==
    LET s == Home[o]
    IN /\ chan[s].op[o] # 0 /\ u \in chan[s].member
       /\ Spend("kick")
       /\ Leave(s, {u}, Crossed \cup Made("kick"))
       /\ Send(s, ToServers(s, {}, <<[type |-> "KICK", uid |-> u]>>))
       /\ UNCHANGED link

\* m_mode of a local operator, send_cap_mode_changes: one line.
Mode(o, x) ==
    LET s == Home[o]
        c == chan[s]
    IN /\ c.op[o] # 0 /\ o \notin c.deopped
       /\ Effective(c, x)
       /\ Spend("mode") /\ past' = past \cup Made("mode")
       /\ Set(s, SetMode(c, x, c.ts))
       /\ Send(s, ToServers(s, {}, <<TmodeMsg(o, c.ts, x, c.ts)>>))
       /\ UNCHANGED link

\* m_mode with more changes than fit on one line: only the first line is a TMODE.
LongMode(o, x, y) ==
    LET s == Home[o]
        c == chan[s]
    IN /\ c.op[o] # 0 /\ o \notin c.deopped
       /\ Effective(c, x) /\ Effective(SetMode(c, x, c.ts), y)
       /\ Spend("long") /\ past' = past \cup {"long"}
       /\ Set(s, SetMode(SetMode(c, x, c.ts), y, c.ts))
       /\ Send(s, ToServers(s, {}, <<TmodeMsg(o, c.ts, x, c.ts), ModeMsg(o, y, c.ts)>>))
       /\ UNCHANGED link

\* m_topic: without +t anybody may, "nt" comes with every channel.
MayTopic(c, u) == u \in c.member /\ (c.op[u] # 0 \/ "nt" \notin c.modes)

LocalTopic(u, topic, t) ==
    LET s == Home[u]
    IN /\ MayTopic(chan[s], u)
       /\ Spend("topic") /\ past' = past \cup Made("topic")
       /\ Set(s, SetTopic(chan[s], topic, t))
       /\ Send(s, ToServers(s, {}, <<[type |-> "TOPIC", src |-> u, topic |-> topic]>>))
       /\ UNCHANGED link

-----------------------------------------------------------------------------
(* Lines from a neighbour v.                                               *)

Parses(s, v, types) ==
    /\ v \in Peers(s) /\ link[<<s, v>>] # "down" /\ queue[<<v, s>>] # <<>>
    /\ Head(queue[<<v, s>>]).type \in types

Line(v, s) == Head(queue[<<v, s>>])

\* The nicks of an SJOIN that come from the right direction.
Nicks(s, v, m) == {u \in m.nicks : Home[u] \in Side[<<s, v>>]}

\* add_user_to_channel of those who are not members yet; op: their status.
AddUsers(c, X, op) ==
    [c EXCEPT !.member = @ \cup X,
              !.op = [u \in User |-> IF u \in X \ c.member THEN op[u] ELSE @[u]]]

\* "0" in place of the modes says nothing about them.
Named(m) == m.modes \ {"0"}

Relayed(m, c) == IF "0" \in m.modes THEN {"0"} ELSE c.modes

\* With no nick in it the line loses its ":", and the next server drops it (parc < 5).
RelaySjoin(v, s, m) == IF m.nicks = {} THEN Ignore(v, s) ELSE Relay(v, s, <<m>>)

\* ms_sjoin of a channel with an older TS than ours, or that we do not have: its
\* modes and operators replace ours; our bans go after the line is relayed.
SjoinWins(s, v) ==
    /\ Parses(s, v, {"SJOIN"})
    /\ LET m == Line(v, s)
           c == chan[s]
           X == Nicks(s, v, m)
           won == [AddUsers(LoseModes(c, m.ts, Named(m)), X, m.op) EXCEPT !.bans = {}]
       IN /\ Exists(c) => m.ts < c.ts
          /\ IF Exists(won)
               THEN /\ Set(s, won)
                    /\ RelaySjoin(v, s, SjoinMsg(m.ts, Relayed(m, won), X, m.op))
               ELSE UNCHANGED chan /\ Ignore(v, s)
    /\ UNCHANGED <<link, left, past>>

\* Mutant: only our own modes stay.
SjoinMergesOurs(s, v) ==
    /\ Parses(s, v, {"SJOIN"})
    /\ LET m == Line(v, s)
           c == chan[s]
           X == Nicks(s, v, m)
           both == AddUsers(c, X, m.op)
       IN /\ Exists(c) /\ m.ts = c.ts
          /\ Set(s, both)
          /\ RelaySjoin(v, s, SjoinMsg(c.ts, Relayed(m, both), X, m.op))
    /\ UNCHANGED <<link, left, past>>

\* Of the same TS: the modes and operators of both sides stay.
SjoinMerges(s, v) ==
    /\ Parses(s, v, {"SJOIN"})
    /\ LET m == Line(v, s)
           c == chan[s]
           X == Nicks(s, v, m)
           both == AddUsers([c EXCEPT !.modes = @ \cup Named(m)], X, m.op)
       IN /\ Exists(c) /\ m.ts = c.ts
          /\ Set(s, both)
          /\ RelaySjoin(v, s, SjoinMsg(c.ts, Relayed(m, both), X, m.op))
    /\ UNCHANGED <<link, left, past>>

\* Of a newer TS: the users join without their status, and who had one is marked.
SjoinLoses(s, v) ==
    /\ Parses(s, v, {"SJOIN"})
    /\ LET m == Line(v, s)
           c == chan[s]
           X == Nicks(s, v, m)
           rejected == {u \in X \ c.member : m.op[u] # 0}
       IN /\ Exists(c) /\ m.ts > c.ts
          /\ Set(s, [AddUsers(c, X, NoOp) EXCEPT !.deopped = @ \cup rejected])
          /\ RelaySjoin(v, s, SjoinMsg(c.ts, {"0"}, X, NoOp))
    /\ UNCHANGED <<link, left, past>>

\* ms_join: the same rules with no modes and no status; bans are left alone.
MsJoin(s, v) ==
    /\ Parses(s, v, {"JOIN"})
    /\ LET m == Line(v, s)
           c == chan[s]
           kept == IF Exists(c) /\ m.ts >= c.ts THEN c ELSE LoseModes(c, m.ts, {})
       IN /\ Set(s, AddUsers(kept, {m.uid}, NoOp))
          /\ Relay(v, s, <<[m EXCEPT !.ts = kept.ts]>>)
    /\ UNCHANGED <<link, left, past>>

\* Mutant: it is not passed on.
MsLeaveUnsaid(s, v) ==
    /\ Parses(s, v, {"PART", "KICK"})
    /\ Leave(s, {Line(v, s).uid}, {})
    /\ Ignore(v, s)
    /\ UNCHANGED <<link, left>>

\* m_part, and m_kick: from another server nobody asks for the kicker's status.
MsLeave(s, v) ==
    /\ Parses(s, v, {"PART", "KICK"})
    /\ LET m == Line(v, s)
       IN IF m.uid \in chan[s].member
            THEN /\ Leave(s, {m.uid}, {})
                 /\ Relay(v, s, <<m>>)
            ELSE UNCHANGED <<chan, past>> /\ Ignore(v, s)
    /\ UNCHANGED <<link, left>>

\* ms_tmode: the TS of the channel there may not be newer than ours.  m_mode, for
\* MODE, does not ask.
Accepts(c, m) ==
    /\ Exists(c) /\ m.src \notin c.deopped
    /\ m.type = "TMODE" => m.ts <= c.ts

\* ms_tmode and m_mode of a user of another server.
MsMode(s, v) ==
    /\ Parses(s, v, {"TMODE", "MODE"})
    /\ LET m == Line(v, s)
           c == chan[s]
       IN IF Accepts(c, m) /\ Effective(c, m.change)
            THEN /\ Set(s, SetMode(c, m.change, m.given))
                 /\ Relay(v, s, <<TmodeMsg(m.src, c.ts, m.change, m.given)>>)
            ELSE UNCHANGED chan /\ Ignore(v, s)
    /\ UNCHANGED <<link, left, past>>

\* ms_bmask
MsBmask(s, v) ==
    /\ Parses(s, v, {"BMASK"})
    /\ LET m == Line(v, s)
           c == chan[s]
       IN IF Exists(c) /\ m.ts <= c.ts
            THEN /\ Set(s, [c EXCEPT !.bans = @ \cup m.bans])
                 /\ Relay(v, s, <<[m EXCEPT !.ts = c.ts]>>)
            ELSE UNCHANGED chan /\ Ignore(v, s)
    /\ UNCHANGED <<link, left, past>>

\* ms_topic, m_topic: at the time of this server's clock.
MsTopic(s, v) ==
    /\ Parses(s, v, {"TOPIC"})
    /\ LET m == Line(v, s)
       IN IF MayTopic(chan[s], m.src)
            THEN /\ \E t \in Clock[s] : Set(s, SetTopic(chan[s], m.topic, t))
                 /\ Relay(v, s, <<m>>)
            ELSE UNCHANGED chan /\ Ignore(v, s)
    /\ UNCHANGED <<link, left, past>>

\* ms_tburst: an older channel's topic, or a newer one; always passed on.
MsTburst(s, v) ==
    /\ Parses(s, v, {"TBURST"})
    /\ LET m == Line(v, s)
           c == chan[s]
           accept == m.ts < c.ts \/ (m.ts = c.ts /\ m.time > c.topictime)
       IN IF Exists(c)
            THEN /\ Set(s, IF accept THEN SetTopic(c, m.topic, m.time) ELSE c)
                 /\ Relay(v, s, <<m>>)
            ELSE UNCHANGED chan /\ Ignore(v, s)
    /\ UNCHANGED <<link, left, past>>

-----------------------------------------------------------------------------
(* Links.                                                                  *)

\* Whom s knows through x: recurse_remove_clients.
Beyond(s, x) ==
    {u \in User : Home[u] \in UNION {Side[l] : l \in {k \in Link : k[2] = x /\ s \notin Side[k]}}}

\* burst_all: send_members, send_mode_list, send_tb.
Burst(s) ==
    LET c == chan[s]
    IN IF Exists(c)
         THEN <<SjoinMsg(c.ts, c.modes, c.member, c.op)>>
                \o (IF c.bans = {} THEN <<>>
                    ELSE <<[type |-> "BMASK", ts |-> c.ts, bans |-> c.bans]>>)
                \o (IF c.topictime = 0 THEN <<>>
                    ELSE <<[type |-> "TBURST", ts |-> c.ts, topic |-> c.topic,
                            time |-> c.topictime]>>)
         ELSE <<>>

\* s connects to v, which accepts it: mr_server and server_estab at v.
Connect(s, v) ==
    /\ <<s, v>> \in Link
    /\ link[<<s, v>>] = "down" /\ link[<<v, s>>] = "down"
    /\ queue[<<s, v>>] = <<>> /\ queue[<<v, s>>] = <<>>
    /\ link' = [link EXCEPT ![<<s, v>>] = "connecting", ![<<v, s>>] = "up"]
    /\ queue' = [queue EXCEPT ![<<v, s>>] = <<[type |-> "SERVER"]>> \o Burst(v)]
    /\ past' = past \cup {"again"}
    /\ UNCHANGED <<chan, left>>

\* The SERVER line of v: server_estab at s, the side that connected.
ServerEstab(s, v) ==
    /\ Parses(s, v, {"SERVER"})
    /\ link' = [link EXCEPT ![<<s, v>>] = "up"]
    /\ Answer(v, s, ToOne(s, v, Burst(s)))
    /\ UNCHANGED <<chan, left, past>>

\* exit_client of the neighbour v: the stream from v is not read any more, the
\* one to v ends after what was on its way, or earlier.
DropLink(s, v, toV, why) ==
    /\ link' = [link EXCEPT ![<<s, v>>] = "down"]
    /\ queue' = [l \in Link |->
         IF l = <<v, s>> THEN <<>>
         ELSE IF l = <<s, v>> THEN toV
         ELSE IF l[1] = s /\ link[l] = "up" /\ link[<<s, v>>] = "up"
              THEN Append(queue[l], [type |-> "SQUIT", server |-> v])
         ELSE queue[l]]
    /\ Leave(s, Beyond(s, v), why)

\* A ping timeout, a write error, SQUIT of a neighbour, SendQ exceeded...
Break(s, v) ==
    /\ <<s, v>> \in Link /\ link[<<s, v>>] # "down"
    /\ Spend("break")
    /\ \/ /\ link[<<v, s>>] = "down"
          /\ DropLink(s, v, <<>>, Crossed)
       \/ /\ link[<<v, s>>] # "down"
          /\ \E k \in 0..Len(queue[<<s, v>>]) :
               DropLink(s, v, Append(SubSeq(queue[<<s, v>>], 1, k), [type |-> "CLOSE"]),
                        Crossed)

\* The end of the stream from v: read_packet, dead_link_on_read.
ReadClose(s, v) ==
    /\ Parses(s, v, {"CLOSE"})
    /\ DropLink(s, v, <<>>, {})
    /\ UNCHANGED left

\* exit_client of a server behind v: its users go, SQUIT to the rest.
MsSquit(s, v) ==
    /\ Parses(s, v, {"SQUIT"})
    /\ LET x == Line(v, s).server
       IN /\ Leave(s, Beyond(s, x), {})
          /\ Relay(v, s, <<Line(v, s)>>)
    /\ UNCHANGED <<link, left>>

-----------------------------------------------------------------------------
Local ==
    \/ \E u \in User : \/ \E t \in Clock[Home[u]] : Create(u, t)
                       \/ Join(u) \/ Part(u)
    \/ \E o, u \in User : Kick(o, u)
    \/ \E o \in User, x \in Change : Mode(o, x) \/ \E y \in Change : LongMode(o, x, y)
    \/ \E u \in User, topic \in Topic \cup {"none"} :
         \E t \in Clock[Home[u]] : LocalTopic(u, topic, t)

Receive(s, v) ==
    \/ SjoinWins(s, v) \/ SjoinMerges(s, v) \/ SjoinLoses(s, v)
    \/ MsJoin(s, v) \/ MsLeave(s, v) \/ MsMode(s, v) \/ MsBmask(s, v)
    \/ MsTopic(s, v) \/ MsTburst(s, v)
    \/ ServerEstab(s, v) \/ ReadClose(s, v) \/ MsSquit(s, v)

Next ==
    \/ Local
    \/ \E s \in Server, v \in Server : Receive(s, v) \/ Connect(s, v) \/ Break(s, v)

Spec == Init /\ [][Next]_vars

-----------------------------------------------------------------------------
\* Nobody is an operator under a TS newer than the channel's: whoever was opped
\* on the side that lost is none, whatever was on its way (ms_sjoin, ms_tmode).
OpsOfThisTS ==
    \A s \in Server : \A u \in User : chan[s].op[u] <= chan[s].ts

Quiet == \A l \in Link : queue[l] = <<>>

Joined(s, v) == link[<<s, v>>] = "up" /\ link[<<v, s>>] = "up"

Ops(c) == {u \in User : c.op[u] # 0}

\* At rest neighbours agree who is on the channel, whoever parted, was split off or
\* joined the copy the others had already destroyed (ms_join, remove_user_from_channel).
MembersConverge ==
    Quiet /\ ~({"kick", "again"} \subseteq past) =>
      \A l \in Link : Joined(l[1], l[2]) => chan[l[1]].member = chan[l[2]].member

\* ... and on its TS, operators, modes and bans, unless a copy died while another
\* lived on (ms_sjoin, ms_bmask).
StatusAgrees ==
    Quiet => \A l \in Link : Joined(l[1], l[2]) =>
      LET c == chan[l[1]]
          d == chan[l[2]]
      IN /\ c.ts = d.ts /\ Ops(c) = Ops(d)
         /\ c.modes = d.modes /\ c.bans = d.bans

Plain ==
    /\ {"long", "emptied"} \cap past = {}
    /\ "again" \in past => {"kick", "mode"} \cap past = {}

StatusConverges == Plain => StatusAgrees

\* At rest neighbours agree on the topic, if nobody changed it while lines were on
\* their way: what was set or cleared on one side of a split is newer, and the burst
\* brings it to the other (server_estab, send_tb, ms_tburst).
TopicsConverge ==
    Quiet /\ {"topic", "emptied"} \cap past = {} =>
      \A l \in Link : Joined(l[1], l[2]) => chan[l[1]].topic = chan[l[2]].topic

\* At rest no operator is marked elsewhere as one that was rejected: that server
\* would ignore all its modes (ms_sjoin, m_mode).
NoOperatorIgnored ==
    Quiet /\ Plain => \A s \in Server, v \in Server : \A u \in User :
      u \in chan[s].deopped /\ Home[u] = v => chan[v].op[u] = 0
=============================================================================
