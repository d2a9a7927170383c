------------------------------- MODULE NickTS -------------------------------
(***************************************************************************)
(* Who owns a nick on a network of servers: the handlers of UID, NICK,     *)
(* QUIT, KILL and SQUIT (src/modules/core), the prefix check of parse.c    *)
(* that runs before each, and the burst of server_estab.                   *)
(*                                                                         *)
(* Every server keeps its own client tables and relays what it accepts to  *)
(* its other neighbours; a link is a pair of TCP streams, so messages of   *)
(* one link arrive in order, and everything else in any order.  A client   *)
(* is named by its UID, which holds the SID of its server.  All servers    *)
(* speak TS6, without lazy links and without servers hidden by a fakename; *)
(* SID introductions precede every UID of that server in the same stream   *)
(* and are left to the burst.                                              *)
(***************************************************************************)
EXTENDS Naturals, Sequences, FiniteSets, Functions

CONSTANTS
    Server,
    Link,        \* the pairs <<s, t>> with a connect block, both directions
    Side,        \* Side[<<s, t>>]: the servers s reaches through t
    Uid,
    Home,        \* the server a UID belongs to
    Host,        \* user@host of a client
    Oper,        \* the clients that may KILL
    Clock,       \* the times at which a client may take a nick
    Nick,
    NULL,
    MaxChanges, MaxQuits, MaxKills, MaxBreaks   \* bounds: how often each happens

Peers(s) == {t \in Server : <<s, t>> \in Link}

\* The links form a tree: what s reaches through t it reaches through no other,
\* and nothing behind t has a link to elsewhere.
ASSUME NetworkAssumption ==
    /\ Link \subseteq Server \X Server
    /\ Side \in [Link -> SUBSET Server]
    /\ \A s \in Server : \A t \in Peers(s) :
         /\ <<t, s>> \in Link
         /\ t \in Side[<<s, t>>] /\ s \notin Side[<<s, t>>]
         /\ \A x \in Side[<<s, t>>] \ {t} : Peers(x) \subseteq Side[<<s, t>>]
         /\ \A r \in Peers(s) \ {t} :
              /\ Side[<<s, t>>] \cap Side[<<s, r>>] = {}
              /\ Side[<<s, r>>] \cup {s} \subseteq Side[<<t, s>>]

ASSUME ClientAssumption ==
    /\ IsFiniteSet(Uid)
    /\ NULL \notin Uid
    /\ Home \in [Uid -> Server]
    /\ Oper \subseteq Uid
    /\ Clock \in [Uid -> SUBSET (Nat \ {0})]
    /\ NULL \notin Nick

ASSUME BoundAssumption ==
    /\ MaxChanges \in Nat /\ MaxQuits \in Nat
    /\ MaxKills \in Nat /\ MaxBreaks \in Nat

VARIABLES
    nick,          \* nick[s][u]: name of u in s's tables, NULL if not there
    tsinfo,        \* tsinfo[s][u]: its TS, 0 if not there
    unregistered,  \* local clients with a nick and no user yet: IsUnknown
    used,          \* the UIDs handed out
    link,          \* link[<<s, t>>]: t at s: down, connecting, up (in serv_list)
    queue,         \* queue[<<s, t>>]: what s sent to t and t has not parsed
    left           \* how often each kind of event may still happen

tables == <<nick, tsinfo, unregistered>>
vars == <<nick, tsinfo, unregistered, used, link, queue, left>>

Message ==
    [type : {"UID", "NICK"}, uid : Uid, nick : Nick, ts : Nat]
      \cup [type : {"QUIT"}, uid : Uid]
      \cup [type : {"KILL"}, uid : Uid, src : Uid \cup {NULL}]
      \cup [type : {"SQUIT"}, server : Server]
      \cup [type : {"SERVER", "CLOSE"}]

Event == {"change", "quit", "kill", "break"}

TypeOK ==
    /\ nick \in [Server -> [Uid -> Nick \cup {NULL}]]
    /\ tsinfo \in [Server -> [Uid -> Nat]]
    /\ unregistered \subseteq Uid
    /\ used \subseteq Uid
    /\ link \in [Link -> {"down", "connecting", "up"}]
    /\ queue \in [Link -> Seq(Message)]
    /\ left \in [Event -> Nat]

Init ==
    /\ nick = [s \in Server |-> [u \in Uid |-> NULL]]
    /\ tsinfo = [s \in Server |-> [u \in Uid |-> 0]]
    /\ unregistered = {} /\ used = {}
    /\ link = [l \in Link |-> "up"]
    /\ queue = [l \in Link |-> <<>>]
    /\ left = [change |-> MaxChanges, quit |-> MaxQuits,
               kill |-> MaxKills, break |-> MaxBreaks]

Spend(e) == left[e] > 0 /\ left' = [left EXCEPT ![e] = @ - 1]

-----------------------------------------------------------------------------
(* Messages.                                                               *)

UidMsg(u, n, t) == [type |-> "UID", uid |-> u, nick |-> n, ts |-> t]
NickMsg(u, n, t) == [type |-> "NICK", uid |-> u, nick |-> n, ts |-> t]
QuitMsg(u) == [type |-> "QUIT", uid |-> u]
KillMsg(u) == [type |-> "KILL", uid |-> u, src |-> NULL]
KillBy(o, u) == [type |-> "KILL", uid |-> u, src |-> o]
SquitMsg(x) == [type |-> "SQUIT", server |-> x]
ServerMsg == [type |-> "SERVER"]
CloseMsg == [type |-> "CLOSE"]

\* sendto_server(one, ...): ms to every server of serv_list but those of one.
ToServers(s, one, ms) ==
    [t \in Peers(s) |-> IF t \notin one /\ link[<<s, t>>] = "up" THEN ms ELSE <<>>]

\* sendto_one(v, ...)
ToOne(s, v, ms) == [t \in Peers(s) |-> IF t = v THEN ms ELSE <<>>]

Both(out1, out2) == [t \in DOMAIN out1 |-> out1[t] \o out2[t]]

\* s appends out[t] to what it sends to t.
Send(s, out) ==
    queue' = [l \in Link |-> IF l[1] = s THEN queue[l] \o out[l[2]] ELSE queue[l]]

\* s has parsed the first line from v and sends out.
Answer(v, s, out) ==
    queue' = [l \in Link |-> IF l = <<v, s>> THEN Tail(queue[l])
                             ELSE IF l[1] = s THEN queue[l] \o out[l[2]]
                             ELSE queue[l]]

-----------------------------------------------------------------------------
(* The tables of one server.                                               *)

Known(s, u) == nick[s][u] # NULL

\* Whom find_person finds: registered clients only.
Persons(s) == {u \in Uid : Known(s, u) /\ u \notin unregistered}

\* find_client by name.
Holders(s, n) == {u \in Uid : nick[s][u] = n}

\* The clients X leave s's tables and those of Y enter or change.
Update(s, X, Y, n, t) ==
    /\ nick' = [nick EXCEPT ![s] =
         [u \in Uid |-> IF u \in Y THEN n ELSE IF u \in X THEN NULL ELSE nick[s][u]]]
    /\ tsinfo' = [tsinfo EXCEPT ![s] =
         [u \in Uid |-> IF u \in Y THEN t ELSE IF u \in X THEN 0 ELSE tsinfo[s][u]]]
    /\ unregistered' = unregistered \ (X \ Y)

ExitClients(s, X) == Update(s, X, {}, NULL, 0)

\* Everything s knows of servers it reaches through x: recurse_remove_clients.
Beyond(s, x) == UNION {Side[l] : l \in {k \in Link : k[2] = x /\ s \notin Side[k]}}

\* Mutant: only the clients of x go, not those of the servers behind it.
DependentsOfOne(s, x) == {u \in Uid : Known(s, u) /\ Home[u] = x}

Dependents(s, x) == {u \in Uid : Known(s, u) /\ Home[u] \in Beyond(s, x)}

-----------------------------------------------------------------------------
(* Collisions: perform_nick_collides.                                      *)

SameTS(t1, t2) == t1 = 0 \/ t2 = 0 \/ t1 = t2

\* Mutant: the older connection of one user wins as well.
LosesNewer(s, u, ts, target) == ts > tsinfo[s][target]

\* Of two users with different TS the older keeps the nick; of two
\* connections of one user the newer does.  Does u, at ts, lose against target?
Loses(s, u, ts, target) ==
    IF Host[u] = Host[target] THEN ts < tsinfo[s][target]
                              ELSE ts > tsinfo[s][target]

\* The one client that has the nick, when it is not u.
Contested(s, u, n) == {target \in Holders(s, n) \ {u} : target \notin unregistered}

-----------------------------------------------------------------------------
(* Local clients.                                                          *)

\* NICK of a connection that is not registered yet: mr_nick, set_initial_nick.
MrNick(u, n, t) ==
    LET s == Home[u] IN
    /\ u \in (Uid \ used) \cup unregistered
    /\ Holders(s, n) = {}
    /\ nick' = [nick EXCEPT ![s][u] = n]
    /\ tsinfo' = [tsinfo EXCEPT ![s][u] = t]
    /\ unregistered' = unregistered \cup {u}
    /\ used' = used \cup {u}
    /\ UNCHANGED <<link, queue, left>>

\* USER completes the registration: register_local_user, introduce_client.
RegisterLocalUser(u) ==
    LET s == Home[u] IN
    /\ u \in unregistered
    /\ unregistered' = unregistered \ {u}
    /\ Send(s, ToServers(s, {}, <<UidMsg(u, nick[s][u], tsinfo[s][u])>>))
    /\ UNCHANGED <<nick, tsinfo, used, link, left>>

\* m_nick and change_local_nick; whoever only reserved the nick is overridden.
ChangeLocalNick(u, n, t) ==
    LET s == Home[u] IN
    /\ u \in Persons(s) /\ nick[s][u] # n
    /\ Contested(s, u, n) = {}
    /\ Spend("change")
    /\ Update(s, Holders(s, n), {u}, n, t)
    /\ Send(s, ToServers(s, {}, <<NickMsg(u, n, t)>>))
    /\ UNCHANGED <<used, link>>

\* exit_client of a local client: QUIT, a read error, a ping timeout...
ExitLocal(u) ==
    LET s == Home[u] IN
    /\ ExitClients(s, {u})
    /\ Send(s, ToServers(s, {}, IF u \in unregistered THEN <<>> ELSE <<QuitMsg(u)>>))

Quit(u) ==
    /\ Known(Home[u], u)
    /\ Spend("quit")
    /\ ExitLocal(u)
    /\ UNCHANGED <<used, link>>

\* KILL by a local operator.  Only a remote victim is KILLed on the network;
\* a local one QUITs.
MoKill(o, u) ==
    LET s == Home[o] IN
    /\ o \in Oper /\ o \in Persons(s)
    /\ Known(s, u)
    /\ Spend("kill")
    /\ \/ /\ Home[u] = s
          /\ ExitLocal(u)
       \/ /\ Home[u] # s
          /\ ExitClients(s, {u})
          /\ Send(s, ToServers(s, {}, <<KillBy(o, u)>>))
    /\ UNCHANGED <<used, link>>

-----------------------------------------------------------------------------
(* Lines from a neighbour v.                                               *)

Parses(s, v, types) ==
    /\ v \in Peers(s) /\ link[<<s, v>>] # "down" /\ queue[<<v, s>>] # <<>>
    /\ Head(queue[<<v, s>>]).type \in types

Line(v, s) == Head(queue[<<v, s>>])

\* parse: a prefix nobody has is a ghost of v's, remove_unknown has v kill it.
UnknownPrefix(s, v) ==
    /\ Parses(s, v, {"NICK", "QUIT", "KILL"})
    /\ LET m == Line(v, s)
           sender == IF m.type = "KILL" THEN m.src ELSE m.uid
       IN /\ sender \in Uid \ Persons(s)
          /\ Answer(v, s, ToOne(s, v, <<KillMsg(sender)>>))
    /\ UNCHANGED <<tables, used, link, left>>

\* ms_uid, client_from_server: nobody registered has the nick.  That somebody has
\* the UID, ms_uid's first branch, never happens: NoIdCollision.
UidAccepted(s, v) ==
    /\ Parses(s, v, {"UID"})
    /\ LET m == Line(v, s)
       IN /\ Contested(s, m.uid, m.nick) = {}
          /\ Update(s, Holders(s, m.nick), {m.uid}, m.nick, m.ts)
          /\ Answer(v, s, ToServers(s, {v}, <<m>>))
    /\ UNCHANGED <<used, link, left>>

\* Equal TS: nobody keeps the nick.
UidBothKilled(s, v) ==
    /\ Parses(s, v, {"UID"})
    /\ LET m == Line(v, s)
       IN /\ \E target \in Contested(s, m.uid, m.nick) :
               /\ SameTS(m.ts, tsinfo[s][target])
               /\ ExitClients(s, {target})
               /\ Answer(v, s, Both(ToOne(s, v, <<KillMsg(m.uid)>>),
                                    ToServers(s, {}, <<KillMsg(target)>>)))
    /\ UNCHANGED <<used, link, left>>

\* The new client loses: it is ignored and killed back.
UidRefused(s, v) ==
    /\ Parses(s, v, {"UID"})
    /\ LET m == Line(v, s)
       IN /\ \E target \in Contested(s, m.uid, m.nick) :
               /\ ~SameTS(m.ts, tsinfo[s][target])
               /\ Loses(s, m.uid, m.ts, target)
               /\ Answer(v, s, ToOne(s, v, <<KillMsg(m.uid)>>))
    /\ UNCHANGED <<tables, used, link, left>>

\* Mutant: the loser keeps its nick here.
UidWinsOverNobody(s, v) ==
    /\ Parses(s, v, {"UID"})
    /\ LET m == Line(v, s)
       IN /\ \E target \in Contested(s, m.uid, m.nick) :
               /\ ~SameTS(m.ts, tsinfo[s][target])
               /\ ~Loses(s, m.uid, m.ts, target)
               /\ Update(s, {}, {m.uid}, m.nick, m.ts)
               /\ Answer(v, s, ToServers(s, {v}, <<KillMsg(target), m>>))
    /\ UNCHANGED <<used, link, left>>

\* Mutant: the winner is not introduced to the other servers.
UidWinsUnrelayed(s, v) ==
    /\ Parses(s, v, {"UID"})
    /\ LET m == Line(v, s)
       IN /\ \E target \in Contested(s, m.uid, m.nick) :
               /\ ~SameTS(m.ts, tsinfo[s][target])
               /\ ~Loses(s, m.uid, m.ts, target)
               /\ Update(s, {target}, {m.uid}, m.nick, m.ts)
               /\ Answer(v, s, ToServers(s, {v}, <<KillMsg(target)>>))
    /\ UNCHANGED <<used, link, left>>

\* The new client wins: the other is killed for everybody but v, which is left
\* to find out by itself.
UidWins(s, v) ==
    /\ Parses(s, v, {"UID"})
    /\ LET m == Line(v, s)
       IN /\ \E target \in Contested(s, m.uid, m.nick) :
               /\ ~SameTS(m.ts, tsinfo[s][target])
               /\ ~Loses(s, m.uid, m.ts, target)
               /\ Update(s, {target}, {m.uid}, m.nick, m.ts)
               /\ Answer(v, s, ToServers(s, {v}, <<KillMsg(target), m>>))
    /\ UNCHANGED <<used, link, left>>

\* ms_nick, nick_from_server: nobody registered has the new nick.  (A NICK to the
\* nick its sender has is dropped; no server sends one.)
NickAccepted(s, v) ==
    /\ Parses(s, v, {"NICK"})
    /\ LET m == Line(v, s)
       IN /\ m.uid \in Persons(s)
          /\ Contested(s, m.uid, m.nick) = {}
          /\ Update(s, Holders(s, m.nick), {m.uid}, m.nick, m.ts)
          /\ Answer(v, s, ToServers(s, {v}, <<m>>))
    /\ UNCHANGED <<used, link, left>>

\* Equal TS: neither the one that changes nor the one that is there keeps it.
NickBothKilled(s, v) ==
    /\ Parses(s, v, {"NICK"})
    /\ LET m == Line(v, s)
       IN /\ m.uid \in Persons(s)
          /\ \E target \in Contested(s, m.uid, m.nick) :
               /\ SameTS(m.ts, tsinfo[s][target])
               /\ ExitClients(s, {m.uid, target})
               /\ Answer(v, s, ToServers(s, {}, <<KillMsg(m.uid), KillMsg(target)>>))
    /\ UNCHANGED <<used, link, left>>

\* The changing client loses: killed for everybody but v.
NickRefused(s, v) ==
    /\ Parses(s, v, {"NICK"})
    /\ LET m == Line(v, s)
       IN /\ m.uid \in Persons(s)
          /\ \E target \in Contested(s, m.uid, m.nick) :
               /\ ~SameTS(m.ts, tsinfo[s][target])
               /\ Loses(s, m.uid, m.ts, target)
               /\ ExitClients(s, {m.uid})
               /\ Answer(v, s, ToServers(s, {v}, <<KillMsg(m.uid)>>))
    /\ UNCHANGED <<used, link, left>>

NickWins(s, v) ==
    /\ Parses(s, v, {"NICK"})
    /\ LET m == Line(v, s)
       IN /\ m.uid \in Persons(s)
          /\ \E target \in Contested(s, m.uid, m.nick) :
               /\ ~SameTS(m.ts, tsinfo[s][target])
               /\ ~Loses(s, m.uid, m.ts, target)
               /\ Update(s, {target}, {m.uid}, m.nick, m.ts)
               /\ Answer(v, s, ToServers(s, {v}, <<KillMsg(target), m>>))
    /\ UNCHANGED <<used, link, left>>

\* ms_quit
MsQuit(s, v) ==
    /\ Parses(s, v, {"QUIT"})
    /\ LET m == Line(v, s)
       IN /\ m.uid \in Persons(s)
          /\ ExitClients(s, {m.uid})
          /\ Answer(v, s, ToServers(s, {v}, <<m>>))
    /\ UNCHANGED <<used, link, left>>

\* Mutant: a KILL for nobody is sent back.
MsKillReturns(s, v) ==
    /\ Parses(s, v, {"KILL"})
    /\ LET m == Line(v, s)
       IN /\ m.src \in Persons(s) \cup {NULL}
          /\ \/ /\ m.uid \in Persons(s)
                /\ ExitClients(s, {m.uid})
                /\ Answer(v, s, ToServers(s, {v}, <<m>>))
             \/ /\ m.uid \notin Persons(s)
                /\ UNCHANGED tables
                /\ Answer(v, s, ToOne(s, v, <<m>>))
    /\ UNCHANGED <<used, link, left>>

\* ms_kill: a UID nobody has is not chased.
MsKill(s, v) ==
    /\ Parses(s, v, {"KILL"})
    /\ LET m == Line(v, s)
       IN /\ m.src \in Persons(s) \cup {NULL}
          /\ \/ /\ m.uid \in Persons(s)
                /\ ExitClients(s, {m.uid})
                /\ Answer(v, s, ToServers(s, {v}, <<m>>))
             \/ /\ m.uid \notin Persons(s)
                /\ UNCHANGED tables
                /\ Answer(v, s, ToServers(s, {}, <<>>))
    /\ UNCHANGED <<used, link, left>>

-----------------------------------------------------------------------------
(* Links.                                                                  *)

\* exit_client of a remote server: what depends on it goes, SQUIT to the rest.
MsSquit(s, v) ==
    /\ Parses(s, v, {"SQUIT"})
    /\ LET x == Line(v, s).server
       IN /\ ExitClients(s, Dependents(s, x))
          /\ Answer(v, s, ToServers(s, {v}, <<SquitMsg(x)>>))
    /\ UNCHANGED <<used, link, left>>

\* Mutant: only the local users are burst.
BurstsLocal(s, v) ==
    LET X == {u \in Persons(s) : Home[u] = s}
    IN {[i \in DOMAIN f |-> UidMsg(f[i], nick[s][f[i]], tsinfo[s][f[i]])] :
          f \in Bijection(1..Cardinality(X), X)}

\* burst_all: everybody s does not know through v, in the order of its lists.
Bursts(s, v) ==
    LET X == {u \in Persons(s) : Home[u] \notin Side[<<s, v>>]}
    IN {[i \in DOMAIN f |-> UidMsg(f[i], nick[s][f[i]], tsinfo[s][f[i]])] :
          f \in Bijection(1..Cardinality(X), X)}

\* s connects to v, which accepts it: mr_server and server_estab at v.
Connect(s, v) ==
    /\ <<s, v>> \in Link
    /\ link[<<s, v>>] = "down" /\ link[<<v, s>>] = "down"
    /\ queue[<<s, v>>] = <<>> /\ queue[<<v, s>>] = <<>>
    /\ link' = [link EXCEPT ![<<s, v>>] = "connecting", ![<<v, s>>] = "up"]
    /\ \E burst \in Bursts(v, s) :
         queue' = [queue EXCEPT ![<<v, s>>] = <<ServerMsg>> \o burst]
    /\ UNCHANGED <<tables, used, left>>

\* The SERVER line of v: server_estab at s, the side that connected.
ServerEstab(s, v) ==
    /\ Parses(s, v, {"SERVER"})
    /\ link' = [link EXCEPT ![<<s, v>>] = "up"]
    /\ \E burst \in Bursts(s, v) : Answer(v, s, ToOne(s, v, burst))
    /\ UNCHANGED <<tables, used, left>>

\* exit_client of the neighbour v: the stream from v is not read any more, the
\* one to v ends after what was on its way, or earlier.
DropLink(s, v, toV) ==
    /\ link' = [link EXCEPT ![<<s, v>>] = "down"]
    /\ queue' = [l \in Link |->
         IF l = <<v, s>> THEN <<>>
         ELSE IF l = <<s, v>> THEN toV
         ELSE IF l[1] = s /\ link[l] = "up" /\ link[<<s, v>>] = "up"
              THEN Append(queue[l], SquitMsg(v))
         ELSE queue[l]]
    /\ ExitClients(s, IF link[<<s, v>>] = "up" THEN Dependents(s, v) ELSE {})

\* A ping timeout, a write error, SQUIT of a neighbour, SendQ exceeded...
Break(s, v) ==
    /\ <<s, v>> \in Link /\ link[<<s, v>>] # "down"
    /\ Spend("break")
    /\ \/ /\ link[<<v, s>>] = "down"
          /\ DropLink(s, v, <<>>)
       \/ /\ link[<<v, s>>] # "down"
          /\ \E k \in 0..Len(queue[<<s, v>>]) :
               DropLink(s, v, Append(SubSeq(queue[<<s, v>>], 1, k), CloseMsg))
    /\ UNCHANGED used

\* The end of the stream from v: read_packet, dead_link_on_read.
ReadClose(s, v) ==
    /\ Parses(s, v, {"CLOSE"})
    /\ DropLink(s, v, <<>>)
    /\ UNCHANGED <<used, left>>

-----------------------------------------------------------------------------
Local ==
    \/ \E u \in Uid, n \in Nick :
         \E t \in Clock[u] : MrNick(u, n, t) \/ ChangeLocalNick(u, n, t)
    \/ \E u \in Uid : RegisterLocalUser(u) \/ Quit(u)
    \/ \E o \in Uid, u \in Uid : MoKill(o, u)

Receive(s, v) ==
    \/ UnknownPrefix(s, v)
    \/ UidAccepted(s, v) \/ UidBothKilled(s, v)
    \/ UidRefused(s, v) \/ UidWins(s, v)
    \/ NickAccepted(s, v) \/ NickBothKilled(s, v) \/ NickRefused(s, v) \/ NickWins(s, v)
    \/ MsQuit(s, v) \/ MsKill(s, v) \/ MsSquit(s, v)
    \/ ServerEstab(s, v) \/ ReadClose(s, v)

Next ==
    \/ Local
    \/ \E s \in Server, v \in Server : Receive(s, v) \/ Connect(s, v) \/ Break(s, v)

Spec == Init /\ [][Next]_vars

\* io_loop reads every socket that has data.
FairSpec == Spec /\ \A s, v \in Server : WF_vars(Receive(s, v))

-----------------------------------------------------------------------------
\* find_client names one client: a server never has a nick twice
\* (perform_nick_collides, and the checks of m_nick and mr_nick).
NickUnique ==
    \A s \in Server : \A u, w \in Uid :
      nick[s][u] = nick[s][w] /\ Known(s, u) => u = w

\* Whoever is known of is behind a link that is up: a split leaves nobody of
\* the other side behind (recurse_remove_clients).
KnownBehindLink ==
    \A s \in Server : \A u \in Uid :
      Known(s, u) =>
        \/ Home[u] = s
        \/ \E v \in Peers(s) : link[<<s, v>>] = "up" /\ Home[u] \in Side[<<s, v>>]

\* No UID is introduced to a server that has it, splits and rejoins included:
\* ms_uid's "ID collision" branch is dead (hash_find_id).
NoIdCollision ==
    \A s \in Server : \A v \in Peers(s) :
      Parses(s, v, {"UID"}) => ~Known(s, Line(v, s).uid)

Quiet == \A l \in Link : queue[l] = <<>>

Joined(s, v) == link[<<s, v>>] = "up" /\ link[<<v, s>>] = "up"

\* Once nothing is on its way, neighbours have the same users, under the same
\* nicks and TS (perform_nick_collides).
Converged ==
    Quiet => \A l \in Link : Joined(l[1], l[2]) =>
      \A u \in Uid \ unregistered :
        /\ nick[l[1]][u] = nick[l[2]][u]
        /\ tsinfo[l[1]][u] = tsinfo[l[2]][u]

\* Half of that: a user its server has is known to everybody at rest, so none
\* sits on one server unseen by the rest (perform_nick_collides, burst_all).
NobodyMissing ==
    Quiet => \A l \in Link : Joined(l[1], l[2]) =>
      \A u \in Persons(l[2]) : Home[u] \in Side[l] => Known(l[1], u)

\* The message takes u out of the tables of s that parses it.
Removes(m, s, u) ==
    \/ m.type \in {"QUIT", "KILL"} /\ m.uid = u
    \/ m.type = "SQUIT" /\ Home[u] \in Beyond(s, m.server)
    \/ m.type = "CLOSE"

\* The other half, at every moment: whom s knows through v and v has no more,
\* v is telling s about (kill_client_ll_serv_butone, exit_client).
NoGhost ==
    \A l \in Link : \A u \in Uid :
      Home[u] \in Side[l] /\ Known(l[1], u) /\ ~Known(l[2], u) =>
        \E i \in DOMAIN queue[<<l[2], l[1]>>] : Removes(queue[<<l[2], l[1]>>][i], l[1], u)

PassesByTS(s, old, new) ==
    /\ Known(s, old) /\ old \notin unregistered
    /\ nick'[s][new] = nick[s][old] /\ new # old
    => IF Host[old] = Host[new] THEN tsinfo'[s][new] > tsinfo[s][old]
                                ELSE tsinfo'[s][new] < tsinfo[s][old]

\* A nick passes from one registered client to another only by the TS rules:
\* to an older user, or to a newer connection of the same user
\* (perform_nick_collides).
OlderKeepsNick == [][\A s \in Server : \A old, new \in Uid : PassesByTS(s, old, new)]_vars

\* Whatever collides with whatever, the network comes to rest: no two servers
\* go on killing in answer to one another (remove_unknown, ms_kill).
ComesToRest == []<>Quiet

-----------------------------------------------------------------------------
(* The inductive invariant behind NickUnique and KnownBehindLink.          *)

\* Who only reserved a nick is known on its own server alone.
UnregisteredLocal ==
    \A u \in unregistered :
      /\ u \in used
      /\ \A s \in Server : Known(s, u) <=> s = Home[u]

\* The clients of v's side that have registered, on the network or before.
Introduced(v, s) == {u \in used \ unregistered : Home[u] \in Side[<<s, v>>]}

\* What v may be sending: lines about those, and CLOSE once it has dropped s.
Legal(v, s) ==
    {m \in Message :
       /\ m.type \in {"UID", "NICK", "QUIT"} => m.uid \in Introduced(v, s)
       /\ m.type = "CLOSE" => link[<<v, s>>] = "down"}

LegalQueues == \A s \in Server : \A v \in Peers(s) : queue[<<v, s>>] \in Seq(Legal(v, s))

\* A server that connects waits for SERVER, or the end of the stream.
Handshake ==
    \A s \in Server : \A v \in Peers(s) :
      link[<<s, v>>] = "connecting" =>
        queue[<<v, s>>] # <<>> /\ Head(queue[<<v, s>>]).type \in {"SERVER", "CLOSE"}

UsersUsed == \A s \in Server : \A u \in Uid : Known(s, u) => u \in used

NickInv ==
    /\ TypeOK
    /\ NickUnique
    /\ KnownBehindLink
    /\ UnregisteredLocal
    /\ UsersUsed
    /\ LegalQueues
    /\ Handshake
=============================================================================
