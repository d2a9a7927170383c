----------------------------- MODULE ServerTree -----------------------------
(***************************************************************************)
(* How servers become one network: CONNECT and try_connections, the        *)
(* handshake of serv_connect_callback and mr_server, the burst of          *)
(* server_estab, ms_sid, SQUIT and the loss of a link (src/src/s_serv.c,   *)
(* src/modules/core/m_server.c, m_squit.c, src/src/client.c).              *)
(*                                                                         *)
(* A server knows of others by its global_serv_list alone: through which   *)
(* connection, and who introduced them.  Nothing keeps two servers from    *)
(* connecting to one another at once, or three from closing a ring; every  *)
(* server must find out by itself and cut a link.  A connection is a pair  *)
(* of streams.  The steps before a server's first line (connect, accept,   *)
(* TLS, auth) are those of Connections; names and passwords are right      *)
(* whenever there is a connect block, and all servers speak TS6 with QS,   *)
(* without lazy links, servlinks or fakenames.                             *)
(***************************************************************************)
EXTENDS Naturals, Sequences, FiniteSets, SequencesExt

CONSTANTS
    Server,
    Configs,      \* the configurations the servers may start with
    MaxConns      \* bound: connections ever made

Conn == 1..MaxConns

\* What the servers' ircd.conf files say together; calls (the CONNECTs of
\* opers and autoconn), breaks and squits bound what happens: one of each, once.
Config == [
    hub : SUBSET Server,                            \* those with hub = yes
    connects : SUBSET (Server \X Server),           \* <<s, t>>: s has a block for t
    linked : {<<>>} \cup (Server \X Server),  \* a link that is up from the start
    calls : [Conn -> SUBSET (Server \X Server)],    \* what connection k may be
    hubMask : SUBSET (Server \X Server \X Server),  \* <<s, t, x>>: s lets t introduce x
    leafMask : SUBSET (Server \X Server \X Server), \* <<s, t, x>>: s forbids it
    breaks : SUBSET Conn,                    \* the links one of which may be lost
    squits : SUBSET (Server \X Server)]      \* <<s, x>>: an oper of s SQUITs x

ASSUME TreeAssumption ==
    /\ IsFiniteSet(Server)
    /\ \A c \in Configs :
         /\ c \in Config /\ \A k \in Conn : c.calls[k] \subseteq c.connects
         /\ c.linked \in {<<>>} \cup c.connects
         /\ \A s \in Server : <<s, s>> \notin c.connects
    /\ MaxConns \in Nat \ {0}

VARIABLES
    conf,     \* the configuration; nobody rehashes
    ends,     \* ends[k]: the servers of connection k, caller first; <<>> before
    status,   \* status[k][s]: "none", "unknown", "handshake", "server", "closed"
    wire,     \* wire[k][s]: what was sent to s on k and s has not parsed
    global_serv_list,   \* [s]: whom s knows of; below are those nearer the tail
    left      \* whether a link may still be lost, an oper SQUIT

vars == <<conf, ends, status, wire, global_serv_list, left>>

ServerMsg == [type |-> "SERVER"]     \* PASS, CAPAB and SERVER of the neighbour
SidMsg(up, x) == [type |-> "SID", up |-> up, name |-> x]
SquitMsg(x) == [type |-> "SQUIT", name |-> x]
CloseMsg == [type |-> "CLOSE"]

Entry == [name : Server, up : Server, from : Conn, below : SUBSET Server]

\* The types of what servers keep.  The lines on the wire are of the four kinds
\* above.
TypeOK ==
    /\ conf \in Configs
    /\ ends \in [Conn -> {<<>>} \cup conf.connects]
    /\ status \in [Conn -> [Server -> {"none", "unknown", "handshake", "server", "closed"}]]
    /\ global_serv_list \in [Server -> SUBSET Entry]
    /\ left \in SUBSET {"break", "squit"}

Init ==
    /\ conf \in Configs
    /\ ends = [k \in Conn |-> IF k = 1 THEN conf.linked ELSE <<>>]
    /\ status = [k \in Conn |-> [s \in Server |->
                   IF s \in Range(ends[k]) THEN "server" ELSE "none"]]
    /\ wire = [k \in Conn |-> [s \in Server |-> <<>>]]
    /\ global_serv_list = [s \in Server |->
         {[name |-> t, up |-> s, from |-> 1, below |-> {}] : t \in
            IF s \in Range(ends[1]) THEN Range(ends[1]) \ {s} ELSE {}}]
    /\ left = {"break", "squit"}

-----------------------------------------------------------------------------
(* One server's view.                                                      *)

\* find_server and hash_find_id: &me is in the tables as well.
Knows(s, x) == x = s \/ \E e \in global_serv_list[s] : e.name = x

\* x->from == client_p, x not being &me.
KnownBy(s, k, x) == \E e \in global_serv_list[s] : e.name = x /\ e.from = k

Established(s) == {k \in Conn : status[k][s] = "server"}    \* serv_list

Open(k, s) == status[k][s] \in {"unknown", "handshake", "server"}

Peer(k, s) == IF ends[k][1] = s THEN ends[k][2] ELSE ends[k][1]

\* find_servconn_in_progress: only a connection we made has a name that early.
InProgress(s, x) == {k \in Conn : status[k][s] = "handshake" /\ Peer(k, s) = x}

\* What the pairs of R lead to from x.
Reach(x, R) ==
    {y \in Server : \A S \in SUBSET Server :
       x \in S /\ (\A p \in R : p[1] \in S => p[2] \in S) => y \in S}

\* Mutant: only x and the servers it introduced, not those behind them.
DependentsShallow(s, x) ==
    {x} \cup {e.name : e \in {f \in global_serv_list[s] : f.up = x}}

\* recurse_remove_clients: x and what hangs below it in serv->servers.
Dependents(s, x) == Reach(x, {<<e.up, e.name>> : e \in global_serv_list[s]})

\* make_server, dlinkAdd: x is at the head of the list, the newest.
AddServer(s, x, up, k) ==
    global_serv_list' = [global_serv_list EXCEPT ![s] = @ \cup
      {[name |-> x, up |-> up, from |-> k, below |-> {e.name : e \in @}]}]

Head1(k, s) == Head(wire[k][s])

\* parse: s reads the next line of k, of one of the given types.
Parses(s, k, types) ==
    /\ Open(k, s) /\ wire[k][s] # <<>>
    /\ Head1(k, s).type \in types

-----------------------------------------------------------------------------
(* What a step of one server does to the connections.                      *)

Nothing == [k \in Conn |-> <<>>]

\* ms to every server of serv_list but those of one.
ToServers(s, one, ms) ==
    [k \in Conn |-> IF k \in Established(s) \ one THEN ms ELSE <<>>]

ToOne(k, ms) == [j \in Conn |-> IF j = k THEN ms ELSE <<>>]

Both(out1, out2) == [k \in Conn |-> out1[k] \o out2[k]]

\* s has parsed the first line of the connections in K, sends out, and closes
\* those of Closing: what is on its way to a closed end is never read.
Transmit(s, K, out, Closing) ==
    wire' = [j \in Conn |-> [t \in Server |->
              IF t = s THEN IF j \in Closing THEN <<>>
                            ELSE IF j \in K THEN Tail(wire[j][s])
                            ELSE wire[j][s]
              ELSE IF s \in Range(ends[j]) /\ t \in Range(ends[j]) /\ Open(j, t)
                   THEN wire[j][t] \o out[j]
                          \o (IF j \in Closing THEN <<CloseMsg>> ELSE <<>>)
              ELSE wire[j][t]]]

SetStatus(s, K, st) ==
    status' = [j \in Conn |-> IF j \in K THEN [status[j] EXCEPT ![s] = st] ELSE status[j]]

RemoveServers(s, X) ==
    global_serv_list' = [global_serv_list EXCEPT ![s] =
      {[e EXCEPT !.below = @ \ X] : e \in {f \in @ : f.name \notin X}}]

\* exit_client of a server x that s knows through j, fired by what came from
\* the connections of one: the link goes if x is our neighbour, its dependents
\* are removed, and a SQUIT of x is sent to all others.
ExitServer(s, x, j, K, one, tossed) ==
    LET closing == IF Peer(j, s) = x THEN {j} ELSE {}
    IN  /\ SetStatus(s, closing \cup tossed, "closed")
        /\ Transmit(s, K, ToServers(s, one \cup closing, <<SquitMsg(x)>>), closing \cup tossed)
        /\ RemoveServers(s, Dependents(s, x))

\* exit_client of connections that are not registered.
ExitUnknown(s, J, K) ==
    /\ SetStatus(s, J, "closed")
    /\ Transmit(s, K, Nothing, J)
    /\ UNCHANGED global_serv_list

-----------------------------------------------------------------------------
(* The handshake.                                                          *)

\* mo_connect, ms_connect and try_connections ask for neither a known server
\* nor one we are connecting to; serv_connect and its callback make the
\* connection and send PASS, CAPAB and SERVER.
ServConnect(s, t, k) ==
    /\ <<s, t>> \in conf.calls[k] /\ ends[k] = <<>>
    /\ \A j \in 1..(k - 1) : ends[j] # <<>>
    /\ ~Knows(s, t) /\ InProgress(s, t) = {}
    /\ ends' = [ends EXCEPT ![k] = <<s, t>>]
    /\ status' = [status EXCEPT ![k][s] = "handshake", ![k][t] = "unknown"]
    /\ wire' = [wire EXCEPT ![k][t] = <<ServerMsg>>]
    /\ UNCHANGED <<conf, global_serv_list, left>>

\* mr_server: "Server ID already exists".
Exists(s, x) == Knows(s, x)

\* "If somehow there is a connect in progress and a connect comes in with same
\* name toss the pending one, but only if it's not the same client".
Overridden(s, x, k) == InProgress(s, x) \ {k}

\* Mutant: of the neighbours only, as if it went through serv_list.
BurstOfLinks(s) ==
    LET L == SetToSeq({e \in global_serv_list[s] : e.up = s})
    IN  [i \in DOMAIN L |-> SidMsg(L[i].up, L[i].name)]

\* The part of server_estab that tells the new server of the others, from the
\* tail of global_serv_list.
Burst(s) ==
    LET L == CHOOSE q \in SetToSeqs(global_serv_list[s]) :
               \A i, j \in DOMAIN q : i < j => q[i].name \in q[j].below
    IN  [i \in DOMAIN L |-> SidMsg(L[i].up, L[i].name)]

\* server_estab: "I'm a leaf not a hub".
IsLeaf(s) == s \notin conf.hub /\ Established(s) # {}

\* server_estab: the neighbour x is introduced to the others, then told of them.
Establish(s, k, x) ==
    /\ status' = [j \in Conn |->
         IF j \in Overridden(s, x, k) THEN [status[j] EXCEPT ![s] = "closed"]
         ELSE IF j = k THEN [status[j] EXCEPT ![s] = "server"]
         ELSE status[j]]
    /\ AddServer(s, x, s, k)
    /\ Transmit(s, {k},
         Both(ToServers(s, {}, <<SidMsg(s, x)>>),
              ToOne(k, (IF status[k][s] = "unknown" THEN <<ServerMsg>> ELSE <<>>)
                         \o Burst(s))),
         Overridden(s, x, k))

\* SERVER, while we are unregistered: mr_server, check_server, server_estab.
MrServer(s, k) ==
    LET x == Peer(k, s)
    IN  /\ Parses(s, k, {"SERVER"}) /\ status[k][s] # "server"
        /\ IF Exists(s, x) \/ <<s, x>> \notin conf.connects
           THEN ExitUnknown(s, {k}, {k})
           ELSE IF IsLeaf(s)
           THEN ExitUnknown(s, Overridden(s, x, k) \cup {k}, {k})
           ELSE Establish(s, k, x)
        /\ UNCHANGED <<conf, ends, left>>

-----------------------------------------------------------------------------
(* The lines of an established server.                                     *)

\* parse, remove_unknown: the server that introduces is not known here; its
\* neighbour is told to SQUIT it.
UnknownPrefix(s, k) ==
    /\ Parses(s, k, {"SID"})
    /\ ~Knows(s, Head1(k, s).up)
    /\ Transmit(s, {k}, ToOne(k, <<SquitMsg(Head1(k, s).up)>>), {})
    /\ UNCHANGED <<conf, ends, status, global_serv_list, left>>

\* parse, cancel_clients: "Not dropping server for Fake Direction".
WrongDirection(s, k) ==
    /\ Parses(s, k, {"SID"})
    /\ Knows(s, Head1(k, s).up) /\ ~KnownBy(s, k, Head1(k, s).up)
    /\ Transmit(s, {k}, Nothing, {})
    /\ UNCHANGED <<conf, ends, status, global_serv_list, left>>

\* SID and SERVER from a server introduce x, and the prefix is right.
Introduces(s, k, x) ==
    /\ Parses(s, k, {"SID"})
    /\ KnownBy(s, k, Head1(k, s).up) /\ Head1(k, s).name = x
    /\ UNCHANGED <<conf, ends, left>>

\* ms_sid: "Server already exists", the link goes.
SidExists(s, k) ==
    \E x \in Server :
      /\ Introduces(s, k, x)
      /\ Exists(s, x)
      /\ ExitServer(s, Peer(k, s), k, {k}, {}, {})

Masked(s, t, x) == <<s, t, x>> \notin conf.hubMask \/ <<s, t, x>> \in conf.leafMask

\* ms_sid: no hub_mask, the introducer goes; a leaf_mask, the link goes.
SidMasked(s, k) ==
    \E x \in Server :
      /\ Introduces(s, k, x)
      /\ ~Exists(s, x) /\ Masked(s, Peer(k, s), x)
      /\ ExitServer(s, IF <<s, Peer(k, s), x>> \in conf.hubMask THEN Peer(k, s)
                       ELSE Head1(k, s).up,
                    k, {k}, {}, Overridden(s, x, k))

\* ms_sid: the server is new here, and for our other links.
SidAccepted(s, k) ==
    \E x \in Server :
      LET up == Head1(k, s).up
      IN  /\ Introduces(s, k, x)
          /\ ~Exists(s, x) /\ ~Masked(s, Peer(k, s), x)
          /\ SetStatus(s, Overridden(s, x, k), "closed")
          /\ AddServer(s, x, up, k)
          /\ Transmit(s, {k}, ToServers(s, {k}, <<SidMsg(up, x)>>), Overridden(s, x, k))

\* Mutant: a SQUIT of a server nobody knows is answered in kind.
SquitUnknownAnswers(s, k) ==
    /\ Parses(s, k, {"SQUIT"})
    /\ Head1(k, s).name = s \/ ~Knows(s, Head1(k, s).name)
    /\ Transmit(s, {k}, ToOne(k, <<SquitMsg(Head1(k, s).name)>>), {})
    /\ UNCHANGED <<conf, ends, status, global_serv_list, left>>

\* ms_squit of &me, or of a server that is gone already.
SquitUnknown(s, k) ==
    /\ Parses(s, k, {"SQUIT"})
    /\ Head1(k, s).name = s \/ ~Knows(s, Head1(k, s).name)
    /\ Transmit(s, {k}, Nothing, {})
    /\ UNCHANGED <<conf, ends, status, global_serv_list, left>>

\* ms_squit, whatever connection the server is known through.
MsSquit(s, k) ==
    /\ Parses(s, k, {"SQUIT"})
    /\ \E e \in global_serv_list[s] :
         /\ e.name = Head1(k, s).name
         /\ ExitServer(s, e.name, e.from, {k}, {k}, {})
    /\ UNCHANGED <<conf, ends, left>>

\* mo_squit, of a server near or far.
MoSquit(s) ==
    /\ "squit" \in left /\ left' = left \ {"squit"}
    /\ \E e \in global_serv_list[s] :
         <<s, e.name>> \in conf.squits /\ ExitServer(s, e.name, e.from, {}, {}, {})
    /\ UNCHANGED <<conf, ends>>

\* The connection is lost: a ping timeout, a write error at either end.  What
\* was on its way is read up to any point.
Break(k) ==
    /\ "break" \in left /\ left' = left \ {"break"} /\ k \in conf.breaks
    /\ \A s \in Range(ends[k]) : Open(k, s)
    /\ ends[k] # <<>>
    /\ \E n \in 0..Len(wire[k][ends[k][1]]), m \in 0..Len(wire[k][ends[k][2]]) :
         wire' = [wire EXCEPT
           ![k][ends[k][1]] = Append(SubSeq(@, 1, n), CloseMsg),
           ![k][ends[k][2]] = Append(SubSeq(@, 1, m), CloseMsg)]
    /\ UNCHANGED <<conf, ends, status, global_serv_list>>

\* The end of the stream: read_packet, dead_link_on_read.
ReadClose(s, k) ==
    /\ Parses(s, k, {"CLOSE"})
    /\ IF status[k][s] = "server"
       THEN ExitServer(s, Peer(k, s), k, {k}, {}, {})
       ELSE ExitUnknown(s, {k}, {k})
    /\ UNCHANGED <<conf, ends, left>>

-----------------------------------------------------------------------------
Receive(s, k) ==
    \/ MrServer(s, k) \/ UnknownPrefix(s, k) \/ WrongDirection(s, k)
    \/ SidExists(s, k) \/ SidMasked(s, k) \/ SidAccepted(s, k)
    \/ SquitUnknown(s, k) \/ MsSquit(s, k) \/ ReadClose(s, k)

Next ==
    \/ \E s \in Server, k \in Conn :
         Receive(s, k) \/ (\E t \in Server : ServConnect(s, t, k))
    \/ \E s \in Server : MoSquit(s)
    \/ \E k \in Conn : Break(k)

Spec == Init /\ [][Next]_vars

\* io_loop goes on reading as long as some socket has data.
FairSpec == Spec /\ WF_vars(\E s \in Server, k \in Conn : Receive(s, k))

-----------------------------------------------------------------------------
\* What global_serv_list, the links and serv->servers say of each other.
\* Whoever s knows of it knows once,
KnownOnce(s) ==
    \A e \in global_serv_list[s] :
      e.name # s /\ \A f \in global_serv_list[s] : e.name = f.name => e = f

\* through a link that is up,
ThroughLinks(s) ==
    \A e \in global_serv_list[s] : status[e.from][s] = "server"

\* every link has its server,
LinksKnown(s) == \A k \in Established(s) : KnownBy(s, k, Peer(k, s))

\* everybody else was introduced, through the same link, by a server that the
\* burst of s names before it,
IntroducedBefore(s) ==
    \A e \in global_serv_list[s] :
      IF e.name = Peer(e.from, s) THEN e.up = s
      ELSE \E f \in global_serv_list[s] :
             f.name = e.up /\ f.from = e.from /\ f.name \in e.below

\* and the list is a list.
InOrder(s) ==
    \A e \in global_serv_list[s] :
      /\ e.name \notin e.below
      /\ \A f \in global_serv_list[s] :
           /\ e = f \/ e.name \in f.below \/ f.name \in e.below
           /\ f.name \in e.below => f.below \subseteq e.below

TreeInv ==
    \A s \in Server : /\ KnownOnce(s) /\ ThroughLinks(s) /\ LinksKnown(s)
                      /\ IntroducedBefore(s) /\ InOrder(s)

\* Nothing is on its way and no handshake is going on.
Quiet ==
    \A k \in Conn, s \in Server :
      wire[k][s] = <<>> /\ status[k][s] \notin {"unknown", "handshake"}

Up(K) == {p \in Server \X Server :
           /\ p[1] # p[2]
           /\ \E k \in K : status[k][p[1]] = "server" /\ status[k][p[2]] = "server"}

\* Whom s takes to be on the network.
Known(s) == {s} \cup {e.name : e \in global_serv_list[s]}

\* At rest the links form a forest, both ends of a link agree on it, and every
\* server knows all servers of its tree, whatever rings were tried and whatever
\* crossed: this is the shape that client introductions and messages rely on.
OneTree ==
    Quiet =>
      /\ \A k \in Conn : ends[k] # <<>> =>
           /\ status[k][ends[k][1]] = status[k][ends[k][2]]
           /\ status[k][ends[k][1]] = "server" =>
                ends[k][2] \notin Reach(ends[k][1], Up(Conn \ {k}))
      /\ \A s \in Server : Reach(s, Up(Conn)) \subseteq Known(s)

\* Nobody knows a server of another tree, unless a SQUIT crossed something: an
\* oper's, or, where four servers are in a line, that of a server a mask refused.
NoGhosts ==
    "squit" \in left => \A s \in Server : Known(s) \subseteq Reach(s, Up(Conn))

\* Links are not cut and made for ever over one another's introductions, and
\* whatever a server still knows where all is quiet is there.
ComesToRest == <>[](Quiet /\ NoGhosts)
=============================================================================
