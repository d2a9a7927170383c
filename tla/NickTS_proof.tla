--------------------------- MODULE NickTS_proof ---------------------------
(***************************************************************************)
(* Proofs about NickTS, for every tree of servers, every finite set of     *)
(* clients and every bound on the events.                                  *)
(***************************************************************************)
EXTENDS NickTS, FiniteSetTheorems, SequenceTheorems, TLAPS

-----------------------------------------------------------------------------
(* The tree of links.                                                      *)

\* A link has two ends, and each has the rest of the network on its side.
LEMMA LinkEnds ==
    ASSUME NEW s \in Server, NEW v \in Peers(s)
    PROVE  /\ v \in Server /\ s \in Peers(v)
           /\ <<s, v>> \in Link /\ <<v, s>> \in Link /\ s # v
           /\ s \in Side[<<v, s>>] /\ s \notin Side[<<s, v>>]
           /\ \A t \in Peers(s) \ {v} : Side[<<s, t>>] \subseteq Side[<<v, s>>]
           /\ Side[<<s, v>>] \subseteq Beyond(s, v)
           /\ \A x \in Side[<<s, v>>] \ {v} : Peers(x) \subseteq Side[<<s, v>>]
  <1>1. v \in Server /\ <<s, v>> \in Link /\ <<v, s>> \in Link /\ s \in Peers(v)
    BY NetworkAssumption DEF Peers
  <1>2. s \notin Side[<<s, v>>] /\ v \in Side[<<s, v>>] /\ s \in Side[<<v, s>>]
    BY <1>1, NetworkAssumption
  <1>3. \A t \in Peers(s) \ {v} : Side[<<s, t>>] \subseteq Side[<<v, s>>]
    BY <1>1, NetworkAssumption
  <1>4. Side[<<s, v>>] \subseteq Beyond(s, v)
    <2>1. <<s, v>> \in {k \in Link : k[2] = v /\ s \notin Side[k]}
      BY <1>1, <1>2
    <2> QED BY <2>1 DEF Beyond
  <1>5. \A x \in Side[<<s, v>>] \ {v} : Peers(x) \subseteq Side[<<s, v>>]
    BY <1>1, NetworkAssumption
  <1> QED BY <1>1, <1>2, <1>3, <1>4, <1>5

\* Every link is one of a server to a peer.
LEMMA LinkIsPair ==
    ASSUME NEW l \in Link
    PROVE  l[1] \in Server /\ l[2] \in Server /\ l[2] \in Peers(l[1]) /\ l[1] \in Peers(l[2])
           /\ l = <<l[1], l[2]>>
  <1>1. l[1] \in Server /\ l[2] \in Server /\ l = <<l[1], l[2]>>
    BY NetworkAssumption
  <1>2. l[2] \in Peers(l[1])
    BY <1>1 DEF Peers
  <1>3. \A s \in Server : \A v \in Peers(s) : s \in Peers(v)
    BY LinkEnds
  <1> QED BY <1>1, <1>2, <1>3

-----------------------------------------------------------------------------
(* The tables.                                                             *)

TableType ==
    /\ nick \in [Server -> [Uid -> Nick \cup {NULL}]]
    /\ tsinfo \in [Server -> [Uid -> Nat]]
    /\ unregistered \subseteq Uid
    /\ used \subseteq Uid

Behind(s, u) ==
    \/ Home[u] = s
    \/ \E v \in Peers(s) : link[<<s, v>>] = "up" /\ Home[u] \in Side[<<s, v>>]

\* The part of NickInv about the tables, and the part about the streams.
Tables ==
    TableType /\ NickUnique /\ KnownBehindLink /\ UnregisteredLocal /\ UsersUsed

Streams == queue \in [Link -> Seq(Message)] /\ LegalQueues /\ Handshake

Rest == link \in [Link -> {"down", "connecting", "up"}] /\ left \in [Event -> Nat]

LEMMA NickInvParts == NickInv <=> Tables /\ Streams /\ Rest
  BY DEF NickInv, Tables, Streams, Rest, TableType, TypeOK

\* What a handler changes in the tables of one server keeps them consistent: at
\* most one client enters, one that has registered, and nobody else keeps its
\* nick; and whoever stays is behind a link that is still up.
LEMMA UpdateKeeps ==
    ASSUME Tables, used' = used,
           NEW s \in Server, NEW X, NEW Y \in SUBSET (used \ unregistered), NEW n, NEW t,
           Update(s, X, Y, n, t),
           \A u, w \in Y : u = w,
           Y # {} => n \in Nick /\ t \in Nat /\ Holders(s, n) \subseteq X \cup Y,
           \A r \in Server \ {s}, u \in Uid : Behind(r, u) => Behind(r, u)',
           \A u \in Uid : u \in Y \/ (Known(s, u) /\ u \notin X) => Behind(s, u)'
    PROVE  Tables' /\ unregistered' \subseteq unregistered
  <1> DEFINE new == [u \in Uid |-> IF u \in Y THEN n ELSE IF u \in X THEN NULL ELSE nick[s][u]]
  <1>1. /\ nick' = [nick EXCEPT ![s] = new]
        /\ unregistered' = unregistered \ (X \ Y)
    BY DEF Update
  <1>2. TableType'
    <2>1. new \in [Uid -> Nick \cup {NULL}]
      BY DEF Tables, TableType
    <2>2. [u \in Uid |-> IF u \in Y THEN t ELSE IF u \in X THEN 0 ELSE tsinfo[s][u]] \in [Uid -> Nat]
      BY DEF Tables, TableType
    <2>3. nick' \in [Server -> [Uid -> Nick \cup {NULL}]]
      BY <1>1, <2>1 DEF Tables, TableType
    <2>4. tsinfo' \in [Server -> [Uid -> Nat]]
      BY <2>2 DEF Tables, TableType, Update
    <2> QED BY <1>1, <2>3, <2>4 DEF Tables, TableType
  <1>3. /\ nick'[s] = new
        /\ \A r \in Server \ {s} : nick'[r] = nick[r]
    BY <1>1 DEF Tables, TableType
  <1>4. NickUnique'
    <2> SUFFICES ASSUME NEW r \in Server, NEW u \in Uid, NEW w \in Uid,
                        nick'[r][u] = nick'[r][w], nick'[r][u] # NULL
                 PROVE  u = w
      BY DEF NickUnique, Known
    <2>1. CASE r # s
      BY <1>3, <2>1 DEF Tables, NickUnique, Known
    <2>2. CASE r = s /\ u \in Y /\ w \in Y
      BY <2>2
    <2>3. CASE r = s /\ u \in Y /\ w \notin Y
      BY <1>3, <2>3 DEF Holders
    <2>4. CASE r = s /\ u \notin Y /\ w \in Y
      BY <1>3, <2>4 DEF Holders
    <2>5. CASE r = s /\ u \notin Y /\ w \notin Y
      BY <1>3, <2>5 DEF Tables, NickUnique, Known
    <2> QED BY <2>1, <2>2, <2>3, <2>4, <2>5
  <1>5. KnownBehindLink'
    <2> SUFFICES ASSUME NEW r \in Server, NEW u \in Uid, nick'[r][u] # NULL
                 PROVE  Behind(r, u)'
      BY DEF KnownBehindLink, Known, Behind
    <2>1. CASE r # s
      BY <1>3, <2>1 DEF Tables, KnownBehindLink, Known, Behind
    <2>2. CASE r = s
      BY <1>3, <2>2 DEF Known
    <2> QED BY <2>1, <2>2
  <1>6. UnregisteredLocal'
    <2> SUFFICES ASSUME NEW u \in unregistered' PROVE u \in used' /\ \A r \in Server : (nick'[r][u] # NULL <=> r = Home[u])
      BY DEF UnregisteredLocal, Known
    <2>1. u \in unregistered /\ u \notin Y /\ u \notin X
      BY <1>1
    <2>2. \A r \in Server : nick'[r][u] = nick[r][u]
      BY <1>3, <2>1 DEF Tables, TableType
    <2> QED BY <2>1, <2>2 DEF Tables, UnregisteredLocal, Known
  <1>7. UsersUsed'
    BY <1>3 DEF Tables, UsersUsed, Known
  <1> QED BY <1>1, <1>2, <1>4, <1>5, <1>6, <1>7 DEF Tables

-----------------------------------------------------------------------------
(* The streams.                                                            *)

\* What s may send to t while it has not dropped t.
Sendable(s, t) ==
    {m \in Message :
       /\ m.type \in {"UID", "NICK", "QUIT"} => m.uid \in Introduced(s, t)
       /\ m.type # "CLOSE"}

\* Nobody who has registered is unknown later, so what is on its way stays legal.
LEMMA LegalGrows ==
    ASSUME NEW s \in Server, NEW t \in Server,
           used \ unregistered \subseteq used' \ unregistered',
           link[<<s, t>>] = "down" => link'[<<s, t>>] = "down"
    PROVE  Legal(s, t) \subseteq Legal(s, t)'
  BY DEF Legal, Introduced, Message

\* Streams is about each pair of peers.
LEMMA StreamsByPair ==
    ASSUME queue' = [l \in Link |-> queue'[l]],
           \A s \in Server : \A v \in Peers(s) :
             /\ queue'[<<v, s>>] \in Seq(Legal(v, s)')
             /\ link'[<<s, v>>] = "connecting" =>
                  queue'[<<v, s>>] # <<>> /\ Head(queue'[<<v, s>>]).type \in {"SERVER", "CLOSE"}
    PROVE  Streams'
  <1>1. LegalQueues' /\ Handshake'
    BY DEF LegalQueues, Handshake, Peers
  <1>2. ASSUME NEW l \in Link PROVE queue'[l] \in Seq(Message)
    <2>1. /\ l[1] \in Server /\ l[2] \in Server /\ l[1] \in Peers(l[2]) /\ l = <<l[1], l[2]>>
      BY LinkIsPair
    <2>2. queue'[<<l[1], l[2]>>] \in Seq(Legal(l[1], l[2])')
      BY <2>1
    <2>3. Legal(l[1], l[2])' \subseteq Message
      BY DEF Legal, Message
    <2> QED BY <2>1, <2>2, <2>3, SeqMonotonic
  <1> QED BY <1>1, <1>2 DEF Streams

LEMMA HeadOfConcat ==
    ASSUME NEW S, NEW q \in Seq(S), NEW r \in Seq(S), q # <<>>
    PROVE  q \o r # <<>> /\ Head(q \o r) = Head(q)
  <1>1. Len(q) \in Nat /\ Len(q) > 0
    BY EmptySeq
  <1>2. Len(q \o r) = Len(q) + Len(r) /\ q \o r \in Seq(S) /\ Len(r) \in Nat
    BY ConcatProperties, LenProperties
  <1>3. (q \o r)[1] = q[1]
    BY <1>1, <1>2, ConcatProperties
  <1> QED BY <1>1, <1>2, <1>3

\* What a stream held, with legal lines after it.
LEMMA StreamGrows ==
    ASSUME Streams, NEW s \in Server, NEW v \in Peers(s), NEW more \in Seq(Sendable(v, s)'),
           used \ unregistered \subseteq used' \ unregistered',
           link[<<v, s>>] = "down" => link'[<<v, s>>] = "down",
           link'[<<s, v>>] = "connecting" => link[<<s, v>>] = "connecting",
           queue'[<<v, s>>] = queue[<<v, s>>] \o more
    PROVE  /\ queue'[<<v, s>>] \in Seq(Legal(v, s)')
           /\ link'[<<s, v>>] = "connecting" =>
                queue'[<<v, s>>] # <<>> /\ Head(queue'[<<v, s>>]).type \in {"SERVER", "CLOSE"}
  <1>1. v \in Server /\ queue[<<v, s>>] \in Seq(Legal(v, s))
    BY DEF Streams, LegalQueues, Peers
  <1>2. queue[<<v, s>>] \in Seq(Legal(v, s)')
    BY <1>1, LegalGrows, SeqMonotonic
  <1>3. Sendable(v, s)' \subseteq Legal(v, s)'
    BY DEF Sendable, Legal
  <1>4. more \in Seq(Legal(v, s)')
    BY <1>3, SeqMonotonic
  <1>5. queue'[<<v, s>>] \in Seq(Legal(v, s)')
    BY <1>2, <1>4, ConcatProperties
  <1>6. ASSUME link'[<<s, v>>] = "connecting"
        PROVE  queue'[<<v, s>>] # <<>> /\ Head(queue'[<<v, s>>]).type \in {"SERVER", "CLOSE"}
    <2>1. queue[<<v, s>>] # <<>> /\ Head(queue[<<v, s>>]).type \in {"SERVER", "CLOSE"}
      BY <1>6 DEF Streams, Handshake
    <2>2. queue[<<v, s>>] \o more # <<>> /\ Head(queue[<<v, s>>] \o more) = Head(queue[<<v, s>>])
      BY <1>2, <1>4, <2>1, HeadOfConcat
    <2> QED BY <2>1, <2>2
  <1> QED BY <1>5, <1>6

\* s sends something to some of its peers.
LEMMA SendStreams ==
    ASSUME Streams, NEW s \in Server, NEW out, Send(s, out), link' = link,
           used \ unregistered \subseteq used' \ unregistered',
           \A t \in Peers(s) : out[t] \in Seq(Sendable(s, t)')
    PROVE  Streams'
  <1>1. ASSUME NEW r \in Server, NEW v \in Peers(r)
        PROVE  /\ queue'[<<v, r>>] \in Seq(Legal(v, r)')
               /\ link'[<<r, v>>] = "connecting" =>
                    queue'[<<v, r>>] # <<>> /\ Head(queue'[<<v, r>>]).type \in {"SERVER", "CLOSE"}
    <2>1. <<v, r>> \in Link /\ r \in Peers(v)
      BY LinkEnds
    <2>2. CASE v = s
      BY <2>1, <2>2, StreamGrows DEF Send
    <2>3. CASE v # s
      <3>1. queue'[<<v, r>>] = queue[<<v, r>>] /\ queue[<<v, r>>] \in Seq(Message)
        BY <2>1, <2>3 DEF Send, Streams
      <3>2. queue'[<<v, r>>] = queue[<<v, r>>] \o <<>>
        BY <3>1, ConcatEmptySeq
      <3> QED BY <3>2, StreamGrows, EmptySeq
    <2> QED BY <2>2, <2>3
  <1>2. queue' = [l \in Link |-> queue'[l]]
    BY DEF Send
  <1> QED BY <1>1, <1>2, StreamsByPair

\* s parses a line of v and sends something to some of its peers.
LEMMA AnswerStreams ==
    ASSUME Streams, NEW s \in Server, NEW v \in Peers(s), NEW out, Answer(v, s, out),
           used \ unregistered \subseteq used' \ unregistered',
           \A l \in Link : link[l] = "down" => link'[l] = "down",
           \A l \in Link : link'[l] = "connecting" => link[l] = "connecting",
           queue[<<v, s>>] # <<>>, link'[<<s, v>>] # "connecting",
           \A t \in Peers(s) : out[t] \in Seq(Sendable(s, t)')
    PROVE  Streams'
  <1>1. ASSUME NEW r \in Server, NEW w \in Peers(r)
        PROVE  /\ queue'[<<w, r>>] \in Seq(Legal(w, r)')
               /\ link'[<<r, w>>] = "connecting" =>
                    queue'[<<w, r>>] # <<>> /\ Head(queue'[<<w, r>>]).type \in {"SERVER", "CLOSE"}
    <2>1. <<w, r>> \in Link /\ <<r, w>> \in Link /\ r \in Peers(w) /\ w \in Server /\ v \in Server /\ v # s
      BY LinkEnds
    <2>2. CASE <<w, r>> = <<v, s>>
      <3>1. queue[<<v, s>>] \in Seq(Legal(v, s))
        BY DEF Streams, LegalQueues
      <3>2. Tail(queue[<<v, s>>]) \in Seq(Legal(v, s))
        BY <3>1, HeadTailProperties
      <3>3. Tail(queue[<<v, s>>]) \in Seq(Legal(v, s)')
        BY <2>1, <2>2, <3>2, LegalGrows, SeqMonotonic
      <3>4. queue'[<<v, s>>] = Tail(queue[<<v, s>>])
        BY <2>1, <2>2 DEF Answer
      <3> QED BY <2>2, <3>3, <3>4
    <2>3. CASE <<w, r>> # <<v, s>> /\ w = s
      <3>1. queue'[<<w, r>>] = queue[<<w, r>>] \o out[r] /\ out[r] \in Seq(Sendable(w, r)')
        BY <2>1, <2>3 DEF Answer
      <3> QED BY <2>1, <3>1, StreamGrows
    <2>4. CASE <<w, r>> # <<v, s>> /\ w # s
      <3>1. queue'[<<w, r>>] = queue[<<w, r>>] /\ queue[<<w, r>>] \in Seq(Message)
        BY <2>1, <2>4 DEF Answer, Streams
      <3>2. queue'[<<w, r>>] = queue[<<w, r>>] \o <<>>
        BY <3>1, ConcatEmptySeq
      <3> QED BY <2>1, <3>2, StreamGrows, EmptySeq
    <2> QED BY <2>2, <2>3, <2>4
  <1>2. queue' = [l \in Link |-> queue'[l]]
    BY DEF Answer
  <1> QED BY <1>1, <1>2, StreamsByPair

-----------------------------------------------------------------------------
(* What a handler sends.                                                   *)

LEMMA ShortSeq ==
    ASSUME NEW S, NEW x \in S
    PROVE  <<x>> \in Seq(S) /\ \A y \in S : <<x, y>> \in Seq(S)
  OBVIOUS

LEMMA ToServersOut ==
    ASSUME NEW s \in Server, NEW one, NEW ms, NEW t \in Peers(s),
           t \notin one => ms \in Seq(Sendable(s, t)')
    PROVE  ToServers(s, one, ms)[t] \in Seq(Sendable(s, t)')
  BY EmptySeq DEF ToServers

LEMMA ToOneOut ==
    ASSUME NEW s \in Server, NEW v, NEW ms, NEW t \in Peers(s),
           t = v => ms \in Seq(Sendable(s, t)')
    PROVE  ToOne(s, v, ms)[t] \in Seq(Sendable(s, t)')
  BY EmptySeq DEF ToOne

\* A KILL of the server may go anywhere, whoever it names.
LEMMA KillSendable ==
    ASSUME NEW s \in Server, NEW t \in Server, NEW u \in Uid
    PROVE  /\ KillMsg(u) \in Sendable(s, t)'
           /\ \A o \in Uid : KillBy(o, u) \in Sendable(s, t)'
  BY DEF KillMsg, KillBy, Sendable, Message

\* A line about a registered client of s's own side of the link to t.
LEMMA AboutSendable ==
    ASSUME NEW s \in Server, NEW t \in Server, NEW u \in Uid, u \in Introduced(s, t)'
    PROVE  /\ QuitMsg(u) \in Sendable(s, t)'
           /\ \A n \in Nick, k \in Nat :
                UidMsg(u, n, k) \in Sendable(s, t)' /\ NickMsg(u, n, k) \in Sendable(s, t)'
  BY DEF UidMsg, NickMsg, QuitMsg, Sendable, Message

\* Lines of v may be passed on to the other peers.
LEMMA PassOn ==
    ASSUME NEW s \in Server, NEW v \in Peers(s), NEW m \in Legal(v, s), m.type # "CLOSE",
           used \ unregistered \subseteq used' \ unregistered',
           NEW t \in Peers(s) \ {v}
    PROVE  m \in Sendable(s, t)'
  <1>1. Side[<<s, v>>] \subseteq Side[<<t, s>>]
    BY LinkEnds
  <1> QED BY <1>1 DEF Legal, Sendable, Introduced

-----------------------------------------------------------------------------
(* Handlers in general.                                                    *)

LEMMA NickInvNext ==
    ASSUME Tables', Streams', Rest'
    PROVE  NickInv'
  BY DEF NickInv, Tables, Streams, Rest, TableType, TypeOK

\* Clients leave the tables of s.
LEMMA LeaveTables ==
    ASSUME Tables, NEW s \in Server, NEW X, ExitClients(s, X), used' = used, link' = link
    PROVE  Tables' /\ unregistered' \subseteq unregistered
  <1>1. Update(s, X, {}, NULL, 0)
    BY DEF ExitClients
  <1>2. \A u \in Uid : Known(s, u) => Behind(s, u)
    BY DEF Tables, KnownBehindLink, Behind
  <1>3. \A r \in Server, u \in Uid : Behind(r, u) => Behind(r, u)'
    BY DEF Behind
  <1> QED BY <1>1, <1>2, <1>3, UpdateKeeps

\* A client enters the tables of s or changes in them.
LEMMA EnterTables ==
    ASSUME Tables, NEW s \in Server, NEW X, NEW w \in used \ unregistered, NEW n \in Nick, NEW t \in Nat,
           Update(s, X, {w}, n, t), used' = used, link' = link, Behind(s, w),
           Holders(s, n) \subseteq X \cup {w}
    PROVE  Tables' /\ unregistered' \subseteq unregistered
  <1>1. w \in Uid
    BY DEF Tables, TableType
  <1>2. \A u \in Uid : Known(s, u) => Behind(s, u)
    BY DEF Tables, KnownBehindLink, Behind
  <1>3. \A r \in Server, u \in Uid : Behind(r, u) => Behind(r, u)'
    BY DEF Behind
  <1>4. \A u \in Uid : u \in {w} \/ (Known(s, u) /\ u \notin X) => Behind(s, u)'
    BY <1>1, <1>2, <1>3
  <1>5. {w} \in SUBSET (used \ unregistered) /\ \A u, z \in {w} : u = z
    OBVIOUS
  <1> QED BY <1>3, <1>4, <1>5, UpdateKeeps

\* A local client acts.
LEMMA LocalKeeps ==
    ASSUME NickInv, NEW s \in Server, NEW out, Send(s, out), Tables',
           used \ unregistered \subseteq used' \ unregistered',
           link' = link, left' \in [Event -> Nat],
           \A t \in Peers(s) : out[t] \in Seq(Sendable(s, t)')
    PROVE  NickInv'
  <1>1. Streams'
    BY SendStreams, NickInvParts
  <1> QED BY <1>1, NickInvNext, NickInvParts DEF Rest

\* The line that is parsed is a legal one and comes over a link that is up.
LEMMA LineLegal ==
    ASSUME NickInv, NEW s \in Server, NEW v, NEW types, Parses(s, v, types),
           "SERVER" \notin types, "CLOSE" \notin types
    PROVE  /\ v \in Peers(s) /\ v \in Server
           /\ link[<<s, v>>] = "up" /\ queue[<<v, s>>] # <<>>
           /\ Line(v, s) \in Legal(v, s)
           /\ Line(v, s).type \in types
  <1>1. v \in Peers(s) /\ v \in Server /\ queue[<<v, s>>] # <<>> /\ <<s, v>> \in Link
    BY LinkEnds DEF Parses
  <1>2. queue[<<v, s>>] \in Seq(Legal(v, s))
    BY <1>1 DEF NickInv, LegalQueues
  <1>3. Line(v, s) \in Legal(v, s)
    BY <1>1, <1>2, HeadTailProperties DEF Line
  <1>4. link[<<s, v>>] = "up"
    BY <1>1 DEF NickInv, Handshake, TypeOK, Parses
  <1> QED BY <1>1, <1>3, <1>4 DEF Parses, Line

\* s handles a line of v.
LEMMA HandlerKeeps ==
    ASSUME NickInv, NEW s \in Server, NEW v \in Peers(s), NEW out, Answer(v, s, out), Tables',
           unregistered' \subseteq unregistered, used' = used, link' = link, left' = left,
           link[<<s, v>>] = "up", queue[<<v, s>>] # <<>>,
           \A t \in Peers(s) : out[t] \in Seq(Sendable(s, t)')
    PROVE  NickInv'
  <1>1. Streams'
    BY AnswerStreams, NickInvParts
  <1> QED BY <1>1, NickInvNext, NickInvParts DEF Rest

-----------------------------------------------------------------------------
(* Local clients.                                                          *)

\* A local client is on s's side of every link.
LEMMA LocalIntroduced ==
    ASSUME NEW s \in Server, NEW t \in Peers(s), NEW u \in Uid, Home[u] = s,
           u \in used', u \notin unregistered'
    PROVE  u \in Introduced(s, t)'
  BY LinkEnds DEF Introduced

LEMMA SpendType ==
    ASSUME NickInv, NEW e \in Event, Spend(e)
    PROVE  left' \in [Event -> Nat]
  <1>1. left \in [Event -> Nat] /\ left[e] \in Nat /\ left[e] - 1 \in Nat
    BY DEF NickInv, TypeOK, Spend
  <1> QED BY <1>1 DEF Spend

LEMMA MrNickKeeps ==
    ASSUME NickInv, NEW u \in Uid, NEW n \in Nick, NEW t \in Nat, MrNick(u, n, t)
    PROVE  NickInv'
  <1> DEFINE s == Home[u]
  <1>1. s \in Server
    BY ClientAssumption
  <1>2. /\ \A r \in Server, w \in Uid : nick'[r][w] = IF r = s /\ w = u THEN n ELSE nick[r][w]
        /\ TableType'
    BY <1>1 DEF NickInv, TypeOK, TableType, MrNick
  <1>3. \A r \in Server : Known(r, u) => r = s
    BY DEF NickInv, UsersUsed, UnregisteredLocal, MrNick
  <1>4. NickUnique'
    <2> SUFFICES ASSUME NEW r \in Server, NEW w \in Uid, NEW z \in Uid,
                        nick'[r][w] = nick'[r][z], nick'[r][w] # NULL
                 PROVE  w = z
      BY DEF NickUnique, Known
    <2>1. CASE r = s
      BY <1>1, <1>2, <2>1 DEF NickInv, NickUnique, Known, MrNick, Holders
    <2>2. CASE r # s
      BY <1>2, <2>2 DEF NickInv, NickUnique, Known
    <2> QED BY <2>1, <2>2
  <1>5. KnownBehindLink'
    BY <1>2 DEF NickInv, KnownBehindLink, Known, MrNick
  <1>6. UnregisteredLocal' /\ UsersUsed'
    BY <1>1, <1>2, <1>3, ClientAssumption DEF NickInv, UnregisteredLocal, UsersUsed, Known, MrNick
  <1>7. used \ unregistered = used' \ unregistered'
    BY DEF MrNick, NickInv, UnregisteredLocal
  <1>8. Streams'
    <2>1. \A r, w : Legal(r, w)' = Legal(r, w)
      BY <1>7 DEF Legal, Introduced, MrNick
    <2>2. queue' = queue /\ link' = link
      BY DEF MrNick
    <2> QED BY <2>1, <2>2 DEF NickInv, Streams, TypeOK, LegalQueues, Handshake
  <1> QED BY <1>2, <1>4, <1>5, <1>6, <1>8, NickInvNext DEF Tables, Rest, NickInv, TypeOK, MrNick

LEMMA RegisterLocalUserKeeps ==
    ASSUME NickInv, NEW u \in Uid, RegisterLocalUser(u)
    PROVE  NickInv'
  <1> DEFINE s == Home[u]
             out == ToServers(s, {}, <<UidMsg(u, nick[s][u], tsinfo[s][u])>>)
  <1>1. s \in Server
    BY ClientAssumption
  <1>2. nick[s][u] \in Nick /\ tsinfo[s][u] \in Nat /\ u \in used
    BY <1>1 DEF NickInv, TypeOK, UnregisteredLocal, Known, RegisterLocalUser
  <1>3. Tables'
    BY DEF NickInv, TypeOK, Tables, TableType, NickUnique, KnownBehindLink, UnregisteredLocal,
           UsersUsed, Known, RegisterLocalUser
  <1>4. ASSUME NEW t \in Peers(s) PROVE out[t] \in Seq(Sendable(s, t)')
    <2>1. u \in Introduced(s, t)' /\ t \in Server
      BY <1>1, <1>2, LocalIntroduced, LinkEnds DEF RegisterLocalUser
    <2>2. UidMsg(u, nick[s][u], tsinfo[s][u]) \in Sendable(s, t)'
      BY <1>1, <1>2, <2>1, AboutSendable
    <2> QED BY <1>1, <2>2, ShortSeq, ToServersOut
  <1>5. /\ used \ unregistered \subseteq used' \ unregistered'
        /\ link' = link /\ left' \in [Event -> Nat] /\ Send(s, out)
    BY DEF RegisterLocalUser, NickInv, TypeOK
  <1> QED BY <1>1, <1>3, <1>4, <1>5, LocalKeeps

LEMMA ChangeLocalNickKeeps ==
    ASSUME NickInv, NEW u \in Uid, NEW n \in Nick, NEW t \in Nat, ChangeLocalNick(u, n, t)
    PROVE  NickInv'
  <1> DEFINE s == Home[u]
             out == ToServers(s, {}, <<NickMsg(u, n, t)>>)
  <1>1. s \in Server
    BY ClientAssumption
  <1>2. u \in used \ unregistered
    BY <1>1 DEF NickInv, UsersUsed, Persons, ChangeLocalNick
  <1>3. Tables' /\ unregistered' \subseteq unregistered
    BY <1>1, <1>2, EnterTables, NickInvParts DEF Behind, ChangeLocalNick
  <1>4. ASSUME NEW r \in Peers(s) PROVE out[r] \in Seq(Sendable(s, r)')
    <2>1. u \in Introduced(s, r)' /\ r \in Server
      BY <1>1, <1>2, <1>3, LocalIntroduced, LinkEnds DEF ChangeLocalNick
    <2>2. NickMsg(u, n, t) \in Sendable(s, r)'
      BY <1>1, <2>1, AboutSendable
    <2> QED BY <1>1, <2>2, ShortSeq, ToServersOut
  <1>5. link' = link /\ left' \in [Event -> Nat] /\ used' = used /\ Send(s, out)
    BY SpendType DEF Event, ChangeLocalNick
  <1> QED BY <1>1, <1>3, <1>4, <1>5, LocalKeeps

LEMMA ExitLocalKeeps ==
    ASSUME NickInv, NEW u \in Uid, Known(Home[u], u), ExitLocal(u),
           used' = used, link' = link, left' \in [Event -> Nat]
    PROVE  NickInv'
  <1> DEFINE s == Home[u]
             ms == IF u \in unregistered THEN <<>> ELSE <<QuitMsg(u)>>
             out == ToServers(s, {}, ms)
  <1>1. s \in Server /\ ExitClients(s, {u}) /\ Send(s, out)
    BY ClientAssumption DEF ExitLocal
  <1>2. Tables' /\ unregistered' \subseteq unregistered
    BY <1>1, LeaveTables, NickInvParts
  <1>3. ASSUME NEW r \in Peers(s) PROVE out[r] \in Seq(Sendable(s, r)')
    <2>1. CASE u \in unregistered
      BY <1>1, <2>1, ToServersOut, EmptySeq
    <2>2. CASE u \notin unregistered
      <3>1. u \in Introduced(s, r)' /\ r \in Server
        BY <1>1, <1>2, <2>2, LocalIntroduced, LinkEnds DEF NickInv, UsersUsed
      <3>2. QuitMsg(u) \in Sendable(s, r)'
        BY <1>1, <3>1, AboutSendable
      <3> QED BY <1>1, <2>2, <3>2, ShortSeq, ToServersOut
    <2> QED BY <2>1, <2>2
  <1> QED BY <1>1, <1>2, <1>3, LocalKeeps

LEMMA QuitKeeps ==
    ASSUME NickInv, NEW u \in Uid, Quit(u)
    PROVE  NickInv'
  BY ExitLocalKeeps, SpendType DEF Event, Quit

LEMMA MoKillKeeps ==
    ASSUME NickInv, NEW o \in Uid, NEW u \in Uid, MoKill(o, u)
    PROVE  NickInv'
  <1> DEFINE s == Home[o]
             out == ToServers(s, {}, <<KillBy(o, u)>>)
  <1>1. s \in Server
    BY ClientAssumption
  <1>2. link' = link /\ left' \in [Event -> Nat] /\ used' = used /\ Known(s, u)
    BY SpendType DEF Event, MoKill
  <1>3. CASE Home[u] = s /\ ExitLocal(u)
    BY <1>2, <1>3, ExitLocalKeeps
  <1>4. CASE ExitClients(s, {u}) /\ Send(s, out)
    <2>1. Tables' /\ unregistered' \subseteq unregistered
      BY <1>1, <1>2, <1>4, LeaveTables, NickInvParts
    <2>2. ASSUME NEW r \in Peers(s) PROVE out[r] \in Seq(Sendable(s, r)')
      <3>1. KillBy(o, u) \in Sendable(s, r)'
        BY <1>1, KillSendable, LinkEnds
      <3> QED BY <1>1, <3>1, ShortSeq, ToServersOut
    <2> QED BY <1>1, <1>2, <1>4, <2>1, <2>2, LocalKeeps
  <1> QED BY <1>3, <1>4 DEF MoKill

-----------------------------------------------------------------------------
(* Lines from a neighbour.                                                 *)

\* What the fields of a legal line are.
LEMMA FieldTypes ==
    ASSUME NEW s \in Server, NEW v \in Server, NEW m \in Legal(v, s)
    PROVE  /\ m.type \in {"UID", "NICK"} => m.nick \in Nick /\ m.ts \in Nat
           /\ m.type \in {"UID", "NICK", "QUIT"} => m.uid \in Uid /\ m.uid \in Introduced(v, s)
           /\ m.type = "KILL" => m.uid \in Uid
  BY DEF Legal, Message

\* A client a neighbour introduced is behind the link to it.
LEMMA IntroducedBehind ==
    ASSUME NEW s \in Server, NEW v \in Peers(s), NEW u \in Introduced(v, s), link[<<s, v>>] = "up"
    PROVE  u \in used \ unregistered /\ Behind(s, u)
  BY DEF Introduced, Behind

\* Who contests a nick is the one client that has it.
LEMMA ContestedOne ==
    ASSUME Tables, NEW s \in Server, NEW w, NEW n \in Nick, NEW target \in Contested(s, w, n)
    PROVE  /\ Holders(s, n) = {target} /\ target \in Uid /\ target # w
           /\ target \notin unregistered /\ Known(s, target) /\ nick[s][target] = n
  BY ClientAssumption DEF Tables, NickUnique, Contested, Holders, Known

\* A line of v accepted as it is: its client enters the tables, in the place of X,
\* the line goes to the other peers, after the KILLs ks.
LEMMA AcceptKeeps ==
    ASSUME NickInv, NEW s \in Server, NEW v \in Peers(s), NEW X, NEW out,
           link[<<s, v>>] = "up", queue[<<v, s>>] # <<>>, Line(v, s) \in Legal(v, s),
           Line(v, s).type \in {"UID", "NICK"},
           Update(s, X, {Line(v, s).uid}, Line(v, s).nick, Line(v, s).ts),
           Holders(s, Line(v, s).nick) \subseteq X \cup {Line(v, s).uid},
           out = ToServers(s, {v}, <<Line(v, s)>>)
             \/ \E k \in Uid : out = ToServers(s, {v}, <<KillMsg(k), Line(v, s)>>),
           Answer(v, s, out), UNCHANGED <<used, link, left>>
    PROVE  NickInv'
  <1> DEFINE m == Line(v, s)
  <1>1. /\ m.uid \in Uid /\ m.nick \in Nick /\ m.ts \in Nat /\ v \in Server
        /\ m.uid \in used \ unregistered /\ Behind(s, m.uid)
    BY FieldTypes, IntroducedBehind, LinkEnds
  <1>2. Tables' /\ unregistered' \subseteq unregistered
    BY <1>1, EnterTables, NickInvParts
  <1>3. ASSUME NEW t \in Peers(s) PROVE out[t] \in Seq(Sendable(s, t)')
    <2>1. t # v => m \in Sendable(s, t)'
      BY <1>2, PassOn
    <2>2. \A k \in Uid : KillMsg(k) \in Sendable(s, t)'
      BY KillSendable, LinkEnds
    <2>3. t # v => /\ <<m>> \in Seq(Sendable(s, t)')
                   /\ \A k \in Uid : <<KillMsg(k), m>> \in Seq(Sendable(s, t)')
      BY <2>1, <2>2, ShortSeq
    <2> QED BY <2>3, ToServersOut
  <1> QED BY <1>1, <1>2, <1>3, HandlerKeeps

\* Clients leave the tables, KILLs of the server may go to anybody.
LEMMA KillsKeep ==
    ASSUME NickInv, NEW s \in Server, NEW v \in Peers(s), NEW X, NEW out,
           link[<<s, v>>] = "up", queue[<<v, s>>] # <<>>,
           ExitClients(s, X),
           \A t \in Peers(s) : out[t] \in Seq(Sendable(s, t)'),
           Answer(v, s, out), UNCHANGED <<used, link, left>>
    PROVE  NickInv'
  <1>1. Tables' /\ unregistered' \subseteq unregistered
    BY LeaveTables, NickInvParts
  <1> QED BY <1>1, HandlerKeeps

\* KILLs of the server may go to anybody.
LEMMA KillsOut ==
    ASSUME NEW s \in Server, NEW t \in Peers(s), NEW one, NEW v, NEW k \in Uid, NEW l \in Uid
    PROVE  /\ ToServers(s, one, <<KillMsg(k)>>)[t] \in Seq(Sendable(s, t)')
           /\ ToServers(s, one, <<KillMsg(k), KillMsg(l)>>)[t] \in Seq(Sendable(s, t)')
           /\ ToOne(s, v, <<KillMsg(k)>>)[t] \in Seq(Sendable(s, t)')
           /\ ToServers(s, one, <<>>)[t] \in Seq(Sendable(s, t)')
  <1>1. KillMsg(k) \in Sendable(s, t)' /\ KillMsg(l) \in Sendable(s, t)'
    BY KillSendable, LinkEnds
  <1>2. /\ <<KillMsg(k)>> \in Seq(Sendable(s, t)') /\ <<KillMsg(k), KillMsg(l)>> \in Seq(Sendable(s, t)')
        /\ <<>> \in Seq(Sendable(s, t)')
    BY <1>1, ShortSeq, EmptySeq
  <1> QED BY <1>2, ToServersOut, ToOneOut

\* The tables as they are: nobody leaves.
LEMMA NobodyLeaves ==
    ASSUME NickInv, UNCHANGED <<tables, used, link>>
    PROVE  Tables' /\ unregistered' \subseteq unregistered
  BY DEF NickInv, TypeOK, Tables, TableType, NickUnique, KnownBehindLink, UnregisteredLocal,
         UsersUsed, Known, tables

LEMMA UnknownPrefixKeeps ==
    ASSUME NickInv, NEW s \in Server, NEW v \in Server, UnknownPrefix(s, v)
    PROVE  NickInv'
  <1>1. v \in Peers(s) /\ link[<<s, v>>] = "up" /\ queue[<<v, s>>] # <<>>
    BY LineLegal DEF UnknownPrefix
  <1>2. PICK k \in Uid : Answer(v, s, ToOne(s, v, <<KillMsg(k)>>))
    BY DEF UnknownPrefix
  <1>3. \A t \in Peers(s) : ToOne(s, v, <<KillMsg(k)>>)[t] \in Seq(Sendable(s, t)')
    BY <1>1, KillsOut
  <1>4. Tables' /\ unregistered' \subseteq unregistered
    BY NobodyLeaves DEF UnknownPrefix
  <1> QED BY <1>1, <1>2, <1>3, <1>4, HandlerKeeps DEF UnknownPrefix

LEMMA UidAcceptedKeeps ==
    ASSUME NickInv, NEW s \in Server, NEW v \in Server, UidAccepted(s, v)
    PROVE  NickInv'
  <1>1. /\ v \in Peers(s) /\ link[<<s, v>>] = "up" /\ queue[<<v, s>>] # <<>>
        /\ Line(v, s) \in Legal(v, s) /\ Line(v, s).type \in {"UID", "NICK"}
    BY LineLegal DEF UidAccepted
  <1> QED BY <1>1, AcceptKeeps DEF UidAccepted

LEMMA NickAcceptedKeeps ==
    ASSUME NickInv, NEW s \in Server, NEW v \in Server, NickAccepted(s, v)
    PROVE  NickInv'
  <1>1. /\ v \in Peers(s) /\ link[<<s, v>>] = "up" /\ queue[<<v, s>>] # <<>>
        /\ Line(v, s) \in Legal(v, s) /\ Line(v, s).type \in {"UID", "NICK"}
    BY LineLegal DEF NickAccepted
  <1> QED BY <1>1, AcceptKeeps DEF NickAccepted

\* A win: the target leaves, the client of the line takes its nick.
LEMMA WinKeeps ==
    ASSUME NickInv, NEW s \in Server, NEW v \in Server, NEW types \in SUBSET {"UID", "NICK"},
           Parses(s, v, types),
           \E target \in Contested(s, Line(v, s).uid, Line(v, s).nick) :
             /\ Update(s, {target}, {Line(v, s).uid}, Line(v, s).nick, Line(v, s).ts)
             /\ Answer(v, s, ToServers(s, {v}, <<KillMsg(target), Line(v, s)>>)),
           UNCHANGED <<used, link, left>>
    PROVE  NickInv'
  <1>1. /\ v \in Peers(s) /\ link[<<s, v>>] = "up" /\ queue[<<v, s>>] # <<>>
        /\ Line(v, s) \in Legal(v, s) /\ Line(v, s).type \in {"UID", "NICK"}
    BY LineLegal
  <1>2. Line(v, s).nick \in Nick
    BY <1>1, FieldTypes
  <1>3. PICK target \in Contested(s, Line(v, s).uid, Line(v, s).nick) :
          /\ Update(s, {target}, {Line(v, s).uid}, Line(v, s).nick, Line(v, s).ts)
          /\ Answer(v, s, ToServers(s, {v}, <<KillMsg(target), Line(v, s)>>))
    OBVIOUS
  <1>4. Holders(s, Line(v, s).nick) = {target} /\ target \in Uid
    BY <1>2, <1>3, ContestedOne, NickInvParts
  <1> QED BY <1>1, <1>3, <1>4, AcceptKeeps

LEMMA UidWinsKeeps ==
    ASSUME NickInv, NEW s \in Server, NEW v \in Server, UidWins(s, v)
    PROVE  NickInv'
  BY WinKeeps DEF UidWins

LEMMA NickWinsKeeps ==
    ASSUME NickInv, NEW s \in Server, NEW v \in Server, NickWins(s, v)
    PROVE  NickInv'
  BY WinKeeps DEF NickWins

\* The two ends of a collision are clients.
LEMMA LineAndTarget ==
    ASSUME NickInv, NEW s \in Server, NEW v \in Server, NEW types \in SUBSET {"UID", "NICK"},
           Parses(s, v, types)
    PROVE  /\ v \in Peers(s) /\ link[<<s, v>>] = "up" /\ queue[<<v, s>>] # <<>>
           /\ Line(v, s).uid \in Uid
           /\ Contested(s, Line(v, s).uid, Line(v, s).nick) \subseteq Uid
  <1>1. /\ v \in Peers(s) /\ link[<<s, v>>] = "up" /\ queue[<<v, s>>] # <<>>
        /\ Line(v, s) \in Legal(v, s) /\ Line(v, s).type \in {"UID", "NICK"}
    BY LineLegal
  <1>2. Line(v, s).uid \in Uid
    BY <1>1, FieldTypes
  <1> QED BY <1>1, <1>2 DEF Contested, Holders

LEMMA UidBothKilledKeeps ==
    ASSUME NickInv, NEW s \in Server, NEW v \in Server, UidBothKilled(s, v)
    PROVE  NickInv'
  <1> DEFINE m == Line(v, s)
  <1>1. /\ v \in Peers(s) /\ link[<<s, v>>] = "up" /\ queue[<<v, s>>] # <<>> /\ m.uid \in Uid
        /\ Contested(s, m.uid, m.nick) \subseteq Uid
    BY LineAndTarget DEF UidBothKilled
  <1>2. PICK target \in Contested(s, m.uid, m.nick) :
          /\ ExitClients(s, {target})
          /\ Answer(v, s, Both(ToOne(s, v, <<KillMsg(m.uid)>>), ToServers(s, {}, <<KillMsg(target)>>)))
    BY DEF UidBothKilled
  <1> DEFINE out1 == ToOne(s, v, <<KillMsg(m.uid)>>)
             out2 == ToServers(s, {}, <<KillMsg(target)>>)
  <1>3. ASSUME NEW t \in Peers(s) PROVE Both(out1, out2)[t] \in Seq(Sendable(s, t)')
    <2>1. out1[t] \in Seq(Sendable(s, t)') /\ out2[t] \in Seq(Sendable(s, t)')
      BY <1>1, <1>2, KillsOut
    <2>2. Both(out1, out2)[t] = out1[t] \o out2[t]
      BY DEF Both, ToOne
    <2> QED BY <2>1, <2>2, ConcatProperties
  <1> HIDE DEF out1, out2
  <1>4. UNCHANGED <<used, link, left>>
    BY DEF UidBothKilled
  <1>5. Answer(v, s, Both(out1, out2))
    BY <1>2 DEF out1, out2
  <1> QED BY <1>1, <1>2, <1>3, <1>4, <1>5, KillsKeep

LEMMA UidRefusedKeeps ==
    ASSUME NickInv, NEW s \in Server, NEW v \in Server, UidRefused(s, v)
    PROVE  NickInv'
  <1> DEFINE m == Line(v, s)
  <1>1. v \in Peers(s) /\ link[<<s, v>>] = "up" /\ queue[<<v, s>>] # <<>> /\ m.uid \in Uid
    BY LineAndTarget DEF UidRefused
  <1>2. Tables' /\ unregistered' \subseteq unregistered
    BY NobodyLeaves DEF UidRefused
  <1>3. \A t \in Peers(s) : ToOne(s, v, <<KillMsg(m.uid)>>)[t] \in Seq(Sendable(s, t)')
    BY <1>1, KillsOut
  <1> QED BY <1>1, <1>2, <1>3, HandlerKeeps DEF UidRefused

LEMMA NickBothKilledKeeps ==
    ASSUME NickInv, NEW s \in Server, NEW v \in Server, NickBothKilled(s, v)
    PROVE  NickInv'
  <1> DEFINE m == Line(v, s)
  <1>1. /\ v \in Peers(s) /\ link[<<s, v>>] = "up" /\ queue[<<v, s>>] # <<>> /\ m.uid \in Uid
        /\ Contested(s, m.uid, m.nick) \subseteq Uid
    BY LineAndTarget DEF NickBothKilled
  <1>2. PICK target \in Contested(s, m.uid, m.nick) :
          /\ ExitClients(s, {m.uid, target})
          /\ Answer(v, s, ToServers(s, {}, <<KillMsg(m.uid), KillMsg(target)>>))
    BY DEF NickBothKilled
  <1>3. \A t \in Peers(s) : ToServers(s, {}, <<KillMsg(m.uid), KillMsg(target)>>)[t] \in Seq(Sendable(s, t)')
    BY <1>1, <1>2, KillsOut
  <1>4. UNCHANGED <<used, link, left>>
    BY DEF NickBothKilled
  <1> QED BY <1>1, <1>2, <1>3, <1>4, KillsKeep

LEMMA NickRefusedKeeps ==
    ASSUME NickInv, NEW s \in Server, NEW v \in Server, NickRefused(s, v)
    PROVE  NickInv'
  <1> DEFINE m == Line(v, s)
  <1>1. v \in Peers(s) /\ link[<<s, v>>] = "up" /\ queue[<<v, s>>] # <<>> /\ m.uid \in Uid
    BY LineAndTarget DEF NickRefused
  <1>2. \A t \in Peers(s) : ToServers(s, {v}, <<KillMsg(m.uid)>>)[t] \in Seq(Sendable(s, t)')
    BY <1>1, KillsOut
  <1> QED BY <1>1, <1>2, KillsKeep DEF NickRefused

\* Clients leave the tables and the line goes on to the other peers.
LEMMA RemovalKeeps ==
    ASSUME NickInv, NEW s \in Server, NEW v \in Server, NEW types \in SUBSET {"QUIT", "KILL", "SQUIT"},
           Parses(s, v, types), NEW X, ExitClients(s, X),
           Answer(v, s, ToServers(s, {v}, <<Line(v, s)>>)), UNCHANGED <<used, link, left>>
    PROVE  NickInv'
  <1> DEFINE m == Line(v, s)
  <1>1. /\ v \in Peers(s) /\ link[<<s, v>>] = "up" /\ queue[<<v, s>>] # <<>>
        /\ m \in Legal(v, s) /\ m.type # "CLOSE"
    BY LineLegal
  <1>2. Tables' /\ unregistered' \subseteq unregistered
    BY LeaveTables, NickInvParts
  <1>3. ASSUME NEW t \in Peers(s) PROVE ToServers(s, {v}, <<m>>)[t] \in Seq(Sendable(s, t)')
    <2>1. t # v => m \in Sendable(s, t)'
      BY <1>1, <1>2, PassOn
    <2> QED BY <2>1, ShortSeq, ToServersOut
  <1> QED BY <1>1, <1>2, <1>3, HandlerKeeps

LEMMA MsQuitKeeps ==
    ASSUME NickInv, NEW s \in Server, NEW v \in Server, MsQuit(s, v)
    PROVE  NickInv'
  BY RemovalKeeps DEF MsQuit

LEMMA MsKillKeeps ==
    ASSUME NickInv, NEW s \in Server, NEW v \in Server, MsKill(s, v)
    PROVE  NickInv'
  <1>1. CASE ExitClients(s, {Line(v, s).uid}) /\ Answer(v, s, ToServers(s, {v}, <<Line(v, s)>>))
    BY <1>1, RemovalKeeps DEF MsKill
  <1>2. CASE UNCHANGED tables /\ Answer(v, s, ToServers(s, {}, <<>>))
    <2>1. v \in Peers(s) /\ link[<<s, v>>] = "up" /\ queue[<<v, s>>] # <<>>
      BY LineLegal DEF MsKill
    <2>2. Tables' /\ unregistered' \subseteq unregistered
      BY <1>2, NobodyLeaves DEF MsKill
    <2>3. \A t \in Peers(s) : ToServers(s, {}, <<>>)[t] \in Seq(Sendable(s, t)')
      BY EmptySeq, ToServersOut
    <2> QED BY <1>2, <2>1, <2>2, <2>3, HandlerKeeps DEF MsKill
  <1> QED BY <1>1, <1>2 DEF MsKill

LEMMA MsSquitKeeps ==
    ASSUME NickInv, NEW s \in Server, NEW v \in Server, MsSquit(s, v)
    PROVE  NickInv'
  <1>0. Parses(s, v, {"SQUIT"})
    BY DEF MsSquit
  <1>1. Line(v, s).type \in {"SQUIT"} /\ Line(v, s) \in Legal(v, s)
    BY <1>0, LineLegal
  <1>2. Line(v, s) = SquitMsg(Line(v, s).server)
    <2>1. Line(v, s) \in [type : {"SQUIT"}, server : Server]
      BY <1>1 DEF Legal, Message
    <2> QED BY <2>1 DEF SquitMsg
  <1> QED BY <1>2, RemovalKeeps DEF MsSquit

-----------------------------------------------------------------------------
(* Links.                                                                  *)

\* The tables as they are, and no link less.
LEMMA TablesStay ==
    ASSUME NickInv, UNCHANGED tables, used' = used, \A l \in Link : link[l] = "up" => link'[l] = "up"
    PROVE  Tables'
  <1>1. nick' = nick /\ tsinfo' = tsinfo /\ unregistered' = unregistered
    BY DEF tables
  <1>2. TableType' /\ NickUnique' /\ UnregisteredLocal' /\ UsersUsed'
    BY <1>1 DEF NickInv, TypeOK, TableType, NickUnique, UnregisteredLocal, UsersUsed, Known
  <1>3. \A s \in Server : \A v \in Peers(s) : link[<<s, v>>] = "up" => link'[<<s, v>>] = "up"
    BY DEF Peers
  <1>4. KnownBehindLink'
    BY <1>1, <1>3 DEF NickInv, KnownBehindLink, Known
  <1> QED BY <1>2, <1>4 DEF Tables

\* A burst is a stream of introductions of clients not on the peer's side.
LEMMA BurstSendable ==
    ASSUME NickInv, NEW s \in Server, NEW v \in Peers(s), NEW burst \in Bursts(s, v),
           UNCHANGED <<used, unregistered>>
    PROVE  burst \in Seq(Sendable(s, v)')
  <1> DEFINE X == {u \in Persons(s) : Home[u] \notin Side[<<s, v>>]}
             N == Cardinality(X)
  <1>1. N \in Nat
    <2>1. IsFiniteSet(X)
      BY FS_Subset, ClientAssumption DEF Persons
    <2> QED BY <2>1, FS_CardinalityType
  <1>2. PICK f \in [1..N -> X] :
          burst = [i \in DOMAIN f |-> UidMsg(f[i], nick[s][f[i]], tsinfo[s][f[i]])]
    BY DEF Bursts, Bijection, Injection
  <1>3. ASSUME NEW u \in X PROVE UidMsg(u, nick[s][u], tsinfo[s][u]) \in Sendable(s, v)'
    <2>1. u \in Uid /\ u \in used' /\ u \notin unregistered' /\ Known(s, u)
      BY DEF Persons, NickInv, UsersUsed
    <2>2. nick[s][u] \in Nick /\ tsinfo[s][u] \in Nat
      BY <2>1 DEF Known, NickInv, TypeOK
    <2>3. Home[u] \in Side[<<v, s>>]
      <3>1. CASE Home[u] = s
        BY <3>1, LinkEnds
      <3>2. CASE Home[u] # s
        <4>1. PICK t \in Peers(s) : Home[u] \in Side[<<s, t>>]
          BY <2>1, <3>2 DEF NickInv, KnownBehindLink
        <4> QED BY <4>1, LinkEnds
      <3> QED BY <3>1, <3>2
    <2>4. u \in Introduced(s, v)' /\ v \in Server
      BY <2>1, <2>3, LinkEnds DEF Introduced
    <2> QED BY <2>1, <2>2, <2>4, AboutSendable
  <1> HIDE DEF X, N
  <1>4. /\ burst = [i \in 1..N |-> burst[i]]
        /\ \A i \in 1..N : burst[i] \in Sendable(s, v)'
    BY <1>2, <1>3
  <1> QED BY <1>1, <1>4

LEMMA ConnectKeeps ==
    ASSUME NickInv, NEW s \in Server, NEW v \in Server, Connect(s, v)
    PROVE  NickInv'
  <1>1. /\ v \in Peers(s) /\ s \in Peers(v) /\ <<s, v>> \in Link /\ <<v, s>> \in Link /\ s # v
        /\ UNCHANGED <<tables, used, unregistered>>
    BY LinkEnds DEF Connect, Peers, tables
  <1>2. PICK burst \in Bursts(v, s) : queue' = [queue EXCEPT ![<<v, s>>] = <<ServerMsg>> \o burst]
    BY DEF Connect
  <1>3. burst \in Seq(Sendable(v, s)')
    BY <1>1, <1>2, BurstSendable
  <1>4. /\ link' \in [Link -> {"down", "connecting", "up"}]
        /\ link'[<<s, v>>] = "connecting" /\ link'[<<v, s>>] = "up"
        /\ \A l \in Link \ {<<s, v>>, <<v, s>>} : link'[l] = link[l]
        /\ \A l \in Link : link[l] = "up" => link'[l] = "up"
    BY <1>1 DEF Connect, NickInv, TypeOK
  <1>5. Tables'
    BY <1>1, <1>4, TablesStay
  <1>6. ASSUME NEW r \in Server, NEW w \in Peers(r)
        PROVE  /\ queue'[<<w, r>>] \in Seq(Legal(w, r)')
               /\ link'[<<r, w>>] = "connecting" =>
                    queue'[<<w, r>>] # <<>> /\ Head(queue'[<<w, r>>]).type \in {"SERVER", "CLOSE"}
    <2>1. <<w, r>> \in Link /\ <<r, w>> \in Link /\ w \in Server
      BY LinkEnds
    <2>2. CASE <<w, r>> = <<v, s>>
      <3>1. ServerMsg \in Sendable(v, s)' /\ Sendable(v, s)' \subseteq Legal(v, s)'
        BY DEF ServerMsg, Sendable, Message, Legal
      <3>2. <<ServerMsg>> \in Seq(Sendable(v, s)') /\ <<ServerMsg>> # <<>> /\ Head(<<ServerMsg>>) = ServerMsg
        BY <3>1, ShortSeq
      <3>3. queue'[<<v, s>>] = <<ServerMsg>> \o burst
        BY <1>1, <1>2 DEF NickInv, TypeOK
      <3>4. queue'[<<v, s>>] \in Seq(Sendable(v, s)') /\ queue'[<<v, s>>] # <<>>
            /\ Head(queue'[<<v, s>>]) = ServerMsg
        BY <1>3, <3>2, <3>3, ConcatProperties, HeadOfConcat
      <3>5. queue'[<<v, s>>] \in Seq(Legal(v, s)')
        BY <3>1, <3>4, SeqMonotonic
      <3> QED BY <2>2, <3>4, <3>5 DEF ServerMsg
    <2>3. CASE <<w, r>> = <<s, v>>
      <3>1. queue'[<<w, r>>] = <<>>
        BY <1>1, <1>2, <2>3 DEF Connect, NickInv, TypeOK
      <3> QED BY <1>4, <2>3, <3>1, EmptySeq
    <2>4. CASE <<w, r>> # <<v, s>> /\ <<w, r>> # <<s, v>>
      <3>1. queue'[<<w, r>>] = queue[<<w, r>>] /\ link'[<<r, w>>] = link[<<r, w>>]
            /\ link'[<<w, r>>] = link[<<w, r>>]
        BY <1>2, <1>4, <2>1, <2>4 DEF NickInv, TypeOK
      <3>2. queue[<<w, r>>] \in Seq(Legal(w, r)) /\ Legal(w, r) \subseteq Legal(w, r)'
        BY <1>1, <2>1, <3>1, LegalGrows DEF NickInv, LegalQueues
      <3>3. queue[<<w, r>>] \in Seq(Legal(w, r)')
        BY <3>2, SeqMonotonic
      <3> QED BY <3>1, <3>3 DEF NickInv, Handshake
    <2> QED BY <2>2, <2>3, <2>4
  <1>7. queue' = [l \in Link |-> queue'[l]]
    BY <1>2 DEF NickInv, TypeOK
  <1>8. Streams'
    BY <1>6, <1>7, StreamsByPair
  <1> QED BY <1>4, <1>5, <1>8, NickInvNext DEF Rest, NickInv, TypeOK, Connect

LEMMA ServerEstabKeeps ==
    ASSUME NickInv, NEW s \in Server, NEW v \in Server, ServerEstab(s, v)
    PROVE  NickInv'
  <1>1. /\ v \in Peers(s) /\ <<s, v>> \in Link /\ queue[<<v, s>>] # <<>> /\ link[<<s, v>>] # "down"
        /\ UNCHANGED <<tables, used, unregistered, left>>
    BY LinkEnds DEF ServerEstab, Parses, tables
  <1>2. PICK burst \in Bursts(s, v) : Answer(v, s, ToOne(s, v, burst))
    BY DEF ServerEstab
  <1>3. \A t \in Peers(s) : ToOne(s, v, burst)[t] \in Seq(Sendable(s, t)')
    BY <1>1, <1>2, BurstSendable, ToOneOut
  <1>4. /\ link' \in [Link -> {"down", "connecting", "up"}]
        /\ link'[<<s, v>>] = "up"
        /\ \A l \in Link \ {<<s, v>>} : link'[l] = link[l]
    BY <1>1 DEF ServerEstab, NickInv, TypeOK
  <1>5. Tables'
    BY <1>1, <1>4, TablesStay
  <1>6. Streams'
    BY <1>1, <1>2, <1>3, <1>4, AnswerStreams, NickInvParts
  <1> QED BY <1>1, <1>4, <1>5, <1>6, NickInvNext DEF Rest, NickInv, TypeOK

\* s drops its neighbour v; what is left of the stream to v is legal.
LEMMA DropLinkKeeps ==
    ASSUME NickInv, NEW s \in Server, NEW v \in Peers(s), NEW toV, DropLink(s, v, toV),
           used' = used, left' \in [Event -> Nat],
           toV \in Seq(Legal(s, v)'),
           link[<<v, s>>] = "connecting" => toV # <<>> /\ Head(toV).type \in {"SERVER", "CLOSE"}
    PROVE  NickInv'
  <1> DEFINE X == IF link[<<s, v>>] = "up" THEN Dependents(s, v) ELSE {}
  <1>1. /\ v \in Server /\ <<s, v>> \in Link /\ <<v, s>> \in Link /\ s # v
        /\ Side[<<s, v>>] \subseteq Beyond(s, v)
    BY LinkEnds
  <1>2. /\ link' \in [Link -> {"down", "connecting", "up"}]
        /\ link'[<<s, v>>] = "down"
        /\ \A l \in Link \ {<<s, v>>} : link'[l] = link[l]
    BY <1>1 DEF DropLink, NickInv, TypeOK
  <1>3. Update(s, X, {}, NULL, 0)
    BY DEF DropLink, ExitClients
  <1>4. \A r \in Server \ {s}, u \in Uid : Behind(r, u) => Behind(r, u)'
    BY <1>2 DEF Behind, Peers
  <1>5. ASSUME NEW u \in Uid, Known(s, u), u \notin X PROVE Behind(s, u)'
    <2>1. Behind(s, u)
      BY <1>5 DEF NickInv, KnownBehindLink, Behind
    <2>2. ~(link[<<s, v>>] = "up" /\ Home[u] \in Side[<<s, v>>])
      BY <1>1, <1>5 DEF Dependents
    <2> QED BY <1>2, <2>1, <2>2 DEF Behind, Peers
  <1> HIDE DEF X
  <1>6. Tables' /\ unregistered' \subseteq unregistered
    <2>1. \A u \in Uid : u \in {} \/ (Known(s, u) /\ u \notin X) => Behind(s, u)'
      BY <1>5
    <2>2. Tables /\ {} \in SUBSET (used \ unregistered)
      BY NickInvParts
    <2> QED BY <1>3, <1>4, <2>1, <2>2, UpdateKeeps
  <1>7. ASSUME NEW r \in Server, NEW w \in Peers(r)
        PROVE  /\ queue'[<<w, r>>] \in Seq(Legal(w, r)')
               /\ link'[<<r, w>>] = "connecting" =>
                    queue'[<<w, r>>] # <<>> /\ Head(queue'[<<w, r>>]).type \in {"SERVER", "CLOSE"}
    <2>1. <<w, r>> \in Link /\ <<r, w>> \in Link /\ w \in Server
      BY LinkEnds
    <2>2. /\ link[<<w, r>>] = "down" => link'[<<w, r>>] = "down"
          /\ link'[<<r, w>>] = "connecting" => link[<<r, w>>] = "connecting"
      BY <1>2, <2>1
    <2>3. CASE <<w, r>> = <<v, s>>
      <3>1. queue'[<<w, r>>] = <<>>
        BY <2>1, <2>3 DEF DropLink
      <3> QED BY <1>2, <2>3, <3>1, EmptySeq
    <2>4. CASE <<w, r>> = <<s, v>>
      <3>1. queue'[<<w, r>>] = toV
        BY <1>1, <2>1, <2>4 DEF DropLink
      <3> QED BY <2>2, <2>4, <3>1
    <2>5. CASE <<w, r>> # <<v, s>> /\ <<w, r>> # <<s, v>>
      <3>1. queue[<<w, r>>] \in Seq(Message)
        BY <2>1 DEF NickInv, TypeOK
      <3>2. SquitMsg(v) \in Message /\ SquitMsg(v) \in Sendable(w, r)'
        BY <1>1 DEF SquitMsg, Message, Sendable
      <3>3. \/ queue'[<<w, r>>] = queue[<<w, r>>]
            \/ queue'[<<w, r>>] = Append(queue[<<w, r>>], SquitMsg(v))
        BY <2>1, <2>5 DEF DropLink
      <3>4. PICK more \in {<<>>, <<SquitMsg(v)>>} : queue'[<<w, r>>] = queue[<<w, r>>] \o more
        BY <3>1, <3>2, <3>3, AppendIsConcat, ConcatEmptySeq
      <3>5. more \in Seq(Sendable(w, r)')
        BY <3>2, <3>4, ShortSeq, EmptySeq
      <3> QED BY <1>6, <2>2, <3>4, <3>5, StreamGrows, NickInvParts
    <2> QED BY <2>3, <2>4, <2>5
  <1>8. queue' = [l \in Link |-> queue'[l]]
    BY DEF DropLink
  <1>9. Streams'
    BY <1>7, <1>8, StreamsByPair
  <1> QED BY <1>2, <1>6, <1>9, NickInvNext DEF Rest

LEMMA BreakKeeps ==
    ASSUME NickInv, NEW s \in Server, NEW v \in Server, Break(s, v)
    PROVE  NickInv'
  <1>1. /\ v \in Peers(s) /\ s \in Peers(v) /\ <<s, v>> \in Link /\ <<v, s>> \in Link
        /\ used' = used /\ left' \in [Event -> Nat]
    BY LinkEnds, SpendType DEF Break, Peers, Event
  <1> DEFINE q == queue[<<s, v>>]
  <1>2. CASE link[<<v, s>>] = "down" /\ DropLink(s, v, <<>>)
    BY <1>1, <1>2, EmptySeq, DropLinkKeeps
  <1>3. ASSUME NEW k \in 0..Len(q), DropLink(s, v, Append(SubSeq(q, 1, k), CloseMsg))
        PROVE  NickInv'
    <2> DEFINE toV == Append(SubSeq(q, 1, k), CloseMsg)
    <2>1. q \in Seq(Legal(s, v)) /\ Len(q) \in Nat
      BY <1>1, LenProperties DEF NickInv, LegalQueues
    <2>2. \A i \in 1..k : q[i] \in Legal(s, v)
      BY <2>1, ElementOfSeq
    <2>3. /\ SubSeq(q, 1, k) \in Seq(Legal(s, v)) /\ Len(SubSeq(q, 1, k)) = k
          /\ k > 0 => SubSeq(q, 1, k)[1] = q[1]
      <3>1. 1 \in Int /\ k \in Int
        BY <2>1
      <3>2. /\ SubSeq(q, 1, k) \in Seq(Legal(s, v))
            /\ Len(SubSeq(q, 1, k)) = IF 1 <= k THEN k - 1 + 1 ELSE 0
            /\ \A i \in 1..(k - 1 + 1) : SubSeq(q, 1, k)[i] = q[1 + i - 1]
        BY <2>2, <3>1, SubSeqProperties
      <3>3. k > 0 => SubSeq(q, 1, k)[1] = q[1 + 1 - 1]
        BY <2>1, <3>2
      <3> QED BY <2>1, <3>2, <3>3
    <2>4. link'[<<s, v>>] = "down" /\ unregistered' \subseteq unregistered
      BY <1>1, <1>3 DEF DropLink, ExitClients, Update, NickInv, TypeOK
    <2>5. Legal(s, v) \subseteq Legal(s, v)' /\ CloseMsg \in Legal(s, v)'
      BY <1>1, <2>4, LegalGrows DEF CloseMsg, Legal, Message
    <2>6. SubSeq(q, 1, k) \in Seq(Legal(s, v)')
      BY <2>3, <2>5, SeqMonotonic
    <2>7. /\ toV \in Seq(Legal(s, v)') /\ toV # <<>> /\ Len(toV) = k + 1 /\ toV[k + 1] = CloseMsg
          /\ k > 0 => toV[1] = q[1]
      <3> DEFINE pre == SubSeq(q, 1, k)
      <3>1. k \in Nat
        BY <2>1
      <3>2. pre \in Seq(Legal(s, v)') /\ Len(pre) = k /\ (k > 0 => pre[1] = q[1])
        BY <2>3, <2>6
      <3> HIDE DEF pre
      <3>3. /\ Append(pre, CloseMsg) \in Seq(Legal(s, v)') /\ Append(pre, CloseMsg) # <<>>
            /\ Len(Append(pre, CloseMsg)) = Len(pre) + 1
            /\ \A i \in 1..Len(pre) : Append(pre, CloseMsg)[i] = pre[i]
            /\ Append(pre, CloseMsg)[Len(pre) + 1] = CloseMsg
        BY <2>5, <3>2, AppendProperties
      <3>4. k > 0 => Append(pre, CloseMsg)[1] = q[1]
        BY <3>1, <3>2, <3>3
      <3> QED BY <3>2, <3>3, <3>4 DEF pre
    <2>8. Head(toV) = toV[1]
      BY <2>7
    <2>9. link[<<v, s>>] = "connecting" => Head(toV).type \in {"SERVER", "CLOSE"}
      <3>1. CASE k = 0
        BY <2>7, <2>8, <3>1 DEF CloseMsg
      <3>2. CASE k > 0
        BY <1>1, <2>1, <2>7, <2>8, <3>2 DEF NickInv, Handshake
      <3> QED BY <2>1, <3>1, <3>2
    <2> QED BY <1>1, <1>3, <2>7, <2>9, DropLinkKeeps
  <1> QED BY <1>2, <1>3 DEF Break

LEMMA ReadCloseKeeps ==
    ASSUME NickInv, NEW s \in Server, NEW v \in Server, ReadClose(s, v)
    PROVE  NickInv'
  <1>1. /\ v \in Peers(s) /\ queue[<<v, s>>] # <<>> /\ Line(v, s).type = "CLOSE"
        /\ DropLink(s, v, <<>>) /\ UNCHANGED <<used, left>>
    BY DEF ReadClose, Parses, Line
  <1>2. Line(v, s) \in Legal(v, s)
    BY <1>1, HeadTailProperties DEF NickInv, LegalQueues, Line
  <1>3. link[<<v, s>>] = "down"
    BY <1>1, <1>2 DEF Legal
  <1> QED BY <1>1, <1>3, EmptySeq, DropLinkKeeps DEF NickInv, TypeOK

-----------------------------------------------------------------------------
(* The theorems.                                                           *)

LEMMA InitKeeps == Init => NickInv
  <1> SUFFICES ASSUME Init PROVE NickInv
    OBVIOUS
  <1>1. TypeOK
    BY BoundAssumption, EmptySeq DEF Init, TypeOK, Event
  <1>2. \A s \in Server, u \in Uid : ~Known(s, u)
    BY DEF Init, Known
  <1>3. NickUnique /\ KnownBehindLink /\ UnregisteredLocal /\ UsersUsed
    BY <1>2 DEF NickUnique, KnownBehindLink, UnregisteredLocal, UsersUsed, Init
  <1>4. LegalQueues /\ Handshake
    BY LinkEnds, EmptySeq DEF Init, LegalQueues, Handshake
  <1> QED BY <1>1, <1>3, <1>4 DEF NickInv

LEMMA LocalStepKeeps ==
    ASSUME NickInv, Local
    PROVE  NickInv'
  <1>1. ASSUME NEW u \in Uid, NEW n \in Nick, NEW t \in Clock[u], MrNick(u, n, t) \/ ChangeLocalNick(u, n, t)
        PROVE  NickInv'
    <2>1. t \in Nat
      BY ClientAssumption
    <2> QED BY <1>1, <2>1, MrNickKeeps, ChangeLocalNickKeeps
  <1>2. ASSUME NEW u \in Uid, RegisterLocalUser(u) \/ Quit(u) PROVE NickInv'
    BY <1>2, RegisterLocalUserKeeps, QuitKeeps
  <1>3. ASSUME NEW o \in Uid, NEW u \in Uid, MoKill(o, u) PROVE NickInv'
    BY <1>3, MoKillKeeps
  <1> QED BY <1>1, <1>2, <1>3 DEF Local

LEMMA ReceiveKeeps ==
    ASSUME NickInv, NEW s \in Server, NEW v \in Server, Receive(s, v)
    PROVE  NickInv'
  BY UnknownPrefixKeeps, UidAcceptedKeeps, UidBothKilledKeeps, UidRefusedKeeps, UidWinsKeeps,
     NickAcceptedKeeps, NickBothKilledKeeps, NickRefusedKeeps, NickWinsKeeps,
     MsQuitKeeps, MsKillKeeps, MsSquitKeeps, ServerEstabKeeps, ReadCloseKeeps DEF Receive

LEMMA StepKeeps == NickInv /\ [Next]_vars => NickInv'
  <1> SUFFICES ASSUME NickInv, [Next]_vars PROVE NickInv'
    OBVIOUS
  <1>1. CASE Next
    BY <1>1, LocalStepKeeps, ReceiveKeeps, ConnectKeeps, BreakKeeps DEF Next
  <1>2. CASE UNCHANGED vars
    <2>1. Tables'
      BY <1>2, NobodyLeaves DEF vars, tables
    <2>2. \A r, w : Legal(r, w)' = Legal(r, w)
      BY <1>2 DEF vars, tables, Legal, Introduced
    <2>3. Streams' /\ Rest'
      BY <1>2, <2>2 DEF vars, NickInv, TypeOK, Streams, LegalQueues, Handshake, Rest
    <2> QED BY <2>1, <2>3, NickInvNext
  <1> QED BY <1>1, <1>2

\* NickInv holds at every moment (all the handlers of NickTS).
THEOREM NickCorrect == Spec => []NickInv
  <1> QED BY InitKeeps, StepKeeps, PTL DEF Spec

\* A server never has a nick twice (perform_nick_collides, m_nick, mr_nick).
THEOREM NicksAreUnique == Spec => []NickUnique
  <1>1. NickInv => NickUnique
    BY DEF NickInv
  <1> QED BY <1>1, NickCorrect, PTL

\* Nobody is known of but behind a link that is up (recurse_remove_clients).
THEOREM NobodyBehindSplit == Spec => []KnownBehindLink
  <1>1. NickInv => KnownBehindLink
    BY DEF NickInv
  <1> QED BY <1>1, NickCorrect, PTL

\* The variables have their types.
THEOREM TypeCorrect == Spec => []TypeOK
  <1>1. NickInv => TypeOK
    BY DEF NickInv
  <1> QED BY <1>1, NickCorrect, PTL

-----------------------------------------------------------------------------
(* Who may take a nick.                                                    *)

ByTS == \A s \in Server : \A old, new \in Uid : PassesByTS(s, old, new)

\* Whoever takes a nick that was somebody's is the one the handler let in.
LEMMA TakerEnters ==
    ASSUME NickInv, NEW s \in Server, NEW X, NEW Y, NEW n, NEW t, Update(s, X, Y, n, t),
           NEW r \in Server, NEW old \in Uid, NEW new \in Uid,
           Known(r, old), nick'[r][new] = nick[r][old], new # old
    PROVE  r = s /\ new \in Y /\ nick[s][old] = n /\ tsinfo'[s][new] = t
  <1>1. nick[r][new] # nick[r][old] /\ nick[r][old] # NULL
    BY DEF NickInv, NickUnique, Known
  <1>2. \A q \in Server, u \in Uid :
          nick'[q][u] = IF q # s THEN nick[q][u]
                        ELSE IF u \in Y THEN n ELSE IF u \in X THEN NULL ELSE nick[q][u]
    BY DEF Update, NickInv, TypeOK
  <1>3. \A u \in Uid : u \in Y => tsinfo'[s][u] = t
    BY DEF Update, NickInv, TypeOK
  <1> QED BY <1>1, <1>2, <1>3

LEMMA QuietByTS ==
    ASSUME NickInv, nick' = nick
    PROVE  ByTS
  BY DEF ByTS, PassesByTS, NickInv, NickUnique, Known

LEMMA LeaveByTS ==
    ASSUME NickInv, NEW s \in Server, NEW X, ExitClients(s, X)
    PROVE  ByTS
  BY TakerEnters DEF ExitClients, ByTS, PassesByTS

LEMMA AcceptByTS ==
    ASSUME NickInv, NEW s \in Server, NEW X, NEW w, NEW n, NEW t,
           Update(s, X, {w}, n, t), Contested(s, w, n) = {}
    PROVE  ByTS
  <1> SUFFICES ASSUME NEW r \in Server, NEW old \in Uid, NEW new \in Uid,
                      Known(r, old), old \notin unregistered, nick'[r][new] = nick[r][old], new # old
               PROVE  FALSE
    BY DEF ByTS, PassesByTS
  <1>1. r = s /\ new = w /\ nick[s][old] = n
    BY TakerEnters
  <1> QED BY <1>1 DEF Contested, Holders

LEMMA WinByTS ==
    ASSUME NickInv, NEW s \in Server, NEW X, NEW w, NEW n, NEW t \in Nat,
           NEW target \in Contested(s, w, n), ~SameTS(t, tsinfo[s][target]), ~Loses(s, w, t, target),
           Update(s, X, {w}, n, t)
    PROVE  ByTS
  <1> SUFFICES ASSUME NEW r \in Server, NEW old \in Uid, NEW new \in Uid,
                      Known(r, old), old \notin unregistered, nick'[r][new] = nick[r][old], new # old
               PROVE  IF Host[old] = Host[new] THEN tsinfo'[r][new] > tsinfo[r][old]
                                               ELSE tsinfo'[r][new] < tsinfo[r][old]
    BY DEF ByTS, PassesByTS
  <1>1. r = s /\ new = w /\ nick[s][old] = n /\ tsinfo'[s][new] = t
    BY TakerEnters
  <1>2. target \in Uid /\ nick[s][target] = n
    BY DEF Contested, Holders
  <1>3. old = target
    BY <1>1, <1>2 DEF NickInv, NickUnique, Known
  <1>4. tsinfo[s][old] \in Nat
    BY DEF NickInv, TypeOK
  <1> QED BY <1>1, <1>3, <1>4 DEF SameTS, Loses

LEMMA MrNickByTS ==
    ASSUME NickInv, NEW u \in Uid, NEW n \in Nick, NEW t \in Nat, MrNick(u, n, t)
    PROVE  ByTS
  <1> SUFFICES ASSUME NEW r \in Server, NEW old \in Uid, NEW new \in Uid,
                      Known(r, old), nick'[r][new] = nick[r][old], new # old
               PROVE  FALSE
    BY DEF ByTS, PassesByTS
  <1>1. nick'[r][new] = IF r = Home[u] /\ new = u THEN n ELSE nick[r][new]
    BY ClientAssumption DEF MrNick, NickInv, TypeOK
  <1>2. nick[r][new] # nick[r][old]
    BY DEF NickInv, NickUnique, Known
  <1> QED BY <1>1, <1>2 DEF MrNick, Holders

LEMMA LineWinsByTS ==
    ASSUME NickInv, NEW s \in Server, NEW v \in Server, UidWins(s, v) \/ NickWins(s, v)
    PROVE  ByTS
  <1>1. PICK types \in SUBSET {"UID", "NICK"} : Parses(s, v, types)
    BY DEF UidWins, NickWins
  <1>2. Line(v, s).ts \in Nat
    BY <1>1, LineLegal, FieldTypes
  <1> QED BY <1>2, WinByTS DEF UidWins, NickWins

LEMMA ReceiveByTS ==
    ASSUME NickInv, NEW s \in Server, NEW v \in Server, Receive(s, v)
    PROVE  ByTS
  <1>1. ASSUME UidAccepted(s, v) \/ NickAccepted(s, v) PROVE ByTS
    BY <1>1, AcceptByTS DEF UidAccepted, NickAccepted
  <1>2. ASSUME UnknownPrefix(s, v) \/ UidRefused(s, v) \/ ServerEstab(s, v) PROVE ByTS
    BY <1>2, QuietByTS DEF UnknownPrefix, UidRefused, ServerEstab, tables
  <1>3. ASSUME UidBothKilled(s, v) \/ NickBothKilled(s, v) \/ NickRefused(s, v) PROVE ByTS
    BY <1>3, LeaveByTS DEF UidBothKilled, NickBothKilled, NickRefused
  <1>4. ASSUME MsQuit(s, v) \/ MsSquit(s, v) \/ ReadClose(s, v) PROVE ByTS
    BY <1>4, LeaveByTS DEF MsQuit, MsSquit, ReadClose, DropLink
  <1>5. ASSUME MsKill(s, v) PROVE ByTS
    BY <1>5, LeaveByTS, QuietByTS DEF MsKill, tables
  <1> QED BY <1>1, <1>2, <1>3, <1>4, <1>5, LineWinsByTS DEF Receive

LEMMA LocalByTS ==
    ASSUME NickInv, Local
    PROVE  ByTS
  <1>1. ASSUME NEW u \in Uid, NEW n \in Nick, NEW t \in Clock[u], MrNick(u, n, t) \/ ChangeLocalNick(u, n, t)
        PROVE  ByTS
    <2>1. t \in Nat /\ Home[u] \in Server
      BY ClientAssumption
    <2> QED BY <1>1, <2>1, MrNickByTS, AcceptByTS DEF ChangeLocalNick
  <1>2. ASSUME NEW u \in Uid, ExitLocal(u) PROVE ByTS
    BY <1>2, LeaveByTS, ClientAssumption DEF ExitLocal
  <1>3. ASSUME NEW u \in Uid, RegisterLocalUser(u) \/ Quit(u) PROVE ByTS
    BY <1>2, <1>3, QuietByTS DEF RegisterLocalUser, Quit
  <1>4. ASSUME NEW o \in Uid, NEW u \in Uid, MoKill(o, u) PROVE ByTS
    BY <1>2, <1>4, LeaveByTS, ClientAssumption DEF MoKill
  <1> QED BY <1>1, <1>3, <1>4 DEF Local

\* A nick passes on by the TS rules alone (perform_nick_collides).
THEOREM OlderWins == Spec => OlderKeepsNick
  <1>1. NickInv /\ [Next]_vars => [ByTS]_vars
    <2> SUFFICES ASSUME NickInv, Next PROVE ByTS
      OBVIOUS
    <2>1. ASSUME NEW s \in Server, NEW v \in Server, Connect(s, v) PROVE ByTS
      BY <2>1, QuietByTS DEF Connect, tables
    <2>2. ASSUME NEW s \in Server, NEW v \in Server, Break(s, v) PROVE ByTS
      BY <2>2, LeaveByTS DEF Break, DropLink
    <2> QED BY <2>1, <2>2, LocalByTS, ReceiveByTS DEF Next
  <1> QED BY <1>1, NickCorrect, PTL DEF Spec, OlderKeepsNick, ByTS

-----------------------------------------------------------------------------
(* The life of a UID on one stream: known, gone, introduced again.         *)

Introduces(m, u) == m.type = "UID" /\ m.uid = u

\* Removals that cannot fail: of a KILL or QUIT nobody knows what becomes.
SureRemoval(m, s, u) ==
    \/ m.type = "CLOSE"
    \/ m.type = "SQUIT" /\ Home[u] \in Beyond(s, m.server)

\* Moment 0 is now, before s parses the stream q; the last is what its sender may
\* do next.  k: u has a place at s already; e: the sender has told s of u.
Moment(q, k, e, u, i) ==
    IF i = 0 THEN k ELSE IF i = Len(q) + 1 THEN ~e ELSE Introduces(q[i], u)

Cleared(q, s, u, h, i) == \E j \in DOMAIN q : h < j /\ j < i /\ SureRemoval(q[j], s, u)

\* Whenever u enters, it has left since it last did.
Timeline(q, k, e, s, u) ==
    \A h, i \in 0..(Len(q) + 1) :
      h < i /\ Moment(q, k, e, u, h) /\ Moment(q, k, e, u, i) => Cleared(q, s, u, h, i)

LEMMA TimelineWeaker ==
    ASSUME NEW q \in Seq(Message), NEW k, NEW e, NEW k2, NEW e2, NEW s, NEW u,
           Timeline(q, k, e, s, u), k2 => k, e => e2
    PROVE  Timeline(q, k2, e2, s, u)
  BY LenProperties DEF Timeline, Moment

LEMMA TimelineEmpty ==
    ASSUME NEW k, NEW e, NEW s, NEW u, k => e
    PROVE  Timeline(<<>>, k, e, s, u)
  BY DEF Timeline, Moment

\* At most one line of r introduces u, which s was not told of before and is then;
\* whom s was told of and is no more, r removes.
Continues(r, e, e2, s, u) ==
    /\ \A i, j \in DOMAIN r : Introduces(r[i], u) /\ Introduces(r[j], u) => i = j
    /\ (\E i \in DOMAIN r : Introduces(r[i], u)) => ~e /\ e2
    /\ e /\ ~e2 => \E j \in DOMAIN r : SureRemoval(r[j], s, u)

\* The sender goes on with r.
LEMMA TimelineContinues ==
    ASSUME NEW q \in Seq(Message), NEW r \in Seq(Message), NEW k, NEW e, NEW e2, NEW s, NEW u,
           Timeline(q, k, e, s, u), Continues(r, e, e2, s, u)
    PROVE  Timeline(q \o r, k, e2, s, u)
  <1> DEFINE p == q \o r
             n == Len(q)
  <1>1. /\ n \in Nat /\ Len(r) \in Nat /\ DOMAIN q = 1..n /\ DOMAIN r = 1..Len(r)
        /\ p \in Seq(Message) /\ Len(p) = n + Len(r)
        /\ \A i \in 1..n : p[i] = q[i]
        /\ \A i \in 1..Len(r) : p[n + i] = r[i]
        /\ DOMAIN p = 1..(n + Len(r))
    BY ConcatProperties, LenProperties
  <1> HIDE DEF p, n
  <1> SUFFICES ASSUME NEW h \in 0..(Len(p) + 1), NEW i \in 0..(Len(p) + 1), h < i,
                      Moment(p, k, e2, u, h), Moment(p, k, e2, u, i)
               PROVE  Cleared(p, s, u, h, i)
    BY DEF Timeline, p
  <1>2. ASSUME NEW a \in 0..n, NEW b \in 1..(n + 1), a < b,
               Moment(q, k, e, u, a), Moment(q, k, e, u, b)
        PROVE  \E j \in 1..n : a < j /\ j < b /\ SureRemoval(q[j], s, u)
    <2>1. a \in 0..(Len(q) + 1) /\ b \in 0..(Len(q) + 1)
      BY <1>1 DEF n
    <2>2. Cleared(q, s, u, a, b)
      BY <1>2, <2>1 DEF Timeline
    <2> QED BY <1>1, <2>2 DEF Cleared
  <1>3. ASSUME h \in 0..n PROVE Moment(q, k, e, u, h)
    BY <1>1, <1>3 DEF Moment, n
  <1>4. ASSUME h \in 0..n, ~e
        PROVE  \E j \in 1..n : h < j /\ SureRemoval(q[j], s, u)
    <2>1. Moment(q, k, e, u, n + 1)
      BY <1>1, <1>4 DEF Moment, n
    <2> QED BY <1>1, <1>2, <1>3, <1>4, <2>1
  <1>5. CASE i \in 1..n
    <2>1. Moment(q, k, e, u, i) /\ h \in 0..n
      BY <1>1, <1>5 DEF Moment, n
    <2>2. PICK j \in 1..n : h < j /\ j < i /\ SureRemoval(q[j], s, u)
      BY <1>1, <1>2, <1>3, <1>5, <2>1
    <2>3. j \in DOMAIN p /\ p[j] = q[j]
      BY <1>1
    <2> QED BY <2>2, <2>3 DEF Cleared
  <1>6. CASE i \in (n + 1)..(n + Len(r))
    <2>1. i - n \in DOMAIN r /\ i = n + (i - n) /\ Introduces(r[i - n], u)
      BY <1>1, <1>6 DEF Moment
    <2>2. ~e /\ e2
      BY <2>1 DEF Continues
    <2>3. h \in 0..n
      <3> SUFFICES ASSUME h \in (n + 1)..(n + Len(r)) PROVE FALSE
        BY <1>1, <1>6
      <3>1. h - n \in DOMAIN r /\ h = n + (h - n) /\ Introduces(r[h - n], u)
        BY <1>1, <1>6 DEF Moment
      <3>2. h - n = i - n
        BY <2>1, <3>1 DEF Continues
      <3> QED BY <1>1, <3>2
    <2>4. PICK j \in 1..n : h < j /\ SureRemoval(q[j], s, u)
      BY <1>4, <2>2, <2>3
    <2>5. j \in DOMAIN p /\ p[j] = q[j] /\ j < i
      BY <1>1, <1>6
    <2> QED BY <2>4, <2>5 DEF Cleared
  <1>7. CASE i = n + Len(r) + 1
    <2>1. ~e2
      BY <1>1, <1>7 DEF Moment
    <2>2. h \in 0..n
      <3> SUFFICES ASSUME h \in (n + 1)..(n + Len(r)) PROVE FALSE
        BY <1>1, <1>7
      <3>1. h - n \in DOMAIN r /\ h = n + (h - n) /\ Introduces(r[h - n], u)
        BY <1>1, <1>7 DEF Moment
      <3> QED BY <2>1, <3>1 DEF Continues
    <2>3. CASE e
      <3>1. PICK j \in DOMAIN r : SureRemoval(r[j], s, u)
        BY <2>1, <2>3 DEF Continues
      <3>2. n + j \in DOMAIN p /\ p[n + j] = r[j] /\ h < n + j /\ n + j < i
        BY <1>1, <1>7, <2>2, <3>1
      <3> QED BY <3>1, <3>2 DEF Cleared
    <2>4. CASE ~e
      <3>1. PICK j \in 1..n : h < j /\ SureRemoval(q[j], s, u)
        BY <1>4, <2>2, <2>4
      <3>2. j \in DOMAIN p /\ p[j] = q[j] /\ j < i
        BY <1>1, <1>7
      <3> QED BY <3>1, <3>2 DEF Cleared
    <2> QED BY <2>3, <2>4
  <1>8. i \in 1..n \/ i \in (n + 1)..(n + Len(r)) \/ i = n + Len(r) + 1
    <2>1. n \in Nat /\ Len(r) \in Nat /\ Len(p) = n + Len(r)
      BY <1>1
    <2>2. i \in 1..(n + Len(r) + 1)
      BY <2>1
    <2> QED BY <2>1, <2>2
  <1> QED BY <1>5, <1>6, <1>7, <1>8

\* s parses the head.
LEMMA TimelinePops ==
    ASSUME NEW q \in Seq(Message), q # <<>>, NEW k, NEW k2, NEW e, NEW s, NEW u,
           Timeline(q, k, e, s, u),
           k2 => Introduces(Head(q), u) \/ (k /\ ~SureRemoval(Head(q), s, u))
    PROVE  Timeline(Tail(q), k2, e, s, u)
  <1> DEFINE p == Tail(q)
             n == Len(p)
  <1>1. /\ n \in Nat /\ Len(q) = n + 1 /\ DOMAIN q = 1..(n + 1) /\ DOMAIN p = 1..n
        /\ \A i \in 1..n : p[i] = q[i + 1]
        /\ Head(q) = q[1] /\ p \in Seq(Message)
    BY HeadTailProperties, LenProperties, EmptySeq
  <1> HIDE DEF p, n
  <1> SUFFICES ASSUME NEW h \in 0..(n + 1), NEW i \in 0..(n + 1), h < i,
                      Moment(p, k2, e, u, h), Moment(p, k2, e, u, i)
               PROVE  Cleared(p, s, u, h, i)
    BY DEF Timeline, p, n
  <1>2. Moment(q, k, e, u, i + 1)
    BY <1>1 DEF Moment, n
  <1>3. ASSUME NEW a \in 0..(n + 1), a < i + 1, Moment(q, k, e, u, a), a = 0 => ~SureRemoval(q[1], s, u),
               a # 0 => a = h + 1, a = 0 => h = 0
        PROVE  Cleared(p, s, u, h, i)
    <2>1. Cleared(q, s, u, a, i + 1)
      BY <1>1, <1>2, <1>3 DEF Timeline
    <2>2. PICK j \in 1..(n + 1) : a < j /\ j < i + 1 /\ SureRemoval(q[j], s, u)
      BY <1>1, <2>1 DEF Cleared
    <2>3. j - 1 \in 1..n /\ h < j - 1 /\ j - 1 < i /\ q[j] = p[j - 1]
      <3>1. j # 1
        BY <1>1, <1>3, <2>2
      <3>2. j - 1 \in 1..n /\ j = (j - 1) + 1
        BY <1>1, <3>1
      <3> QED BY <1>1, <1>3, <2>2, <3>2
    <2> QED BY <1>1, <2>2, <2>3 DEF Cleared
  <1>4. CASE h # 0
    <2>1. Moment(q, k, e, u, h + 1)
      BY <1>1, <1>4 DEF Moment, n
    <2> QED BY <1>1, <1>3, <1>4, <2>1
  <1>5. CASE h = 0
    <2>1. k2
      BY <1>5 DEF Moment
    <2>2. CASE Introduces(Head(q), u)
      <3>1. Moment(q, k, e, u, 1)
        BY <1>1, <2>2 DEF Moment
      <3> QED BY <1>1, <1>3, <1>5, <3>1
    <2>3. CASE k /\ ~SureRemoval(Head(q), s, u)
      <3>1. Moment(q, k, e, u, 0)
        BY <2>3 DEF Moment
      <3>2. ~SureRemoval(q[1], s, u) /\ 0 \in 0..(n + 1) /\ 0 < i + 1
        BY <1>1, <2>3
      <3> QED BY <1>3, <1>5, <3>1, <3>2
    <2> QED BY <2>1, <2>2, <2>3
  <1> QED BY <1>4, <1>5

\* Whom the head introduces has no place at s.
LEMMA HeadIsFresh ==
    ASSUME NEW q \in Seq(Message), q # <<>>, NEW k, NEW e, NEW s, NEW u,
           Timeline(q, k, e, s, u), Introduces(Head(q), u)
    PROVE  ~k
  <1>1. Len(q) \in Nat /\ Len(q) > 0 /\ Head(q) = q[1]
    BY EmptySeq, LenProperties, HeadTailProperties
  <1>2. k => Moment(q, k, e, u, 0) /\ Moment(q, k, e, u, 1)
    BY <1>1 DEF Moment
  <1>3. k => Cleared(q, s, u, 0, 1)
    <2>1. 0 \in 0..(Len(q) + 1) /\ 1 \in 0..(Len(q) + 1) /\ 0 < 1
      BY <1>1
    <2> QED BY <1>2, <2>1 DEF Timeline
  <1>4. DOMAIN q = 1..Len(q)
    BY LenProperties
  <1> QED BY <1>3, <1>4 DEF Cleared

\* A stream that is cut keeps its first n lines, and ends with CLOSE.
LEMMA CutStream ==
    ASSUME NEW q \in Seq(Message), NEW n \in 0..Len(q)
    PROVE  /\ Append(SubSeq(q, 1, n), CloseMsg) \in Seq(Message)
           /\ DOMAIN Append(SubSeq(q, 1, n), CloseMsg) = 1..(n + 1)
           /\ Len(Append(SubSeq(q, 1, n), CloseMsg)) = n + 1
           /\ \A i \in 1..n : Append(SubSeq(q, 1, n), CloseMsg)[i] = q[i]
           /\ Append(SubSeq(q, 1, n), CloseMsg)[n + 1] = CloseMsg
  <1> DEFINE pre == SubSeq(q, 1, n)
  <1>1. Len(q) \in Nat /\ DOMAIN q = 1..Len(q)
    BY LenProperties
  <1>2. pre \in Seq(Message) /\ Len(pre) = n /\ \A i \in 1..n : pre[i] = q[i]
    <2>1. 1 \in Int /\ n \in Int /\ \A i \in 1..n : q[i] \in Message
      BY <1>1, ElementOfSeq
    <2>2. /\ SubSeq(q, 1, n) \in Seq(Message)
          /\ Len(SubSeq(q, 1, n)) = IF 1 <= n THEN n - 1 + 1 ELSE 0
          /\ \A i \in 1..(n - 1 + 1) : SubSeq(q, 1, n)[i] = q[1 + i - 1]
      BY <2>1, SubSeqProperties
    <2> QED BY <1>1, <2>2
  <1>3. CloseMsg \in Message
    BY DEF CloseMsg, Message
  <1> HIDE DEF pre
  <1>4. /\ Append(pre, CloseMsg) \in Seq(Message)
        /\ Len(Append(pre, CloseMsg)) = n + 1 /\ Append(pre, CloseMsg)[n + 1] = CloseMsg
        /\ \A i \in 1..n : Append(pre, CloseMsg)[i] = q[i]
    BY <1>2, <1>3, AppendProperties
  <1>5. DOMAIN Append(pre, CloseMsg) = 1..(n + 1)
    BY <1>4, LenProperties
  <1> QED BY <1>4, <1>5 DEF pre

\* The stream is cut.
LEMMA TimelineCut ==
    ASSUME NEW q \in Seq(Message), NEW n \in 0..Len(q), NEW k, NEW e, NEW e2, NEW s, NEW u,
           Timeline(q, k, e, s, u)
    PROVE  Timeline(Append(SubSeq(q, 1, n), CloseMsg), k, e2, s, u)
  <1> DEFINE p == Append(SubSeq(q, 1, n), CloseMsg)
  <1>0. Len(q) \in Nat /\ DOMAIN q = 1..Len(q)
    BY LenProperties
  <1>3. /\ p \in Seq(Message) /\ Len(p) = n + 1 /\ p[n + 1] = CloseMsg
        /\ \A i \in 1..n : p[i] = q[i]
        /\ DOMAIN p = 1..(n + 1)
    BY CutStream
  <1> HIDE DEF p
  <1>4. ~Introduces(CloseMsg, u) /\ SureRemoval(CloseMsg, s, u)
    BY DEF CloseMsg, Introduces, SureRemoval
  <1> SUFFICES ASSUME NEW h \in 0..(n + 2), NEW i \in 0..(n + 2), h < i,
                      Moment(p, k, e2, u, h), Moment(p, k, e2, u, i)
               PROVE  Cleared(p, s, u, h, i)
    BY <1>3 DEF Timeline, p
  <1>5. h \in 0..n
    BY <1>0, <1>3, <1>4 DEF Moment
  <1>6. CASE i = n + 2
    BY <1>0, <1>3, <1>4, <1>5, <1>6 DEF Cleared
  <1>7. CASE i \in 1..n
    <2>1. Moment(q, k, e, u, h) /\ Moment(q, k, e, u, i)
      BY <1>0, <1>3, <1>5, <1>7 DEF Moment
    <2>2. Cleared(q, s, u, h, i)
      BY <1>0, <1>5, <1>7, <2>1 DEF Timeline
    <2> QED BY <1>0, <1>3, <1>7, <2>2 DEF Cleared
  <1> QED BY <1>0, <1>3, <1>4, <1>6, <1>7 DEF Moment

-----------------------------------------------------------------------------
(* Whom a server has been told of.                                         *)

\* What its other peers may have from s of u: s knows it, or told them of it and
\* has not told them that it left.
Had(told, s, v, u) == Known(s, u) \/ \E t \in Peers(s) \ {v} : u \in told[<<s, t>>]

ToldTypes(told) ==
    /\ told \in [Link -> SUBSET Uid]
    /\ \A l \in Link :
         /\ told[l] \subseteq used \ unregistered
         /\ link[l] # "up" => told[l] = {}

\* The stream from v to s, about u behind it.
ToldPair(told, s, v, u) ==
    /\ Timeline(queue[<<v, s>>], Had(told, s, v, u), u \in told[<<v, s>>], s, u)
    /\ Had(told, s, v, u) => link[<<s, v>>] = "up"

ToldOK(told) ==
    /\ ToldTypes(told)
    /\ \A s \in Server : \A v \in Peers(s) : \A u \in Uid :
         Home[u] \in Side[<<s, v>>] => ToldPair(told, s, v, u)

\* SERVER is the first line of its stream, and s waits for it.
ServerOnce ==
    \A s \in Server : \A v \in Peers(s) : \A i \in DOMAIN queue[<<v, s>>] :
      queue[<<v, s>>][i].type = "SERVER" => i = 1 /\ link[<<s, v>>] # "up"

IdInv == ServerOnce /\ \E told \in [Link -> SUBSET Uid] : ToldOK(told)

\* A step of s concerns its own tables and streams alone.
LEMMA ServerStep ==
    ASSUME TypeOK', NEW told, NEW told2, ToldOK(told), ToldTypes(told2)', NEW s \in Server,
           \A l \in Link : l[1] # s => told2[l] = told[l] /\ (link[l] = "up" => link'[l] = "up"),
           \A r \in Server \ {s}, u \in Uid : Known(r, u)' => Known(r, u),
           \A l \in Link : l[1] # s /\ l[2] # s => queue'[l] = queue[l],
           \A t \in Peers(s), u \in Uid : Home[u] \in Side[<<t, s>>] =>
             Timeline(queue'[<<s, t>>], Had(told, t, s, u), u \in told2[<<s, t>>], t, u),
           \A v \in Peers(s), u \in Uid : Home[u] \in Side[<<s, v>>] =>
             /\ Timeline(queue'[<<v, s>>], Had(told2, s, v, u)', u \in told[<<v, s>>], s, u)
             /\ Had(told2, s, v, u)' => link'[<<s, v>>] = "up"
    PROVE  ToldOK(told2)'
  <1> SUFFICES ASSUME NEW r \in Server, NEW w \in Peers(r), NEW u \in Uid, Home[u] \in Side[<<r, w>>]
               PROVE  ToldPair(told2, r, w, u)'
    BY DEF ToldOK, Peers
  <1>1. /\ w \in Server /\ <<w, r>> \in Link /\ <<r, w>> \in Link /\ r # w /\ r \in Peers(w)
        /\ queue'[<<w, r>>] \in Seq(Message)
    BY LinkEnds DEF TypeOK
  <1>2. CASE r = s
    <2>1. told2[<<w, s>>] = told[<<w, s>>]
      BY <1>1, <1>2
    <2>2. /\ Timeline(queue'[<<w, s>>], Had(told2, s, w, u)', u \in told[<<w, s>>], s, u)
          /\ Had(told2, s, w, u)' => link'[<<s, w>>] = "up"
      BY <1>2
    <2> QED BY <1>2, <2>1, <2>2 DEF ToldPair
  <1>3. CASE r # s
    <2>1. Had(told2, r, w, u)' => Had(told, r, w, u)
      <3>1. \A t \in Peers(r) : <<r, t>> \in Link /\ told2[<<r, t>>] = told[<<r, t>>]
        BY <1>3, LinkEnds
      <3> QED BY <1>3, <3>1 DEF Had, Peers
    <2>2. ToldPair(told, r, w, u)
      BY DEF ToldOK
    <2>3. Had(told2, r, w, u)' => link'[<<r, w>>] = "up"
      BY <1>1, <1>3, <2>1, <2>2 DEF ToldPair
    <2>4. Timeline(queue'[<<w, r>>], Had(told, r, w, u), u \in told2[<<w, r>>], r, u)
      <3>1. CASE w = s
        BY <1>1, <3>1
      <3>2. CASE w # s
        <4>1. queue'[<<w, r>>] = queue[<<w, r>>] /\ told2[<<w, r>>] = told[<<w, r>>]
          BY <1>1, <1>3, <3>2
        <4> QED BY <2>2, <4>1 DEF ToldPair
      <3> QED BY <3>1, <3>2
    <2>5. Timeline(queue'[<<w, r>>], Had(told2, r, w, u)', u \in told2[<<w, r>>], r, u)
      BY <1>1, <2>1, <2>4, TimelineWeaker
    <2> QED BY <2>3, <2>5 DEF ToldPair
  <1> QED BY <1>2, <1>3

\* What s sends continues the streams to its peers.
LEMMA OutContinues ==
    ASSUME TypeOK, NEW told, ToldOK(told), NEW told2, NEW s \in Server, NEW t \in Peers(s), NEW u \in Uid,
           Home[u] \in Side[<<t, s>>], NEW r \in Seq(Message),
           Continues(r, u \in told[<<s, t>>], u \in told2[<<s, t>>], t, u),
           queue'[<<s, t>>] = queue[<<s, t>>] \o r
    PROVE  Timeline(queue'[<<s, t>>], Had(told, t, s, u), u \in told2[<<s, t>>], t, u)
  <1>1. t \in Server /\ s \in Peers(t) /\ <<s, t>> \in Link
    BY LinkEnds
  <1>2. Timeline(queue[<<s, t>>], Had(told, t, s, u), u \in told[<<s, t>>], t, u)
    BY <1>1 DEF ToldOK, ToldPair
  <1>3. queue[<<s, t>>] \in Seq(Message)
    BY <1>1 DEF TypeOK
  <1> QED BY <1>2, <1>3, TimelineContinues

\* s sends something; nobody enters its tables.
LEMMA SendTold ==
    ASSUME TypeOK, TypeOK', NEW told, NEW told2, ToldOK(told), ToldTypes(told2)', NEW s \in Server, NEW out,
           Send(s, out), link' = link,
           \A l \in Link : l[1] # s => told2[l] = told[l],
           \A r \in Server \ {s}, u \in Uid : Known(r, u)' => Known(r, u),
           \A t \in Peers(s) : out[t] \in Seq(Message),
           \A t \in Peers(s), u \in Uid : Home[u] \in Side[<<t, s>>] =>
             Continues(out[t], u \in told[<<s, t>>], u \in told2[<<s, t>>], t, u),
           \A v \in Peers(s), u \in Uid : Home[u] \in Side[<<s, v>>] /\ Had(told2, s, v, u)' => Had(told, s, v, u)
    PROVE  ToldOK(told2)'
  <1>1. \A l \in Link : l[1] # s /\ l[2] # s => queue'[l] = queue[l]
    BY DEF Send
  <1>2. ASSUME NEW t \in Peers(s), NEW u \in Uid, Home[u] \in Side[<<t, s>>]
        PROVE  Timeline(queue'[<<s, t>>], Had(told, t, s, u), u \in told2[<<s, t>>], t, u)
    <2>1. queue'[<<s, t>>] = queue[<<s, t>>] \o out[t]
      BY LinkEnds DEF Send
    <2> QED BY <1>2, <2>1, OutContinues
  <1>3. ASSUME NEW v \in Peers(s), NEW u \in Uid, Home[u] \in Side[<<s, v>>]
        PROVE  /\ Timeline(queue'[<<v, s>>], Had(told2, s, v, u)', u \in told[<<v, s>>], s, u)
               /\ Had(told2, s, v, u)' => link'[<<s, v>>] = "up"
    <2>1. queue'[<<v, s>>] = queue[<<v, s>>] /\ queue[<<v, s>>] \in Seq(Message)
      BY LinkEnds DEF Send, TypeOK
    <2>2. ToldPair(told, s, v, u) /\ (Had(told2, s, v, u)' => Had(told, s, v, u))
      BY <1>3 DEF ToldOK
    <2> QED BY <2>1, <2>2, TimelineWeaker DEF ToldPair
  <1> QED BY <1>1, <1>2, <1>3, ServerStep

\* s parses a line of v and sends something.
LEMMA AnswerTold ==
    ASSUME TypeOK, TypeOK', NEW told, NEW told2, ToldOK(told), ToldTypes(told2)',
           NEW s \in Server, NEW v \in Peers(s), NEW out,
           queue[<<v, s>>] # <<>>, Answer(v, s, out), link'[<<s, v>>] = "up",
           \A l \in Link \ {<<s, v>>} : link'[l] = link[l],
           \A l \in Link : l[1] # s => told2[l] = told[l],
           \A r \in Server \ {s}, u \in Uid : Known(r, u)' => Known(r, u),
           \A t \in Peers(s) : out[t] \in Seq(Message),
           \A t \in Peers(s), u \in Uid : Home[u] \in Side[<<t, s>>] =>
             Continues(out[t], u \in told[<<s, t>>], u \in told2[<<s, t>>], t, u),
           \A u \in Uid : Home[u] \in Side[<<s, v>>] /\ Had(told2, s, v, u)' =>
             Introduces(Line(v, s), u) \/ (Had(told, s, v, u) /\ ~SureRemoval(Line(v, s), s, u)),
           \A w \in Peers(s) \ {v}, u \in Uid :
             Home[u] \in Side[<<s, w>>] /\ Had(told2, s, w, u)' => Had(told, s, w, u)
    PROVE  ToldOK(told2)'
  <1>1. /\ v \in Server /\ v # s
        /\ \A l \in Link : l[1] # s /\ l[2] # s => queue'[l] = queue[l]
    BY LinkEnds DEF Answer
  <1>2. ASSUME NEW t \in Peers(s), NEW u \in Uid, Home[u] \in Side[<<t, s>>]
        PROVE  Timeline(queue'[<<s, t>>], Had(told, t, s, u), u \in told2[<<s, t>>], t, u)
    <2>1. queue'[<<s, t>>] = queue[<<s, t>>] \o out[t]
      BY <1>1, LinkEnds DEF Answer
    <2> QED BY <1>2, <2>1, OutContinues
  <1>3. ASSUME NEW w \in Peers(s), NEW u \in Uid, Home[u] \in Side[<<s, w>>]
        PROVE  /\ Timeline(queue'[<<w, s>>], Had(told2, s, w, u)', u \in told[<<w, s>>], s, u)
               /\ Had(told2, s, w, u)' => link'[<<s, w>>] = "up"
    <2>1. ToldPair(told, s, w, u) /\ <<w, s>> \in Link /\ <<s, w>> \in Link /\ queue[<<w, s>>] \in Seq(Message)
      BY <1>3, LinkEnds DEF ToldOK, TypeOK
    <2>2. CASE w = v
      <3>1. queue'[<<v, s>>] = Tail(queue[<<v, s>>])
        BY <2>1, <2>2 DEF Answer
      <3>2. Timeline(queue[<<v, s>>], Had(told, s, v, u), u \in told[<<v, s>>], s, u)
        BY <2>1, <2>2 DEF ToldPair
      <3>3. Timeline(queue'[<<v, s>>], Had(told2, s, v, u)', u \in told[<<v, s>>], s, u)
        BY <1>3, <2>1, <2>2, <3>1, <3>2, TimelinePops DEF Line
      <3> QED BY <2>2, <3>3
    <2>3. CASE w # v
      <3>1. queue'[<<w, s>>] = queue[<<w, s>>] /\ link'[<<s, w>>] = link[<<s, w>>]
        BY <2>1, <2>3, LinkEnds DEF Answer
      <3>2. Had(told2, s, w, u)' => Had(told, s, w, u)
        BY <1>3, <2>3
      <3> QED BY <2>1, <3>1, <3>2, TimelineWeaker DEF ToldPair
    <2> QED BY <2>2, <2>3
  <1>4. \A l \in Link : l[1] # s => told2[l] = told[l] /\ (link[l] = "up" => link'[l] = "up")
    BY <1>1
  <1> QED BY <1>1, <1>2, <1>3, <1>4, ServerStep

\* Lines that are no SERVER keep ServerOnce.
LEMMA OnceAppended ==
    ASSUME TypeOK, NEW q \in Seq(Message), NEW r \in Seq(Message), NEW up,
           \A i \in DOMAIN q : q[i].type = "SERVER" => i = 1 /\ ~up,
           \A i \in DOMAIN r : r[i].type # "SERVER"
    PROVE  \A i \in DOMAIN (q \o r) : (q \o r)[i].type = "SERVER" => i = 1 /\ ~up
  <1>1. /\ Len(q) \in Nat /\ Len(r) \in Nat /\ DOMAIN q = 1..Len(q) /\ DOMAIN r = 1..Len(r)
        /\ q \o r \in Seq(Message) /\ Len(q \o r) = Len(q) + Len(r)
        /\ \A i \in 1..(Len(q) + Len(r)) : (q \o r)[i] = IF i <= Len(q) THEN q[i] ELSE r[i - Len(q)]
    BY ConcatProperties, LenProperties
  <1> SUFFICES ASSUME NEW i \in DOMAIN (q \o r), (q \o r)[i].type = "SERVER" PROVE i = 1 /\ ~up
    OBVIOUS
  <1>2. i \in 1..(Len(q) + Len(r))
    BY <1>1, LenProperties
  <1>3. CASE i <= Len(q)
    BY <1>1, <1>2, <1>3
  <1>4. CASE ~(i <= Len(q))
    <2>1. i - Len(q) \in DOMAIN r /\ (q \o r)[i] = r[i - Len(q)]
      BY <1>1, <1>2, <1>4
    <2> QED BY <2>1
  <1> QED BY <1>3, <1>4

LEMMA SendOnce ==
    ASSUME TypeOK, ServerOnce, NEW s \in Server, NEW out, Send(s, out), link' = link,
           \A t \in Peers(s) : out[t] \in Seq(Message) /\ \A i \in DOMAIN out[t] : out[t][i].type # "SERVER"
    PROVE  ServerOnce'
  <1> SUFFICES ASSUME NEW r \in Server, NEW w \in Peers(r)
               PROVE  \A i \in DOMAIN queue'[<<w, r>>] :
                        queue'[<<w, r>>][i].type = "SERVER" => i = 1 /\ link'[<<r, w>>] # "up"
    BY DEF ServerOnce, Peers
  <1>1. <<w, r>> \in Link /\ r \in Peers(w) /\ queue[<<w, r>>] \in Seq(Message)
    <2>1. <<w, r>> \in Link /\ r \in Peers(w)
      BY LinkEnds
    <2> QED BY <2>1 DEF TypeOK
  <1>2. \A i \in DOMAIN queue[<<w, r>>] :
          queue[<<w, r>>][i].type = "SERVER" => i = 1 /\ ~(link[<<r, w>>] = "up")
    BY DEF ServerOnce
  <1>3. CASE w = s
    <2>1. queue'[<<w, r>>] = queue[<<w, r>>] \o out[r]
      BY <1>1, <1>3 DEF Send
    <2> QED BY <1>1, <1>2, <1>3, <2>1, OnceAppended
  <1>4. CASE w # s
    <2>1. queue'[<<w, r>>] = queue[<<w, r>>]
      BY <1>1, <1>4 DEF Send
    <2> QED BY <1>2, <2>1
  <1> QED BY <1>3, <1>4

LEMMA AnswerOnce ==
    ASSUME TypeOK, ServerOnce, NEW s \in Server, NEW v \in Peers(s), NEW out, Answer(v, s, out),
           queue[<<v, s>>] # <<>>, \A l \in Link \ {<<s, v>>} : link'[l] = link[l],
           \A t \in Peers(s) : out[t] \in Seq(Message) /\ \A i \in DOMAIN out[t] : out[t][i].type # "SERVER"
    PROVE  ServerOnce'
  <1> SUFFICES ASSUME NEW r \in Server, NEW w \in Peers(r)
               PROVE  \A i \in DOMAIN queue'[<<w, r>>] :
                        queue'[<<w, r>>][i].type = "SERVER" => i = 1 /\ link'[<<r, w>>] # "up"
    BY DEF ServerOnce, Peers
  <1>1. /\ <<w, r>> \in Link /\ <<r, w>> \in Link /\ r \in Peers(w) /\ queue[<<w, r>>] \in Seq(Message)
        /\ v # s
    BY LinkEnds DEF TypeOK
  <1>2. \A i \in DOMAIN queue[<<w, r>>] :
          queue[<<w, r>>][i].type = "SERVER" => i = 1 /\ ~(link[<<r, w>>] = "up")
    BY DEF ServerOnce
  <1>3. CASE <<w, r>> = <<v, s>>
    <2>1. queue'[<<v, s>>] = Tail(queue[<<v, s>>])
      BY <1>1, <1>3 DEF Answer
    <2> DEFINE q == queue[<<v, s>>]
    <2>2. /\ Len(q) \in Nat /\ DOMAIN q = 1..Len(q) /\ DOMAIN Tail(q) = 1..(Len(q) - 1)
          /\ \A i \in 1..(Len(q) - 1) : Tail(q)[i] = q[i + 1]
      BY <1>1, <1>3, HeadTailProperties, LenProperties
    <2>3. \A i \in DOMAIN Tail(q) : i + 1 \in DOMAIN q /\ i + 1 # 1
      BY <2>2
    <2>4. \A i \in DOMAIN q : q[i].type = "SERVER" => i = 1
      BY <1>2, <1>3
    <2> HIDE DEF q
    <2>5. \A i \in DOMAIN Tail(q) : Tail(q)[i].type # "SERVER"
      BY <2>2, <2>3, <2>4
    <2> QED BY <1>3, <2>1, <2>5 DEF q
  <1>4. CASE <<w, r>> # <<v, s>> /\ w = s
    <2>1. queue'[<<w, r>>] = queue[<<w, r>>] \o out[r]
      BY <1>1, <1>4 DEF Answer
    <2>2. \A i \in DOMAIN (queue[<<w, r>>] \o out[r]) :
            (queue[<<w, r>>] \o out[r])[i].type = "SERVER" => i = 1 /\ ~(link[<<r, w>>] = "up")
      BY <1>1, <1>2, <1>4, OnceAppended
    <2>3. link'[<<r, w>>] = link[<<r, w>>]
      BY <1>1, <1>4
    <2> QED BY <2>1, <2>2, <2>3
  <1>5. CASE <<w, r>> # <<v, s>> /\ w # s
    <2>1. queue'[<<w, r>>] = queue[<<w, r>>] /\ link'[<<r, w>>] = link[<<r, w>>]
      BY <1>1, <1>5 DEF Answer
    <2> QED BY <1>2, <2>1
  <1> QED BY <1>3, <1>4, <1>5

-----------------------------------------------------------------------------
(* Handlers that introduce nobody.                                         *)

Plain == {m \in Message : m.type \notin {"UID", "SERVER"}}

LEMMA PlainContinues ==
    ASSUME NEW r \in Seq(Plain)
    PROVE  /\ r \in Seq(Message)
           /\ \A i \in DOMAIN r : r[i].type # "SERVER"
           /\ \A e, s, u : Continues(r, e, e, s, u)
  <1>1. Plain \subseteq Message
    BY DEF Plain
  <1>2. r \in Seq(Message)
    BY <1>1, SeqMonotonic
  <1>3. \A i \in DOMAIN r : r[i] \in Plain
    BY ElementOfSeq, LenProperties
  <1> QED BY <1>2, <1>3 DEF Plain, Continues, Introduces

\* The same lines, or none, to each peer.
LEMMA OutType ==
    ASSUME NEW S, NEW ms \in Seq(S), NEW s, NEW one, NEW v, NEW t \in Peers(s)
    PROVE  ToServers(s, one, ms)[t] \in Seq(S) /\ ToOne(s, v, ms)[t] \in Seq(S)
  BY EmptySeq DEF ToServers, ToOne

LEMMA PlainMessages ==
    ASSUME NEW u \in Uid
    PROVE  /\ KillMsg(u) \in Plain /\ QuitMsg(u) \in Plain
           /\ \A o \in Uid : KillBy(o, u) \in Plain
           /\ \A n \in Nick, t \in Nat : NickMsg(u, n, t) \in Plain
           /\ \A x \in Server : SquitMsg(x) \in Plain
  BY DEF KillMsg, QuitMsg, KillBy, NickMsg, SquitMsg, Plain, Message

\* Nobody enters the tables whom the server did not know.
LEMMA NobodyEnters ==
    ASSUME NickInv, NEW s \in Server, NEW X, NEW Y, NEW n, NEW t, Update(s, X, Y, n, t),
           \A u \in Y : Known(s, u)
    PROVE  /\ unregistered' \subseteq unregistered
           /\ \A r \in Server, u \in Uid : Known(r, u)' => Known(r, u)
  BY DEF Update, NickInv, TypeOK, Known

LEMMA NobodyEnters0 ==
    ASSUME NickInv, NEW s \in Server, NEW X, ExitClients(s, X)
    PROVE  /\ unregistered' \subseteq unregistered
           /\ \A r \in Server, u \in Uid : Known(r, u)' => Known(r, u)
  BY NobodyEnters DEF ExitClients

LEMMA PlainAnswer ==
    ASSUME NickInv, NickInv', IdInv, NEW s \in Server, NEW v,
           NEW types \in SUBSET {"UID", "NICK", "QUIT", "KILL"}, Parses(s, v, types),
           NEW out, Answer(v, s, out), \A t \in Peers(s) : out[t] \in Seq(Plain),
           UNCHANGED <<used, link>>, unregistered' \subseteq unregistered,
           \A r \in Server, u \in Uid : Known(r, u)' => Known(r, u)
    PROVE  IdInv'
  <1>1. PICK told \in [Link -> SUBSET Uid] : ToldOK(told)
    BY DEF IdInv
  <1>2. /\ v \in Peers(s) /\ link[<<s, v>>] = "up" /\ queue[<<v, s>>] # <<>>
        /\ Line(v, s).type \in types
    BY LineLegal
  <1>3. \A u : ~SureRemoval(Line(v, s), s, u)
    BY <1>2 DEF SureRemoval
  <1>4. \A w \in Peers(s), u \in Uid : Had(told, s, w, u)' => Had(told, s, w, u)
    BY DEF Had
  <1>5. ToldTypes(told)'
    BY <1>1 DEF ToldOK, ToldTypes
  <1>6. \A t \in Peers(s), u \in Uid : Continues(out[t], u \in told[<<s, t>>], u \in told[<<s, t>>], t, u)
    BY PlainContinues
  <1>7. \A t \in Peers(s) : out[t] \in Seq(Message) /\ \A i \in DOMAIN out[t] : out[t][i].type # "SERVER"
    BY PlainContinues
  <1>8. TypeOK /\ TypeOK' /\ ServerOnce
    BY DEF NickInv, IdInv
  <1>9. ToldOK(told)'
    BY <1>1, <1>2, <1>3, <1>4, <1>5, <1>6, <1>7, <1>8, AnswerTold
  <1>10. ServerOnce'
    BY <1>2, <1>7, <1>8, AnswerOnce
  <1> QED BY <1>9, <1>10 DEF IdInv

LEMMA PlainSend ==
    ASSUME NickInv, NickInv', IdInv, NEW s \in Server, NEW out, Send(s, out), link' = link,
           \A t \in Peers(s) : out[t] \in Seq(Plain),
           used \ unregistered \subseteq used' \ unregistered',
           \A r \in Server, u \in Uid : Known(r, u)' => Known(r, u) \/ (r = s /\ Home[u] = s)
    PROVE  IdInv'
  <1>1. PICK told \in [Link -> SUBSET Uid] : ToldOK(told)
    BY DEF IdInv
  <1>2. \A w \in Peers(s), u \in Uid : Home[u] \in Side[<<s, w>>] /\ Had(told, s, w, u)' => Had(told, s, w, u)
    <2>1. \A w \in Peers(s) : s \notin Side[<<s, w>>]
      BY LinkEnds
    <2> QED BY <2>1 DEF Had
  <1>3. ASSUME NEW r \in Server \ {s}, NEW u \in Uid, Known(r, u)' PROVE Known(r, u)
    BY <1>3
  <1>4. ToldTypes(told)'
    BY <1>1 DEF ToldOK, ToldTypes
  <1>5. \A t \in Peers(s), u \in Uid : Continues(out[t], u \in told[<<s, t>>], u \in told[<<s, t>>], t, u)
    BY PlainContinues
  <1>6. \A t \in Peers(s) : out[t] \in Seq(Message) /\ \A i \in DOMAIN out[t] : out[t][i].type # "SERVER"
    BY PlainContinues
  <1>7. TypeOK /\ TypeOK' /\ ServerOnce
    BY DEF NickInv, IdInv
  <1>8. ToldOK(told)'
    BY <1>1, <1>2, <1>3, <1>4, <1>5, <1>6, <1>7, SendTold
  <1>9. ServerOnce'
    BY <1>6, <1>7, SendOnce
  <1> QED BY <1>8, <1>9 DEF IdInv

LEMMA MrNickId ==
    ASSUME NickInv, NickInv', IdInv, NEW u \in Uid, NEW n \in Nick, NEW t \in Nat, MrNick(u, n, t)
    PROVE  IdInv'
  <1> DEFINE s == Home[u]
             out == [r \in Peers(s) |-> <<>>]
  <1>1. s \in Server
    BY ClientAssumption
  <1>2. Send(s, out)
    <2>1. \A l \in Link : queue[l] = queue[l] \o <<>>
      BY ConcatEmptySeq DEF NickInv, TypeOK
    <2>2. \A l \in Link : l[1] = s => out[l[2]] = <<>>
      BY LinkIsPair
    <2>3. queue' = [l \in Link |-> queue[l]]
      BY DEF MrNick, NickInv, TypeOK
    <2> HIDE DEF out
    <2> QED BY <2>1, <2>2, <2>3 DEF Send
  <1>3. \A r \in Peers(s) : out[r] \in Seq(Plain)
    BY EmptySeq
  <1>4. used \ unregistered \subseteq used' \ unregistered'
    BY DEF MrNick
  <1>5. \A r \in Server, w \in Uid : Known(r, w)' => Known(r, w) \/ (r = s /\ Home[w] = s)
    BY DEF MrNick, NickInv, TypeOK, Known
  <1>6. link' = link
    BY DEF MrNick
  <1> HIDE DEF s, out
  <1> QED BY <1>1, <1>2, <1>3, <1>4, <1>5, <1>6, PlainSend

LEMMA ChangeLocalNickId ==
    ASSUME NickInv, NickInv', IdInv, NEW u \in Uid, NEW n \in Nick, NEW t \in Nat, ChangeLocalNick(u, n, t)
    PROVE  IdInv'
  <1> DEFINE s == Home[u]
             out == ToServers(s, {}, <<NickMsg(u, n, t)>>)
  <1>1. s \in Server /\ Send(s, out) /\ link' = link /\ used' = used
    BY ClientAssumption DEF ChangeLocalNick
  <1>2. /\ unregistered' \subseteq unregistered
        /\ \A r \in Server, w \in Uid : Known(r, w)' => Known(r, w)
    BY <1>1, NobodyEnters DEF ChangeLocalNick, Persons
  <1>3. \A r \in Peers(s) : out[r] \in Seq(Plain)
    <2>1. <<NickMsg(u, n, t)>> \in Seq(Plain)
      BY PlainMessages, ShortSeq
    <2> QED BY <2>1, OutType
  <1> QED BY <1>1, <1>2, <1>3, PlainSend

LEMMA ExitLocalId ==
    ASSUME NickInv, NickInv', IdInv, NEW u \in Uid, ExitLocal(u), UNCHANGED <<used, link>>
    PROVE  IdInv'
  <1> DEFINE s == Home[u]
             ms == IF u \in unregistered THEN <<>> ELSE <<QuitMsg(u)>>
             out == ToServers(s, {}, ms)
  <1>1. s \in Server /\ ExitClients(s, {u}) /\ Send(s, out)
    BY ClientAssumption DEF ExitLocal
  <1>2. /\ unregistered' \subseteq unregistered
        /\ \A r \in Server, w \in Uid : Known(r, w)' => Known(r, w)
    BY <1>1, NobodyEnters0
  <1>3. \A r \in Peers(s) : out[r] \in Seq(Plain)
    <2>1. ms \in Seq(Plain)
      BY PlainMessages, ShortSeq, EmptySeq
    <2> HIDE DEF ms
    <2> QED BY <2>1, OutType
  <1> QED BY <1>1, <1>2, <1>3, PlainSend

LEMMA MoKillId ==
    ASSUME NickInv, NickInv', IdInv, NEW o \in Uid, NEW u \in Uid, MoKill(o, u)
    PROVE  IdInv'
  <1> DEFINE s == Home[o]
             out == ToServers(s, {}, <<KillBy(o, u)>>)
  <1>1. s \in Server /\ UNCHANGED <<used, link>>
    BY ClientAssumption DEF MoKill
  <1>2. CASE ExitLocal(u)
    BY <1>1, <1>2, ExitLocalId
  <1>3. CASE ExitClients(s, {u}) /\ Send(s, out)
    <2>1. /\ unregistered' \subseteq unregistered
          /\ \A r \in Server, w \in Uid : Known(r, w)' => Known(r, w)
      BY <1>1, <1>3, NobodyEnters0
    <2>2. \A r \in Peers(s) : out[r] \in Seq(Plain)
      <3>1. <<KillBy(o, u)>> \in Seq(Plain)
        BY PlainMessages, ShortSeq
      <3> QED BY <3>1, OutType
    <2> QED BY <1>1, <1>3, <2>1, <2>2, PlainSend
  <1> QED BY <1>2, <1>3 DEF MoKill

\* Only UID and SERVER lines are not plain.
LEMMA LinePlain ==
    ASSUME NickInv, NEW s \in Server, NEW v \in Server,
           NEW types \in SUBSET {"NICK", "QUIT", "KILL"}, Parses(s, v, types)
    PROVE  Line(v, s) \in Plain
  <1>1. Line(v, s) \in Legal(v, s) /\ Line(v, s).type \in types
    BY LineLegal
  <1> QED BY <1>1 DEF Legal, Plain

\* A line about somebody the server knows goes on as it came, after KILLs or not.
LEMMA RelayedId ==
    ASSUME NickInv, NickInv', IdInv, NEW s \in Server, NEW v \in Server,
           NEW types \in SUBSET {"NICK", "QUIT", "KILL"}, Parses(s, v, types),
           NEW X, NEW Y, NEW n, NEW t, Update(s, X, Y, n, t), \A u \in Y : Known(s, u),
           NEW out, Answer(v, s, out),
           out = ToServers(s, {v}, <<Line(v, s)>>)
             \/ \E k \in Uid : out = ToServers(s, {v}, <<KillMsg(k), Line(v, s)>>),
           UNCHANGED <<used, link, left>>
    PROVE  IdInv'
  <1>1. \A r \in Peers(s) : out[r] \in Seq(Plain)
    <2>1. /\ <<Line(v, s)>> \in Seq(Plain)
          /\ \A k \in Uid : <<KillMsg(k), Line(v, s)>> \in Seq(Plain)
      BY LinePlain, PlainMessages, ShortSeq
    <2> QED BY <2>1, OutType
  <1>2. /\ unregistered' \subseteq unregistered
        /\ \A r \in Server, u \in Uid : Known(r, u)' => Known(r, u)
    BY NobodyEnters
  <1> QED BY <1>1, <1>2, PlainAnswer

\* Somebody leaves, KILLs go out.
LEMMA KilledId ==
    ASSUME NickInv, NickInv', IdInv, NEW s \in Server, NEW v \in Server,
           NEW types \in SUBSET {"UID", "NICK", "QUIT", "KILL"}, Parses(s, v, types),
           (\E X : ExitClients(s, X)) \/ UNCHANGED tables,
           NEW out, Answer(v, s, out), \A t \in Peers(s) : out[t] \in Seq(Plain),
           UNCHANGED <<used, link, left>>
    PROVE  IdInv'
  <1>1. /\ unregistered' \subseteq unregistered
        /\ \A r \in Server, u \in Uid : Known(r, u)' => Known(r, u)
    <2>1. CASE \E X : ExitClients(s, X)
      BY <2>1, NobodyEnters0
    <2>2. CASE UNCHANGED tables
      BY <2>2 DEF tables, Known
    <2> QED BY <2>1, <2>2
  <1> QED BY <1>1, PlainAnswer

LEMMA KillsPlain ==
    ASSUME NEW s, NEW one, NEW v, NEW k \in Uid, NEW l \in Uid, NEW t \in Peers(s)
    PROVE  /\ ToServers(s, one, <<>>)[t] \in Seq(Plain)
           /\ ToServers(s, one, <<KillMsg(k)>>)[t] \in Seq(Plain)
           /\ ToOne(s, v, <<KillMsg(k)>>)[t] \in Seq(Plain)
           /\ ToServers(s, one, <<KillMsg(k), KillMsg(l)>>)[t] \in Seq(Plain)
           /\ Both(ToOne(s, v, <<KillMsg(k)>>), ToServers(s, one, <<KillMsg(l)>>))[t] \in Seq(Plain)
  <1>1. /\ <<KillMsg(k)>> \in Seq(Plain) /\ <<KillMsg(l)>> \in Seq(Plain)
        /\ <<KillMsg(k), KillMsg(l)>> \in Seq(Plain) /\ <<>> \in Seq(Plain)
    BY PlainMessages, ShortSeq, EmptySeq
  <1>2. /\ ToServers(s, one, <<>>)[t] \in Seq(Plain)
        /\ ToServers(s, one, <<KillMsg(k)>>)[t] \in Seq(Plain)
        /\ ToServers(s, one, <<KillMsg(l)>>)[t] \in Seq(Plain)
        /\ ToOne(s, v, <<KillMsg(k)>>)[t] \in Seq(Plain)
        /\ ToServers(s, one, <<KillMsg(k), KillMsg(l)>>)[t] \in Seq(Plain)
    BY <1>1, OutType
  <1>3. Both(ToOne(s, v, <<KillMsg(k)>>), ToServers(s, one, <<KillMsg(l)>>))[t]
          = ToOne(s, v, <<KillMsg(k)>>)[t] \o ToServers(s, one, <<KillMsg(l)>>)[t]
    BY DEF Both, ToOne
  <1>4. ToOne(s, v, <<KillMsg(k)>>)[t] \o ToServers(s, one, <<KillMsg(l)>>)[t] \in Seq(Plain)
    BY <1>2, ConcatProperties
  <1> QED BY <1>2, <1>3, <1>4

LEMMA UnknownPrefixId ==
    ASSUME NickInv, NickInv', IdInv, NEW s \in Server, NEW v \in Server, UnknownPrefix(s, v)
    PROVE  IdInv'
  <1>1. PICK k \in Uid : Answer(v, s, ToOne(s, v, <<KillMsg(k)>>))
    BY DEF UnknownPrefix
  <1>2. \A t \in Peers(s) : ToOne(s, v, <<KillMsg(k)>>)[t] \in Seq(Plain)
    BY KillsPlain
  <1>3. Parses(s, v, {"NICK", "QUIT", "KILL"}) /\ UNCHANGED tables /\ UNCHANGED <<used, link, left>>
    BY DEF UnknownPrefix
  <1> QED BY <1>1, <1>2, <1>3, KilledId

LEMMA CollisionId ==
    ASSUME NickInv, NickInv', IdInv, NEW s \in Server, NEW v \in Server,
           UidBothKilled(s, v) \/ UidRefused(s, v) \/ NickBothKilled(s, v) \/ NickRefused(s, v)
    PROVE  IdInv'
  <1> DEFINE m == Line(v, s)
  <1>1. PICK types \in SUBSET {"UID", "NICK"} : Parses(s, v, types)
    BY DEF UidBothKilled, UidRefused, NickBothKilled, NickRefused
  <1>2. m.uid \in Uid /\ Contested(s, m.uid, m.nick) \subseteq Uid
    BY <1>1, LineAndTarget
  <1>3. UNCHANGED <<used, link, left>>
    BY DEF UidBothKilled, UidRefused, NickBothKilled, NickRefused
  <1>4. CASE UidBothKilled(s, v)
    <2>1. PICK target \in Contested(s, m.uid, m.nick) :
            /\ ExitClients(s, {target})
            /\ Answer(v, s, Both(ToOne(s, v, <<KillMsg(m.uid)>>), ToServers(s, {}, <<KillMsg(target)>>)))
      BY <1>4 DEF UidBothKilled
    <2>2. \A t \in Peers(s) :
            Both(ToOne(s, v, <<KillMsg(m.uid)>>), ToServers(s, {}, <<KillMsg(target)>>))[t] \in Seq(Plain)
      BY <1>2, KillsPlain
    <2> QED BY <1>1, <1>3, <2>1, <2>2, KilledId
  <1>5. CASE UidRefused(s, v)
    <2>1. \A t \in Peers(s) : ToOne(s, v, <<KillMsg(m.uid)>>)[t] \in Seq(Plain)
      BY <1>2, KillsPlain
    <2> QED BY <1>1, <1>3, <1>5, <2>1, KilledId DEF UidRefused
  <1>6. CASE NickBothKilled(s, v)
    <2>1. PICK target \in Contested(s, m.uid, m.nick) :
            /\ ExitClients(s, {m.uid, target})
            /\ Answer(v, s, ToServers(s, {}, <<KillMsg(m.uid), KillMsg(target)>>))
      BY <1>6 DEF NickBothKilled
    <2>2. \A t \in Peers(s) : ToServers(s, {}, <<KillMsg(m.uid), KillMsg(target)>>)[t] \in Seq(Plain)
      BY <1>2, KillsPlain
    <2> QED BY <1>1, <1>3, <2>1, <2>2, KilledId
  <1>7. CASE NickRefused(s, v)
    <2>1. \A t \in Peers(s) : ToServers(s, {v}, <<KillMsg(m.uid)>>)[t] \in Seq(Plain)
      BY <1>2, KillsPlain
    <2> QED BY <1>1, <1>3, <1>7, <2>1, KilledId DEF NickRefused
  <1> QED BY <1>4, <1>5, <1>6, <1>7

LEMMA NickPassedOnId ==
    ASSUME NickInv, NickInv', IdInv, NEW s \in Server, NEW v \in Server,
           NickAccepted(s, v) \/ NickWins(s, v)
    PROVE  IdInv'
  <1> DEFINE m == Line(v, s)
  <1>1. Parses(s, v, {"NICK"}) /\ UNCHANGED <<used, link, left>> /\ \A u \in {m.uid} : Known(s, u)
    BY DEF NickAccepted, NickWins, Persons
  <1>2. CASE NickAccepted(s, v)
    BY <1>1, <1>2, RelayedId DEF NickAccepted
  <1>3. CASE NickWins(s, v)
    <2>1. PICK target \in Contested(s, m.uid, m.nick) :
            /\ Update(s, {target}, {m.uid}, m.nick, m.ts)
            /\ Answer(v, s, ToServers(s, {v}, <<KillMsg(target), m>>))
      BY <1>3 DEF NickWins
    <2>2. target \in Uid
      BY DEF Contested, Holders
    <2> QED BY <1>1, <2>1, <2>2, RelayedId
  <1> QED BY <1>2, <1>3

LEMMA QuitOrKillId ==
    ASSUME NickInv, NickInv', IdInv, NEW s \in Server, NEW v \in Server, MsQuit(s, v) \/ MsKill(s, v)
    PROVE  IdInv'
  <1>1. PICK types \in SUBSET {"QUIT", "KILL"} : Parses(s, v, types)
    BY DEF MsQuit, MsKill
  <1>2. UNCHANGED <<used, link, left>>
    BY DEF MsQuit, MsKill
  <1>3. CASE /\ ExitClients(s, {Line(v, s).uid})
             /\ Answer(v, s, ToServers(s, {v}, <<Line(v, s)>>))
    <2>1. \A t \in Peers(s) : ToServers(s, {v}, <<Line(v, s)>>)[t] \in Seq(Plain)
      <3>1. <<Line(v, s)>> \in Seq(Plain)
        BY <1>1, LinePlain, ShortSeq
      <3> QED BY <3>1, OutType
    <2>2. \E X : ExitClients(s, X)
      BY <1>3
    <2> QED BY <1>1, <1>2, <1>3, <2>1, <2>2, KilledId
  <1>4. CASE UNCHANGED tables /\ Answer(v, s, ToServers(s, {}, <<>>))
    <2>1. \A t \in Peers(s) : ToServers(s, {}, <<>>)[t] \in Seq(Plain)
      BY EmptySeq, OutType
    <2> QED BY <1>1, <1>2, <1>4, <2>1, KilledId
  <1> QED BY <1>3, <1>4 DEF MsQuit, MsKill

-----------------------------------------------------------------------------
(* Introductions.                                                          *)

\* The sides of s do not meet.
LEMMA OneSide ==
    ASSUME NEW s \in Server, NEW v \in Peers(s), NEW w \in Peers(s) \ {v}
    PROVE  Side[<<s, v>>] \cap Side[<<s, w>>] = {}
  BY NetworkAssumption

\* Whom the head of v's stream introduces has no place at s.
LEMMA EntersFresh ==
    ASSUME NickInv, NEW told, ToldOK(told), NEW s \in Server, NEW v, Parses(s, v, {"UID"})
    PROVE  /\ v \in Peers(s) /\ Line(v, s).uid \in used \ unregistered
           /\ Home[Line(v, s).uid] \in Side[<<s, v>>]
           /\ ~Had(told, s, v, Line(v, s).uid)
  <1> DEFINE m == Line(v, s)
  <1>1. /\ v \in Peers(s) /\ v \in Server /\ queue[<<v, s>>] # <<>>
        /\ m \in Legal(v, s) /\ m.type = "UID"
    <2>1. /\ v \in Peers(s) /\ v \in Server /\ queue[<<v, s>>] # <<>>
          /\ m \in Legal(v, s) /\ m.type \in {"UID"}
      BY LineLegal
    <2> QED BY <2>1
  <1>2. m.uid \in Uid /\ m.uid \in Introduced(v, s)
    BY <1>1, FieldTypes
  <1>3. m.uid \in used \ unregistered /\ Home[m.uid] \in Side[<<s, v>>]
    BY <1>2 DEF Introduced
  <1>4. queue[<<v, s>>] \in Seq(Message)
    BY <1>1, LinkEnds DEF NickInv, TypeOK
  <1>5. Timeline(queue[<<v, s>>], Had(told, s, v, m.uid), m.uid \in told[<<v, s>>], s, m.uid)
    BY <1>1, <1>2, <1>3 DEF ToldOK, ToldPair
  <1>6. Introduces(Head(queue[<<v, s>>]), m.uid)
    BY <1>1 DEF Introduces, Line
  <1> QED BY <1>1, <1>3, <1>4, <1>5, <1>6, HeadIsFresh

\* A client enters: the line goes on to the other peers, after a KILL or not.
LEMMA EnterId ==
    ASSUME NickInv, NickInv', IdInv, NEW s \in Server, NEW v \in Server, Parses(s, v, {"UID"}),
           NEW X, Update(s, X, {Line(v, s).uid}, Line(v, s).nick, Line(v, s).ts),
           NEW out, Answer(v, s, out),
           NEW ms \in {<<Line(v, s)>>} \cup {<<KillMsg(k), Line(v, s)>> : k \in Uid},
           out = ToServers(s, {v}, ms),
           UNCHANGED <<used, link>>
    PROVE  IdInv'
  <1> DEFINE m == Line(v, s)
  <1>1. PICK told \in [Link -> SUBSET Uid] : ToldOK(told)
    BY DEF IdInv
  <1>2. /\ v \in Peers(s) /\ v \in Server /\ link[<<s, v>>] = "up" /\ queue[<<v, s>>] # <<>>
        /\ m \in Legal(v, s) /\ m \in Message /\ m.type = "UID"
    BY LineLegal DEF Legal
  <1>3. m.uid \in used \ unregistered /\ Home[m.uid] \in Side[<<s, v>>] /\ ~Had(told, s, v, m.uid)
    BY <1>1, EntersFresh
  <1>4. m.uid \in Uid
    BY <1>3 DEF NickInv, TypeOK
  <1>5. PICK told2 : told2 = [l \in Link |-> IF l[1] = s /\ l[2] # v /\ link[l] = "up"
                                             THEN told[l] \cup {m.uid} ELSE told[l]]
    OBVIOUS
  <1>6. told2 \in [Link -> SUBSET Uid]
    BY <1>4, <1>5
  <1>7. unregistered' \subseteq unregistered
    BY DEF Update
  <1>8. ToldTypes(told2)'
    BY <1>1, <1>3, <1>5, <1>6, <1>7 DEF ToldOK, ToldTypes
  <1>9. \A l \in Link : l[1] # s => told2[l] = told[l]
    BY <1>5
  <1>10. \A r \in Server, u \in Uid : Known(r, u)' => Known(r, u) \/ (r = s /\ u = m.uid)
    BY DEF Update, NickInv, TypeOK, Known
  <1>11. /\ ms \in Seq(Message)
         /\ \A i \in DOMAIN ms : ms[i].type # "SERVER"
         /\ \A u : \A i, j \in DOMAIN ms : Introduces(ms[i], u) /\ Introduces(ms[j], u) => i = j
         /\ \A u : \A i \in DOMAIN ms : Introduces(ms[i], u) => u = m.uid
    <2>1. \A k \in Uid : KillMsg(k) \in Message /\ KillMsg(k).type = "KILL"
      BY DEF KillMsg, Message
    <2>2. CASE ms = <<m>>
      BY <1>2, <2>2 DEF Introduces
    <2>3. ASSUME NEW k \in Uid, ms = <<KillMsg(k), m>>
          PROVE  <1>11!:
      BY <1>2, <2>1, <2>3 DEF Introduces
    <2> QED BY <2>2, <2>3
  <1>12. ASSUME NEW t \in Peers(s)
         PROVE  /\ out[t] \in Seq(Message) /\ \A i \in DOMAIN out[t] : out[t][i].type # "SERVER"
                /\ \A u \in Uid : Continues(out[t], u \in told[<<s, t>>], u \in told2[<<s, t>>], t, u)
    <2>1. <<s, t>> \in Link
      BY LinkEnds
    <2>2. CASE t # v /\ link[<<s, t>>] = "up"
      <3>1. out[t] = ms
        BY <2>2 DEF ToServers
      <3>2. told2[<<s, t>>] = told[<<s, t>>] \cup {m.uid} /\ m.uid \notin told[<<s, t>>]
        BY <1>3, <1>5, <2>1, <2>2 DEF Had
      <3> QED BY <1>11, <3>1, <3>2 DEF Continues
    <2>3. CASE ~(t # v /\ link[<<s, t>>] = "up")
      <3>1. out[t] = <<>> /\ told2[<<s, t>>] = told[<<s, t>>]
        BY <1>5, <2>1, <2>3 DEF ToServers
      <3>2. <<>> \in Seq(Plain)
        BY EmptySeq
      <3> QED BY <3>1, <3>2, PlainContinues
    <2> QED BY <2>2, <2>3
  <1>13. ASSUME NEW w \in Peers(s), NEW u \in Uid, u # m.uid, Had(told2, s, w, u)'
         PROVE  Had(told, s, w, u)
    <2>1. \A t \in Peers(s) : u \in told2[<<s, t>>] => u \in told[<<s, t>>]
      BY <1>5, <1>13, LinkEnds
    <2> QED BY <1>10, <1>13, <2>1 DEF Had
  <1>14. \A u \in Uid : Home[u] \in Side[<<s, v>>] /\ Had(told2, s, v, u)' =>
           Introduces(Line(v, s), u) \/ (Had(told, s, v, u) /\ ~SureRemoval(Line(v, s), s, u))
    BY <1>2, <1>13 DEF Introduces, SureRemoval
  <1>15. \A w \in Peers(s) \ {v}, u \in Uid :
           Home[u] \in Side[<<s, w>>] /\ Had(told2, s, w, u)' => Had(told, s, w, u)
    BY <1>2, <1>3, <1>13, OneSide
  <1>16. TypeOK /\ TypeOK' /\ ServerOnce
    BY DEF NickInv, IdInv
  <1>17. ToldOK(told2)'
    BY <1>1, <1>2, <1>8, <1>9, <1>10, <1>12, <1>14, <1>15, <1>16, AnswerTold
  <1>18. ServerOnce'
    BY <1>2, <1>12, <1>16, AnswerOnce
  <1> QED BY <1>6, <1>17, <1>18 DEF IdInv

LEMMA UidEntersId ==
    ASSUME NickInv, NickInv', IdInv, NEW s \in Server, NEW v \in Server, UidAccepted(s, v) \/ UidWins(s, v)
    PROVE  IdInv'
  <1> DEFINE m == Line(v, s)
  <1>1. Parses(s, v, {"UID"}) /\ UNCHANGED <<used, link>>
    BY DEF UidAccepted, UidWins
  <1>2. CASE UidAccepted(s, v)
    BY <1>1, <1>2, EnterId DEF UidAccepted
  <1>3. CASE UidWins(s, v)
    <2>1. PICK target \in Contested(s, m.uid, m.nick) :
            /\ Update(s, {target}, {m.uid}, m.nick, m.ts)
            /\ Answer(v, s, ToServers(s, {v}, <<KillMsg(target), m>>))
      BY <1>3 DEF UidWins
    <2>2. <<KillMsg(target), m>> \in {<<KillMsg(k), m>> : k \in Uid}
      BY DEF Contested, Holders
    <2> QED BY <1>1, <2>1, <2>2, EnterId
  <1> QED BY <1>2, <1>3

LEMMA RegisterLocalUserId ==
    ASSUME NickInv, NickInv', IdInv, NEW u \in Uid, RegisterLocalUser(u)
    PROVE  IdInv'
  <1> DEFINE s == Home[u]
             m == UidMsg(u, nick[s][u], tsinfo[s][u])
             out == ToServers(s, {}, <<m>>)
  <1>1. PICK told \in [Link -> SUBSET Uid] : ToldOK(told)
    BY DEF IdInv
  <1>2. /\ s \in Server /\ Send(s, out) /\ link' = link /\ used' = used /\ nick' = nick
        /\ u \in unregistered /\ unregistered' = unregistered \ {u} /\ u \in used
    BY ClientAssumption DEF RegisterLocalUser, NickInv, UnregisteredLocal
  <1>3. m \in Message
    <2>1. nick[s][u] \in Nick /\ tsinfo[s][u] \in Nat
      BY <1>2 DEF NickInv, TypeOK, UnregisteredLocal, Known
    <2> QED BY <2>1 DEF UidMsg, Message
  <1>4. \A w : Introduces(m, w) => w = u
    BY DEF Introduces, UidMsg
  <1>5. m.type # "SERVER"
    BY DEF UidMsg
  <1> HIDE DEF m
  <1>6. PICK told2 : told2 = [l \in Link |-> IF l[1] = s /\ link[l] = "up" THEN told[l] \cup {u} ELSE told[l]]
    OBVIOUS
  <1>7. told2 \in [Link -> SUBSET Uid]
    BY <1>6
  <1>8. ToldTypes(told2)'
    BY <1>1, <1>2, <1>6, <1>7 DEF ToldOK, ToldTypes
  <1>9. \A l \in Link : l[1] # s => told2[l] = told[l]
    BY <1>6
  <1>10. ASSUME NEW t \in Peers(s)
         PROVE  /\ out[t] \in Seq(Message) /\ \A i \in DOMAIN out[t] : out[t][i].type # "SERVER"
                /\ \A w \in Uid : Continues(out[t], w \in told[<<s, t>>], w \in told2[<<s, t>>], t, w)
    <2>1. <<s, t>> \in Link
      BY <1>2, LinkEnds
    <2>2. CASE link[<<s, t>>] = "up"
      <3>1. out[t] = <<m>>
        BY <2>2 DEF ToServers
      <3>2. told2[<<s, t>>] = told[<<s, t>>] \cup {u} /\ u \notin told[<<s, t>>]
        BY <1>1, <1>2, <1>6, <2>1, <2>2 DEF ToldOK, ToldTypes
      <3> HIDE DEF out
      <3> QED BY <1>3, <1>4, <1>5, <3>1, <3>2 DEF Continues
    <2>3. CASE link[<<s, t>>] # "up"
      <3>1. out[t] = <<>> /\ told2[<<s, t>>] = told[<<s, t>>]
        BY <1>6, <2>1, <2>3 DEF ToServers
      <3> HIDE DEF out
      <3> QED BY <3>1, EmptySeq DEF Continues
    <2> QED BY <2>2, <2>3
  <1>11. ASSUME NEW w \in Peers(s), NEW z \in Uid, Home[z] \in Side[<<s, w>>], Had(told2, s, w, z)'
         PROVE  Had(told, s, w, z)
    <2>1. z # u
      BY <1>2, <1>11, LinkEnds
    <2>2. \A t \in Peers(s) : z \in told2[<<s, t>>] => z \in told[<<s, t>>]
      BY <1>2, <1>6, <2>1, LinkEnds
    <2> QED BY <1>2, <1>11, <2>2 DEF Had, Known
  <1>12. TypeOK /\ TypeOK' /\ ServerOnce
    BY DEF NickInv, IdInv
  <1>13. \A r \in Server \ {s}, w \in Uid : Known(r, w)' => Known(r, w)
    BY <1>2 DEF Known
  <1> HIDE DEF s, out
  <1>14. ToldOK(told2)'
    BY <1>1, <1>2, <1>8, <1>9, <1>10, <1>11, <1>12, <1>13, SendTold
  <1>15. ServerOnce'
    BY <1>2, <1>10, <1>12, SendOnce
  <1> QED BY <1>7, <1>14, <1>15 DEF IdInv

-----------------------------------------------------------------------------
(* Links.                                                                  *)

\* What s reaches through v and x, its other peers reach through x as well.
LEMMA BeyondAgrees ==
    ASSUME NEW s \in Server, NEW v \in Peers(s), NEW t \in Peers(s) \ {v}, NEW x,
           NEW h \in Side[<<s, v>>], h \in Beyond(s, x)
    PROVE  h \in Beyond(t, x)
  <1>1. PICK k \in Link : k[2] = x /\ s \notin Side[k] /\ h \in Side[k]
    BY DEF Beyond
  <1> DEFINE y == k[1]
  <1>2. y \in Server /\ x \in Peers(y) /\ y \in Peers(x) /\ x \in Server /\ k = <<y, x>>
    BY <1>1, LinkIsPair
  <1>3. t \in Server /\ s \in Peers(t) /\ h \notin Side[<<s, t>>] /\ s \in Side[<<t, s>>]
    BY LinkEnds, OneSide
  <1>4. t \notin Side[k]
    <2> SUFFICES ASSUME t \in Side[k] PROVE FALSE
      OBVIOUS
    <2>1. CASE t # x
      <3>1. \A z \in Side[<<y, x>>] \ {x} : Peers(z) \subseteq Side[<<y, x>>]
        BY <1>2, LinkEnds
      <3>2. Peers(t) \subseteq Side[<<y, x>>]
        BY <1>2, <2>1, <3>1
      <3> QED BY <1>1, <1>2, <1>3, <3>2
    <2>2. CASE t = x
      <3>1. y # s
        BY <1>1, <1>2, <1>3, <2>2
      <3>2. Side[<<t, s>>] \subseteq Side[<<y, t>>]
        BY <1>2, <1>3, <2>2, <3>1, LinkEnds
      <3> QED BY <1>1, <1>2, <1>3, <2>2, <3>2
    <2> QED BY <2>1, <2>2
  <1> QED BY <1>1, <1>4 DEF Beyond

\* A SQUIT of x clears everybody it takes out of the tables of t.
LEMMA SquitContinues ==
    ASSUME NEW x \in Server, NEW t, NEW u, NEW e, NEW e2, e /\ ~e2 => Home[u] \in Beyond(t, x)
    PROVE  Continues(<<SquitMsg(x)>>, e, e2, t, u)
  BY DEF Continues, SquitMsg, Introduces, SureRemoval

\* Whom s takes back when what is behind x goes: everybody its peers but v take out.
Taken(told, s, v, x) ==
    [l \in Link |-> IF l[1] = s /\ l[2] # v
                    THEN {u \in told[l] : Home[u] \notin Beyond(l[2], x)} ELSE told[l]]

LEMMA MsSquitId ==
    ASSUME NickInv, NickInv', IdInv, NEW s \in Server, NEW v \in Server, MsSquit(s, v)
    PROVE  IdInv'
  <1> DEFINE x == Line(v, s).server
             out == ToServers(s, {v}, <<SquitMsg(x)>>)
  <1>1. PICK told \in [Link -> SUBSET Uid] : ToldOK(told)
    BY DEF IdInv
  <1>2. Parses(s, v, {"SQUIT"}) /\ UNCHANGED <<used, link>>
        /\ ExitClients(s, Dependents(s, x)) /\ Answer(v, s, out)
    BY DEF MsSquit
  <1>3. /\ v \in Peers(s) /\ link[<<s, v>>] = "up" /\ queue[<<v, s>>] # <<>>
        /\ Line(v, s) \in Legal(v, s) /\ Line(v, s).type \in {"SQUIT"}
    BY <1>2, LineLegal
  <1>4. x \in Server
    BY <1>3 DEF Legal, Message
  <1>5. SquitMsg(x) \in Message /\ SquitMsg(x).type # "SERVER"
    BY <1>4 DEF SquitMsg, Message
  <1>6. PICK told2 : told2 = Taken(told, s, v, x)
    OBVIOUS
  <1>7. told2 \in [Link -> SUBSET Uid] /\ \A l \in Link : told2[l] \subseteq told[l]
    BY <1>6 DEF Taken
  <1>8. /\ unregistered' \subseteq unregistered
        /\ \A r \in Server, u \in Uid : Known(r, u)' => Known(r, u) /\ ~(r = s /\ Home[u] \in Beyond(s, x))
    BY <1>2 DEF ExitClients, Update, NickInv, TypeOK, Known, Dependents
  <1>9. ToldTypes(told2)'
    BY <1>1, <1>2, <1>7, <1>8 DEF ToldOK, ToldTypes
  <1>10. \A l \in Link : l[1] # s => told2[l] = told[l]
    BY <1>6 DEF Taken
  <1>11. ASSUME NEW t \in Peers(s)
         PROVE  /\ out[t] \in Seq(Message) /\ \A i \in DOMAIN out[t] : out[t][i].type # "SERVER"
                /\ \A u \in Uid : Continues(out[t], u \in told[<<s, t>>], u \in told2[<<s, t>>], t, u)
    <2>1. <<s, t>> \in Link
      BY LinkEnds
    <2>2. CASE t # v /\ link[<<s, t>>] = "up"
      <3>1. out[t] = <<SquitMsg(x)>>
        BY <2>2 DEF ToServers
      <3>2. \A u \in Uid : u \in told[<<s, t>>] /\ u \notin told2[<<s, t>>] => Home[u] \in Beyond(t, x)
        BY <1>6, <2>1 DEF Taken
      <3>3. \A u \in Uid : Continues(<<SquitMsg(x)>>, u \in told[<<s, t>>], u \in told2[<<s, t>>], t, u)
        BY <1>4, <3>2, SquitContinues
      <3>4. <<SquitMsg(x)>> \in Seq(Message)
        BY <1>5, ShortSeq
      <3>5. \A i \in DOMAIN <<SquitMsg(x)>> : <<SquitMsg(x)>>[i].type # "SERVER"
        BY <1>5
      <3> HIDE DEF out, x
      <3> QED BY <3>1, <3>3, <3>4, <3>5
    <2>3. CASE ~(t # v /\ link[<<s, t>>] = "up")
      <3>1. out[t] = <<>>
        BY <2>3 DEF ToServers
      <3>2. told2[<<s, t>>] = told[<<s, t>>]
        BY <1>1, <1>6, <2>1, <2>3 DEF Taken, ToldOK, ToldTypes
      <3>3. <<>> \in Seq(Plain)
        BY EmptySeq
      <3> QED BY <3>1, <3>2, <3>3, PlainContinues
    <2> QED BY <2>2, <2>3
  <1>12. ASSUME NEW w \in Peers(s), NEW u \in Uid, Had(told2, s, w, u)'
         PROVE  Had(told, s, w, u)
    <2>1. \A t \in Peers(s) : <<s, t>> \in Link
      BY LinkEnds
    <2> QED BY <1>7, <1>8, <1>12, <2>1 DEF Had
  <1>13. ASSUME NEW u \in Uid, Home[u] \in Side[<<s, v>>], Had(told2, s, v, u)'
         PROVE  Had(told, s, v, u) /\ ~SureRemoval(Line(v, s), s, u)
    <2>1. Home[u] \notin Beyond(s, x)
      <3>1. CASE Known(s, u)'
        BY <1>8, <3>1
      <3>2. ASSUME NEW t \in Peers(s) \ {v}, u \in told2[<<s, t>>]
            PROVE  Home[u] \notin Beyond(s, x)
        <4>1. Home[u] \notin Beyond(t, x)
          BY <1>6, <3>2, LinkEnds DEF Taken
        <4> QED BY <1>3, <1>13, <4>1, BeyondAgrees
      <3> QED BY <1>13, <3>1, <3>2 DEF Had
    <2>2. ~SureRemoval(Line(v, s), s, u)
      BY <1>3, <2>1 DEF SureRemoval
    <2> QED BY <1>3, <1>12, <1>13, <2>2
  <1>14. TypeOK /\ TypeOK' /\ ServerOnce
    BY DEF NickInv, IdInv
  <1>15. \A r \in Server \ {s}, u \in Uid : Known(r, u)' => Known(r, u)
    BY <1>8
  <1>16. link'[<<s, v>>] = "up" /\ \A l \in Link \ {<<s, v>>} : link'[l] = link[l]
    BY <1>2, <1>3
  <1> HIDE DEF out, x
  <1>17. ToldOK(told2)'
    BY <1>1, <1>2, <1>3, <1>9, <1>10, <1>11, <1>12, <1>13, <1>14, <1>15, <1>16, AnswerTold
  <1>18. ServerOnce'
    BY <1>2, <1>3, <1>11, <1>14, <1>16, AnswerOnce
  <1> QED BY <1>7, <1>17, <1>18 DEF IdInv

\* A burst introduces each client the peer has not on its side, once.
LEMMA BurstContinues ==
    ASSUME NickInv, NEW s \in Server, NEW v \in Peers(s), NEW burst \in Bursts(s, v)
    PROVE  /\ burst \in Seq(Message) /\ \A i \in DOMAIN burst : burst[i].type # "SERVER"
           /\ \A t, u : Continues(burst, FALSE, u \in {w \in Persons(s) : Home[w] \notin Side[<<s, v>>]}, t, u)
  <1> DEFINE X == {u \in Persons(s) : Home[u] \notin Side[<<s, v>>]}
             N == Cardinality(X)
  <1>1. N \in Nat
    <2>1. IsFiniteSet(X)
      BY FS_Subset, ClientAssumption DEF Persons
    <2> QED BY <2>1, FS_CardinalityType
  <1>2. PICK f \in Bijection(1..N, X) :
          burst = [i \in DOMAIN f |-> UidMsg(f[i], nick[s][f[i]], tsinfo[s][f[i]])]
    BY DEF Bursts
  <1>3. /\ f \in [1..N -> X] /\ DOMAIN f = 1..N
        /\ \A i, j \in 1..N : f[i] = f[j] => i = j
    <2>1. f \in [1..N -> X] /\ IsInjective(f)
      BY <1>2 DEF Bijection, Injection
    <2> QED BY <2>1 DEF IsInjective
  <1>4. ASSUME NEW u \in X PROVE UidMsg(u, nick[s][u], tsinfo[s][u]) \in Message
    <2>1. nick[s][u] \in Nick /\ tsinfo[s][u] \in Nat /\ u \in Uid
      BY DEF Persons, Known, NickInv, TypeOK
    <2> QED BY <2>1 DEF UidMsg, Message
  <1> HIDE DEF X, N
  <1>5. /\ burst = [i \in 1..N |-> burst[i]]
        /\ \A i \in 1..N : burst[i] = UidMsg(f[i], nick[s][f[i]], tsinfo[s][f[i]])
        /\ \A i \in 1..N : burst[i] \in Message /\ f[i] \in X
    BY <1>2, <1>3, <1>4
  <1>6. /\ \A i \in 1..N : burst[i].type = "UID" /\ burst[i].uid = f[i]
        /\ DOMAIN burst = 1..N
    BY <1>5 DEF UidMsg
  <1>7. burst \in Seq(Message)
    BY <1>1, <1>5
  <1>8. \A t, u : Continues(burst, FALSE, u \in X, t, u)
    BY <1>3, <1>5, <1>6 DEF Continues, Introduces
  <1> QED BY <1>6, <1>7, <1>8 DEF X

LEMMA ServerEstabId ==
    ASSUME NickInv, NickInv', IdInv, NEW s \in Server, NEW v \in Server, ServerEstab(s, v)
    PROVE  IdInv'
  <1> DEFINE X == {w \in Persons(s) : Home[w] \notin Side[<<s, v>>]}
  <1>1. PICK told \in [Link -> SUBSET Uid] : ToldOK(told)
    BY DEF IdInv
  <1>2. /\ v \in Peers(s) /\ <<s, v>> \in Link /\ <<v, s>> \in Link
        /\ queue[<<v, s>>] # <<>> /\ Line(v, s).type = "SERVER"
        /\ UNCHANGED <<tables, used, unregistered, nick>>
        /\ link' = [link EXCEPT ![<<s, v>>] = "up"]
    BY LinkEnds DEF ServerEstab, Parses, Line, tables
  <1>3. PICK burst \in Bursts(s, v) : Answer(v, s, ToOne(s, v, burst))
    BY DEF ServerEstab
  <1> DEFINE out == ToOne(s, v, burst)
  <1>4. link[<<s, v>>] # "up"
    <2>1. queue[<<v, s>>] \in Seq(Message)
      BY <1>2 DEF NickInv, TypeOK
    <2>2. 1 \in DOMAIN queue[<<v, s>>] /\ queue[<<v, s>>][1].type = "SERVER"
      BY <1>2, <2>1, EmptySeq, LenProperties, HeadTailProperties DEF Line
    <2> QED BY <1>2, <2>2 DEF IdInv, ServerOnce
  <1>5. link'[<<s, v>>] = "up" /\ \A l \in Link \ {<<s, v>>} : link'[l] = link[l]
    BY <1>2 DEF NickInv, TypeOK
  <1>6. told[<<s, v>>] = {}
    BY <1>1, <1>2, <1>4 DEF ToldOK, ToldTypes
  <1>7. X \subseteq Uid /\ X \subseteq used \ unregistered /\ \A u \in X : Known(s, u)
    BY DEF Persons, NickInv, UsersUsed
  <1> HIDE DEF X
  <1>8. PICK told2 : told2 = [told EXCEPT ![<<s, v>>] = X]
    OBVIOUS
  <1>9. /\ told2 \in [Link -> SUBSET Uid] /\ told2[<<s, v>>] = X
        /\ \A l \in Link \ {<<s, v>>} : told2[l] = told[l]
    BY <1>2, <1>7, <1>8
  <1>10. ToldTypes(told2)'
    BY <1>1, <1>2, <1>5, <1>7, <1>9 DEF ToldOK, ToldTypes
  <1>11. \A l \in Link : l[1] # s => told2[l] = told[l]
    BY <1>9
  <1>12. /\ burst \in Seq(Message) /\ \A i \in DOMAIN burst : burst[i].type # "SERVER"
         /\ \A t, u : Continues(burst, FALSE, u \in X, t, u)
    BY <1>2, <1>3, BurstContinues DEF X
  <1>13. ASSUME NEW t \in Peers(s)
         PROVE  /\ out[t] \in Seq(Message) /\ \A i \in DOMAIN out[t] : out[t][i].type # "SERVER"
                /\ \A u \in Uid : Continues(out[t], u \in told[<<s, t>>], u \in told2[<<s, t>>], t, u)
    <2>1. CASE t = v
      <3>1. out[t] = burst
        BY <1>2, <2>1 DEF ToOne
      <3>2. \A u \in Uid : (u \in told[<<s, t>>]) = FALSE /\ (u \in told2[<<s, t>>]) = (u \in X)
        BY <1>6, <1>9, <2>1
      <3> QED BY <1>12, <3>1, <3>2
    <2>2. CASE t # v
      <3>1. out[t] = <<>>
        BY <2>2 DEF ToOne
      <3>2. told2[<<s, t>>] = told[<<s, t>>]
        BY <1>9, <2>2, LinkEnds
      <3>3. <<>> \in Seq(Plain)
        BY EmptySeq
      <3> QED BY <3>1, <3>2, <3>3, PlainContinues
    <2> QED BY <2>1, <2>2
  <1>14. ASSUME NEW w \in Peers(s), NEW u \in Uid, Had(told2, s, w, u)'
         PROVE  Had(told, s, w, u)
    <2>1. \A t \in Peers(s) : <<s, t>> \in Link
      BY LinkEnds
    <2>2. Known(s, u)' = Known(s, u)
      BY <1>2 DEF Known
    <2>3. \A t \in Peers(s) : u \in told2[<<s, t>>] => u \in told[<<s, t>>] \/ Known(s, u)
      BY <1>7, <1>9, <2>1
    <2> QED BY <1>14, <2>2, <2>3 DEF Had
  <1>15. \A u \in Uid : ~SureRemoval(Line(v, s), s, u)
    BY <1>2 DEF SureRemoval
  <1>16. TypeOK /\ TypeOK' /\ ServerOnce
    BY DEF NickInv, IdInv
  <1>17. \A r \in Server \ {s}, u \in Uid : Known(r, u)' => Known(r, u)
    BY <1>2 DEF Known
  <1> HIDE DEF out
  <1>18. Answer(v, s, out)
    BY <1>3 DEF out
  <1>19. ToldOK(told2)'
    BY <1>1, <1>2, <1>5, <1>10, <1>11, <1>13, <1>14, <1>15, <1>16, <1>17, <1>18, AnswerTold
  <1>20. ServerOnce'
    <2>1. \A t \in Peers(s) : out[t] \in Seq(Message) /\ \A i \in DOMAIN out[t] : out[t][i].type # "SERVER"
      BY <1>13
    <2>2. v \in Peers(s) /\ queue[<<v, s>>] # <<>>
      BY <1>2
    <2> QED BY <1>5, <1>16, <1>18, <2>1, <2>2, AnswerOnce
  <1> QED BY <1>9, <1>19, <1>20 DEF IdInv

LEMMA ConnectId ==
    ASSUME NickInv, NickInv', IdInv, NEW s \in Server, NEW v \in Server, Connect(s, v)
    PROVE  IdInv'
  <1> DEFINE X == {w \in Persons(v) : Home[w] \notin Side[<<v, s>>]}
  <1>1. PICK told \in [Link -> SUBSET Uid] : ToldOK(told)
    BY DEF IdInv
  <1>2. /\ v \in Peers(s) /\ s \in Peers(v) /\ <<s, v>> \in Link /\ <<v, s>> \in Link /\ s # v
        /\ UNCHANGED <<tables, used, unregistered, nick>>
        /\ link[<<s, v>>] = "down" /\ link[<<v, s>>] = "down"
        /\ queue[<<s, v>>] = <<>> /\ queue[<<v, s>>] = <<>>
    BY LinkEnds DEF Connect, Peers, tables
  <1>3. /\ link'[<<s, v>>] = "connecting" /\ link'[<<v, s>>] = "up"
        /\ \A l \in Link \ {<<s, v>>, <<v, s>>} : link'[l] = link[l]
    BY <1>2 DEF Connect, NickInv, TypeOK
  <1>4. PICK burst \in Bursts(v, s) : queue' = [queue EXCEPT ![<<v, s>>] = <<ServerMsg>> \o burst]
    BY DEF Connect
  <1>5. /\ queue'[<<v, s>>] = <<ServerMsg>> \o burst
        /\ \A l \in Link \ {<<v, s>>} : queue'[l] = queue[l]
    BY <1>2, <1>4 DEF NickInv, TypeOK
  <1>6. X \subseteq Uid /\ X \subseteq used \ unregistered /\ \A u \in X : Known(v, u)
    BY DEF Persons, NickInv, UsersUsed
  <1>7. /\ burst \in Seq(Message) /\ \A i \in DOMAIN burst : burst[i].type # "SERVER"
        /\ \A t, u : Continues(burst, FALSE, u \in X, t, u)
    BY <1>2, <1>4, BurstContinues
  <1> HIDE DEF X
  <1>8. PICK told2 : told2 = [told EXCEPT ![<<v, s>>] = X]
    OBVIOUS
  <1>9. /\ told2 \in [Link -> SUBSET Uid] /\ told2[<<v, s>>] = X
        /\ \A l \in Link \ {<<v, s>>} : told2[l] = told[l]
    BY <1>2, <1>6, <1>8
  <1>10. \A l \in Link : link'[l] # "up" => link[l] # "up"
    BY <1>2, <1>3
  <1>11. ToldTypes(told2)'
    <2>1. ToldTypes(told)
      BY <1>1 DEF ToldOK
    <2> QED BY <1>2, <1>3, <1>6, <1>9, <1>10, <2>1 DEF ToldTypes
  <1>12. \A u \in Uid : Home[u] \in Side[<<s, v>>] => ~Had(told, s, v, u)
    BY <1>1, <1>2 DEF ToldOK, ToldPair
  <1>13. \A u \in Uid : Home[u] \in Side[<<v, s>>] => ~Had(told, v, s, u)
    BY <1>1, <1>2 DEF ToldOK, ToldPair
  <1>14. ASSUME NEW w \in Peers(v), NEW u \in Uid, Had(told2, v, w, u)'
         PROVE  Had(told, v, w, u)
    <2>1. \A t \in Peers(v) : <<v, t>> \in Link
      BY LinkEnds
    <2>2. Known(v, u)' = Known(v, u)
      BY <1>2 DEF Known
    <2>3. \A t \in Peers(v) : u \in told2[<<v, t>>] => u \in told[<<v, t>>] \/ Known(v, u)
      BY <1>6, <1>9, <2>1
    <2> QED BY <1>14, <2>2, <2>3 DEF Had
  <1>15. ServerMsg \in Message /\ <<ServerMsg>> \in Seq(Message)
    <2>1. ServerMsg \in Message
      BY DEF ServerMsg, Message
    <2> QED BY <2>1, ShortSeq
  <1>16. ASSUME NEW t \in Peers(v), NEW u \in Uid, Home[u] \in Side[<<t, v>>]
         PROVE  Timeline(queue'[<<v, t>>], Had(told, t, v, u), u \in told2[<<v, t>>], t, u)
    <2>1. t \in Server /\ v \in Peers(t) /\ <<v, t>> \in Link
      BY LinkEnds
    <2>2. CASE t # s
      <3>1. queue'[<<v, t>>] = queue[<<v, t>>] /\ told2[<<v, t>>] = told[<<v, t>>]
        BY <1>5, <1>9, <2>1, <2>2
      <3> QED BY <1>1, <1>16, <2>1, <3>1 DEF ToldOK, ToldPair
    <2>3. CASE t = s
      <3> DEFINE k == Had(told, s, v, u)
      <3>1. Timeline(<<>>, k, FALSE, s, u)
        BY <1>12, <1>16, <2>3, TimelineEmpty
      <3>2. Continues(<<ServerMsg>>, FALSE, FALSE, s, u)
        BY DEF Continues, Introduces, ServerMsg
      <3> HIDE DEF k
      <3>3. Timeline(<<>> \o <<ServerMsg>>, k, FALSE, s, u)
        BY <1>15, <3>1, <3>2, EmptySeq, TimelineContinues
      <3>4. <<>> \o <<ServerMsg>> = <<ServerMsg>>
        BY <1>15, ConcatEmptySeq
      <3>5. Timeline(<<ServerMsg>>, k, FALSE, s, u)
        BY <3>3, <3>4
      <3>6. Continues(burst, FALSE, u \in X, s, u)
        BY <1>7
      <3>7. Timeline(<<ServerMsg>> \o burst, k, u \in X, s, u)
        BY <1>7, <1>15, <3>5, <3>6, TimelineContinues
      <3> QED BY <1>5, <1>9, <2>3, <3>7 DEF k
    <2> QED BY <2>2, <2>3
  <1>17. ASSUME NEW w \in Peers(v), NEW u \in Uid, Home[u] \in Side[<<v, w>>]
         PROVE  /\ Timeline(queue'[<<w, v>>], Had(told2, v, w, u)', u \in told[<<w, v>>], v, u)
                /\ Had(told2, v, w, u)' => link'[<<v, w>>] = "up"
    <2>1. <<w, v>> \in Link /\ <<v, w>> \in Link /\ queue[<<w, v>>] \in Seq(Message)
      BY LinkEnds DEF NickInv, TypeOK
    <2>2. queue'[<<w, v>>] = queue[<<w, v>>]
      BY <1>2, <1>5, <2>1
    <2>3. ToldPair(told, v, w, u)
      BY <1>1, <1>17 DEF ToldOK
    <2>4. Timeline(queue'[<<w, v>>], Had(told2, v, w, u)', u \in told[<<w, v>>], v, u)
      BY <1>14, <2>1, <2>2, <2>3, TimelineWeaker DEF ToldPair
    <2>5. Had(told2, v, w, u)' => link'[<<v, w>>] = "up"
      BY <1>2, <1>3, <1>14, <2>1, <2>3 DEF ToldPair
    <2> QED BY <2>4, <2>5
  <1>18. TypeOK' /\ ServerOnce
    BY DEF NickInv, IdInv
  <1>19. \A l \in Link : l[1] # v => told2[l] = told[l] /\ (link[l] = "up" => link'[l] = "up")
    BY <1>2, <1>3, <1>9
  <1>20. /\ \A r \in Server \ {v}, u \in Uid : Known(r, u)' => Known(r, u)
         /\ \A l \in Link : l[1] # v /\ l[2] # v => queue'[l] = queue[l]
    BY <1>2, <1>5 DEF Known
  <1>21. ToldOK(told2)'
    BY <1>1, <1>11, <1>16, <1>17, <1>18, <1>19, <1>20, ServerStep
  <1>22. ServerOnce'
    <2> SUFFICES ASSUME NEW r \in Server, NEW w \in Peers(r)
                 PROVE  \A i \in DOMAIN queue'[<<w, r>>] :
                          queue'[<<w, r>>][i].type = "SERVER" => i = 1 /\ link'[<<r, w>>] # "up"
      BY DEF ServerOnce, Peers
    <2>1. <<w, r>> \in Link /\ <<r, w>> \in Link
      BY LinkEnds
    <2>2. CASE <<w, r>> = <<v, s>>
      <3>1. \A i \in DOMAIN <<ServerMsg>> : <<ServerMsg>>[i].type = "SERVER" => i = 1 /\ ~FALSE
        OBVIOUS
      <3>2. \A i \in DOMAIN (<<ServerMsg>> \o burst) : (<<ServerMsg>> \o burst)[i].type = "SERVER" => i = 1 /\ ~FALSE
        BY <1>7, <1>15, <3>1, OnceAppended DEF NickInv
      <3> QED BY <1>3, <1>5, <2>2, <3>2
    <2>3. CASE <<w, r>> = <<s, v>>
      <3>1. queue'[<<w, r>>] = <<>>
        BY <1>2, <1>5, <2>3
      <3> QED BY <3>1
    <2>4. CASE <<w, r>> # <<v, s>> /\ <<w, r>> # <<s, v>>
      <3>1. queue'[<<w, r>>] = queue[<<w, r>>] /\ link'[<<r, w>>] = link[<<r, w>>]
        BY <1>3, <1>5, <2>1, <2>4
      <3> QED BY <1>18, <3>1 DEF ServerOnce
    <2> QED BY <2>2, <2>3, <2>4
  <1> QED BY <1>9, <1>21, <1>22 DEF IdInv

\* s drops its neighbour v, the stream to v ends after a part of it.
LEMMA DropLinkId ==
    ASSUME NickInv, NickInv', IdInv, NEW s \in Server, NEW v \in Peers(s), NEW toV,
           DropLink(s, v, toV), used' = used,
           \/ toV = <<>> /\ link[<<v, s>>] = "down"
           \/ \E n \in 0..Len(queue[<<s, v>>]) : toV = Append(SubSeq(queue[<<s, v>>], 1, n), CloseMsg)
    PROVE  IdInv'
  <1>1. PICK told \in [Link -> SUBSET Uid] : ToldOK(told)
    BY DEF IdInv
  <1>2. /\ v \in Server /\ s \in Peers(v) /\ <<s, v>> \in Link /\ <<v, s>> \in Link /\ s # v
        /\ Side[<<s, v>>] \subseteq Beyond(s, v)
    BY LinkEnds
  <1>3. link'[<<s, v>>] = "down" /\ \A l \in Link \ {<<s, v>>} : link'[l] = link[l]
    BY <1>2 DEF DropLink, NickInv, TypeOK
  <1> DEFINE up == link[<<s, v>>] = "up"
  <1>4. /\ unregistered' \subseteq unregistered
        /\ \A r \in Server, u \in Uid :
             Known(r, u)' => Known(r, u) /\ ~(r = s /\ up /\ Home[u] \in Beyond(s, v))
    BY DEF DropLink, ExitClients, Update, NickInv, TypeOK, Known, Dependents
  <1>5. /\ queue'[<<v, s>>] = <<>> /\ queue'[<<s, v>>] = toV
        /\ \A l \in Link \ {<<v, s>>, <<s, v>>} :
             queue'[l] = IF l[1] = s /\ link[l] = "up" /\ up THEN Append(queue[l], SquitMsg(v)) ELSE queue[l]
    BY <1>2 DEF DropLink
  <1>6. PICK told2 : told2 = [l \in Link |-> IF l = <<s, v>> THEN {}
                                             ELSE IF up THEN Taken(told, s, v, v)[l] ELSE told[l]]
    OBVIOUS
  <1>7. /\ told2 \in [Link -> SUBSET Uid] /\ told2[<<s, v>>] = {}
        /\ \A l \in Link : told2[l] \subseteq told[l]
        /\ \A l \in Link : l[1] # s => told2[l] = told[l]
    BY <1>2, <1>6 DEF Taken
  <1>8. ASSUME NEW t \in Peers(s) \ {v}
        PROVE  /\ <<s, t>> \in Link /\ <<s, t>> # <<s, v>>
               /\ told2[<<s, t>>] = IF up THEN {u \in told[<<s, t>>] : Home[u] \notin Beyond(t, v)}
                                          ELSE told[<<s, t>>]
    BY <1>6, LinkEnds DEF Taken
  <1> HIDE DEF up
  <1>9. ToldTypes(told2)'
    <2>1. ToldTypes(told)
      BY <1>1 DEF ToldOK
    <2> QED BY <1>3, <1>4, <1>7, <2>1 DEF ToldTypes
  <1>10. ASSUME NEW w \in Peers(s), NEW u \in Uid, Had(told2, s, w, u)'
         PROVE  Had(told, s, w, u)
    <2>1. \A t \in Peers(s) : <<s, t>> \in Link
      BY LinkEnds
    <2> QED BY <1>4, <1>7, <1>10, <2>1 DEF Had
  <1>11. ASSUME NEW u \in Uid, Home[u] \in Side[<<s, v>>] PROVE ~Had(told2, s, v, u)'
    <2>1. CASE up
      <3>1. ~Known(s, u)'
        BY <1>2, <1>4, <1>11, <2>1
      <3>2. ASSUME NEW t \in Peers(s) \ {v} PROVE u \notin told2[<<s, t>>]
        <4>1. Home[u] \in Beyond(t, v)
          BY <1>2, <1>11, BeyondAgrees
        <4> QED BY <1>8, <2>1, <4>1
      <3> QED BY <3>1, <3>2 DEF Had
    <2>2. CASE ~up
      BY <1>1, <1>10, <1>11, <2>2 DEF up, ToldOK, ToldPair
    <2> QED BY <2>1, <2>2
  <1>12. SquitMsg(v) \in Message /\ <<SquitMsg(v)>> \in Seq(Message) /\ SquitMsg(v).type # "SERVER"
    <2>1. SquitMsg(v) \in Message
      BY <1>2 DEF SquitMsg, Message
    <2> QED BY <2>1, ShortSeq DEF SquitMsg
  <1>13. ASSUME NEW u \in Uid, Home[u] \in Side[<<v, s>>]
         PROVE  Timeline(toV, Had(told, v, s, u), FALSE, v, u)
    <2>1. ToldPair(told, v, s, u)
      BY <1>1, <1>2, <1>13 DEF ToldOK
    <2>2. CASE toV = <<>> /\ link[<<v, s>>] = "down"
      <3>1. ~Had(told, v, s, u)
        BY <2>1, <2>2 DEF ToldPair
      <3> QED BY <2>2, <3>1, TimelineEmpty
    <2>3. ASSUME NEW n \in 0..Len(queue[<<s, v>>]), toV = Append(SubSeq(queue[<<s, v>>], 1, n), CloseMsg)
          PROVE  Timeline(toV, Had(told, v, s, u), FALSE, v, u)
      <3>1. queue[<<s, v>>] \in Seq(Message)
        BY <1>2 DEF NickInv, TypeOK
      <3>2. Timeline(queue[<<s, v>>], Had(told, v, s, u), u \in told[<<s, v>>], v, u)
        BY <2>1 DEF ToldPair
      <3> QED BY <2>3, <3>1, <3>2, TimelineCut
    <2> QED BY <2>2, <2>3
  <1>14. ASSUME NEW t \in Peers(s), NEW u \in Uid, Home[u] \in Side[<<t, s>>]
         PROVE  Timeline(queue'[<<s, t>>], Had(told, t, s, u), u \in told2[<<s, t>>], t, u)
    <2>1. t \in Server /\ s \in Peers(t) /\ <<s, t>> \in Link /\ s # t /\ queue[<<s, t>>] \in Seq(Message)
      BY LinkEnds DEF NickInv, TypeOK
    <2>2. CASE t = v
      <3>1. (u \in told2[<<s, v>>]) = FALSE
        BY <1>7
      <3> QED BY <1>5, <1>13, <1>14, <2>2, <3>1
    <2>3. CASE t # v /\ link[<<s, t>>] = "up" /\ up
      <3>1. queue'[<<s, t>>] = queue[<<s, t>>] \o <<SquitMsg(v)>>
        BY <1>2, <1>5, <1>12, <2>1, <2>3, AppendIsConcat
      <3>2. u \in told[<<s, t>>] /\ ~(u \in told2[<<s, t>>]) => Home[u] \in Beyond(t, v)
        BY <1>8, <2>3
      <3>3. Continues(<<SquitMsg(v)>>, u \in told[<<s, t>>], u \in told2[<<s, t>>], t, u)
        BY <1>2, <3>2, SquitContinues
      <3>4. TypeOK
        BY DEF NickInv
      <3> QED BY <1>1, <1>12, <1>14, <3>1, <3>3, <3>4, OutContinues
    <2>4. CASE t # v /\ ~(link[<<s, t>>] = "up" /\ up)
      <3>1. queue'[<<s, t>>] = queue[<<s, t>>]
        BY <1>2, <1>5, <2>1, <2>4
      <3>2. told2[<<s, t>>] = told[<<s, t>>]
        BY <1>1, <1>8, <2>1, <2>4 DEF ToldOK, ToldTypes
      <3> QED BY <1>1, <1>14, <2>1, <3>1, <3>2 DEF ToldOK, ToldPair
    <2> QED BY <2>2, <2>3, <2>4
  <1>15. ASSUME NEW w \in Peers(s), NEW u \in Uid, Home[u] \in Side[<<s, w>>]
         PROVE  /\ Timeline(queue'[<<w, s>>], Had(told2, s, w, u)', u \in told[<<w, s>>], s, u)
                /\ Had(told2, s, w, u)' => link'[<<s, w>>] = "up"
    <2>1. <<w, s>> \in Link /\ <<s, w>> \in Link /\ queue[<<w, s>>] \in Seq(Message) /\ w # s
      BY LinkEnds DEF NickInv, TypeOK
    <2>2. CASE w = v
      <3>1. ~Had(told2, s, v, u)'
        BY <1>11, <1>15, <2>2
      <3> QED BY <1>5, <2>2, <3>1, TimelineEmpty
    <2>3. CASE w # v
      <3>1. queue'[<<w, s>>] = queue[<<w, s>>] /\ link'[<<s, w>>] = link[<<s, w>>]
        BY <1>3, <1>5, <2>1, <2>3
      <3>2. ToldPair(told, s, w, u) /\ (Had(told2, s, w, u)' => Had(told, s, w, u))
        BY <1>1, <1>10, <1>15 DEF ToldOK
      <3> QED BY <2>1, <3>1, <3>2, TimelineWeaker DEF ToldPair
    <2> QED BY <2>2, <2>3
  <1>16. TypeOK /\ TypeOK' /\ ServerOnce
    BY DEF NickInv, IdInv
  <1>17. /\ \A l \in Link : l[1] # s => told2[l] = told[l] /\ (link[l] = "up" => link'[l] = "up")
         /\ \A r \in Server \ {s}, u \in Uid : Known(r, u)' => Known(r, u)
         /\ \A l \in Link : l[1] # s /\ l[2] # s => queue'[l] = queue[l]
    BY <1>3, <1>4, <1>5, <1>7
  <1>18. ToldOK(told2)'
    BY <1>1, <1>9, <1>14, <1>15, <1>16, <1>17, ServerStep
  <1>19. ServerOnce'
    <2> SUFFICES ASSUME NEW r \in Server, NEW w \in Peers(r)
                 PROVE  \A i \in DOMAIN queue'[<<w, r>>] :
                          queue'[<<w, r>>][i].type = "SERVER" => i = 1 /\ link'[<<r, w>>] # "up"
      BY DEF ServerOnce, Peers
    <2>1. <<w, r>> \in Link /\ <<r, w>> \in Link /\ queue[<<w, r>>] \in Seq(Message)
      BY LinkEnds DEF NickInv, TypeOK
    <2>2. CASE <<w, r>> = <<v, s>>
      <3>1. queue'[<<w, r>>] = <<>>
        BY <1>5, <2>2
      <3> QED BY <3>1
    <2>3. CASE <<w, r>> = <<s, v>>
      <3>1. queue'[<<w, r>>] = toV /\ link'[<<r, w>>] = link[<<r, w>>]
        BY <1>2, <1>3, <1>5, <2>3
      <3>2. CASE toV = <<>>
        BY <3>1, <3>2
      <3>3. ASSUME NEW n \in 0..Len(queue[<<s, v>>]), toV = Append(SubSeq(queue[<<s, v>>], 1, n), CloseMsg)
            PROVE  \A i \in DOMAIN toV : toV[i].type = "SERVER" => i = 1 /\ link[<<v, s>>] # "up"
        <4>1. \A i \in DOMAIN toV : (i \in DOMAIN queue[<<s, v>>] /\ toV[i] = queue[<<s, v>>][i])
                                      \/ toV[i] = CloseMsg
          <5>1. Len(queue[<<s, v>>]) \in Nat /\ DOMAIN queue[<<s, v>>] = 1..Len(queue[<<s, v>>])
            BY <2>1, <2>3, LenProperties
          <5>2. /\ DOMAIN toV = 1..(n + 1) /\ toV[n + 1] = CloseMsg
                /\ \A i \in 1..n : toV[i] = queue[<<s, v>>][i]
            BY <2>1, <2>3, <3>3, CutStream
          <5>3. \A i \in 1..(n + 1) : i \in 1..n \/ i = n + 1
            BY <5>1
          <5>4. \A i \in 1..n : i \in DOMAIN queue[<<s, v>>]
            BY <5>1
          <5> QED BY <5>2, <5>3, <5>4
        <4>2. \A i \in DOMAIN queue[<<s, v>>] :
                queue[<<s, v>>][i].type = "SERVER" => i = 1 /\ link[<<v, s>>] # "up"
          BY <1>2, <1>16 DEF ServerOnce
        <4>3. CloseMsg.type # "SERVER"
          BY DEF CloseMsg
        <4> QED BY <4>1, <4>2, <4>3
      <3> QED BY <2>3, <3>1, <3>2, <3>3
    <2>4. CASE <<w, r>> # <<v, s>> /\ <<w, r>> # <<s, v>>
      <3>1. \/ queue'[<<w, r>>] = queue[<<w, r>>]
            \/ queue'[<<w, r>>] = queue[<<w, r>>] \o <<SquitMsg(v)>>
        BY <1>5, <1>12, <2>1, <2>4, AppendIsConcat
      <3>2. link'[<<r, w>>] = link[<<r, w>>]
        BY <1>3, <2>1, <2>4
      <3>3. \A i \in DOMAIN queue[<<w, r>>] :
              queue[<<w, r>>][i].type = "SERVER" => i = 1 /\ ~(link[<<r, w>>] = "up")
        BY <1>16 DEF ServerOnce
      <3>4. \A i \in DOMAIN <<SquitMsg(v)>> : <<SquitMsg(v)>>[i].type # "SERVER"
        BY <1>12
      <3>5. \A i \in DOMAIN (queue[<<w, r>>] \o <<SquitMsg(v)>>) :
              (queue[<<w, r>>] \o <<SquitMsg(v)>>)[i].type = "SERVER" => i = 1 /\ ~(link[<<r, w>>] = "up")
        BY <1>12, <1>16, <2>1, <3>3, <3>4, OnceAppended
      <3> QED BY <3>1, <3>2, <3>3, <3>5
    <2> QED BY <2>2, <2>3, <2>4
  <1> QED BY <1>7, <1>18, <1>19 DEF IdInv

LEMMA LinkEndsId ==
    ASSUME NickInv, NickInv', IdInv, NEW s \in Server, NEW v \in Server, Break(s, v) \/ ReadClose(s, v)
    PROVE  IdInv'
  <1>1. CASE Break(s, v)
    <2>1. v \in Peers(s) /\ used' = used
      BY <1>1 DEF Break, Peers
    <2>2. PICK toV : /\ DropLink(s, v, toV)
                     /\ \/ toV = <<>> /\ link[<<v, s>>] = "down"
                        \/ \E n \in 0..Len(queue[<<s, v>>]) :
                             toV = Append(SubSeq(queue[<<s, v>>], 1, n), CloseMsg)
      BY <1>1 DEF Break
    <2> QED BY <2>1, <2>2, DropLinkId
  <1>2. CASE ReadClose(s, v)
    <2>1. /\ v \in Peers(s) /\ queue[<<v, s>>] # <<>> /\ Line(v, s).type = "CLOSE"
          /\ DropLink(s, v, <<>>) /\ UNCHANGED <<used, left>>
      BY <1>2 DEF ReadClose, Parses, Line
    <2>2. Line(v, s) \in Legal(v, s)
      BY <2>1, HeadTailProperties DEF NickInv, LegalQueues, Line
    <2>3. link[<<v, s>>] = "down"
      BY <2>1, <2>2 DEF Legal
    <2> QED BY <2>1, <2>3, DropLinkId
  <1> QED BY <1>1, <1>2

-----------------------------------------------------------------------------
LEMMA InitId == Init => IdInv
  <1> SUFFICES ASSUME Init PROVE IdInv
    OBVIOUS
  <1>1. ServerOnce
    <2>1. \A s \in Server : \A v \in Peers(s) : queue[<<v, s>>] = <<>>
      BY LinkEnds DEF Init
    <2> QED BY <2>1 DEF ServerOnce
  <1>2. PICK told : told = [l \in Link |-> {}]
    OBVIOUS
  <1>3. told \in [Link -> SUBSET Uid] /\ ToldTypes(told)
    BY <1>2 DEF ToldTypes, Init
  <1>4. ASSUME NEW s \in Server, NEW v \in Peers(s), NEW u \in Uid PROVE ToldPair(told, s, v, u)
    <2>1. ~Had(told, s, v, u)
      BY <1>2, LinkEnds DEF Had, Known, Init
    <2>2. queue[<<v, s>>] = <<>>
      BY LinkEnds DEF Init
    <2> QED BY <2>1, <2>2, TimelineEmpty DEF ToldPair
  <1> QED BY <1>1, <1>3, <1>4 DEF IdInv, ToldOK

LEMMA StepId == NickInv /\ NickInv' /\ IdInv /\ [Next]_vars => IdInv'
  <1> SUFFICES ASSUME NickInv, NickInv', IdInv, [Next]_vars PROVE IdInv'
    OBVIOUS
  <1>1. CASE Local
    <2>1. ASSUME NEW u \in Uid, NEW n \in Nick, NEW t \in Clock[u], MrNick(u, n, t) \/ ChangeLocalNick(u, n, t)
          PROVE  IdInv'
      <3>1. t \in Nat
        BY ClientAssumption
      <3> QED BY <2>1, <3>1, MrNickId, ChangeLocalNickId
    <2>2. ASSUME NEW u \in Uid, RegisterLocalUser(u) \/ Quit(u) PROVE IdInv'
      BY <2>2, RegisterLocalUserId, ExitLocalId DEF Quit
    <2>3. ASSUME NEW o \in Uid, NEW u \in Uid, MoKill(o, u) PROVE IdInv'
      BY <2>3, MoKillId
    <2> QED BY <1>1, <2>1, <2>2, <2>3 DEF Local
  <1>2. ASSUME NEW s \in Server, NEW v \in Server, Receive(s, v) PROVE IdInv'
    BY <1>2, UnknownPrefixId, UidEntersId, CollisionId, NickPassedOnId, QuitOrKillId,
       MsSquitId, ServerEstabId, LinkEndsId DEF Receive
  <1>3. ASSUME NEW s \in Server, NEW v \in Server, Connect(s, v) \/ Break(s, v) PROVE IdInv'
    BY <1>3, ConnectId, LinkEndsId
  <1>4. CASE UNCHANGED vars
    <2>1. UNCHANGED <<nick, unregistered, used, link, queue>>
      BY <1>4 DEF vars
    <2>2. ServerOnce'
      BY <2>1 DEF IdInv, ServerOnce
    <2>3. ASSUME NEW told, ToldOK(told) PROVE ToldOK(told)'
      <3>1. ToldTypes(told)'
        BY <2>1, <2>3 DEF ToldOK, ToldTypes
      <3>2. \A s, v, u : ToldPair(told, s, v, u) => ToldPair(told, s, v, u)'
        BY <2>1 DEF ToldPair, Had, Known
      <3> QED BY <2>3, <3>1, <3>2 DEF ToldOK
    <2> QED BY <2>2, <2>3 DEF IdInv
  <1> QED BY <1>1, <1>2, <1>3, <1>4 DEF Next

\* No UID is introduced to a server that has it, splits and rejoins included:
\* hash_find_id's "ID collision" branch of ms_uid is dead.
THEOREM IdsNeverCollide == Spec => []NoIdCollision
  <1>1. NickInv /\ IdInv => NoIdCollision
    <2> SUFFICES ASSUME NickInv, IdInv, NEW s \in Server, NEW v \in Peers(s), Parses(s, v, {"UID"})
                 PROVE  ~Known(s, Line(v, s).uid)
      BY DEF NoIdCollision
    <2>1. PICK told \in [Link -> SUBSET Uid] : ToldOK(told)
      BY DEF IdInv
    <2> QED BY <2>1, EntersFresh DEF Had
  <1>2. Spec => [](NickInv /\ IdInv)
    BY InitKeeps, StepKeeps, InitId, StepId, PTL DEF Spec
  <1> QED BY <1>1, <1>2, PTL

=============================================================================
