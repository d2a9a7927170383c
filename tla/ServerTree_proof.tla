-------------------------- MODULE ServerTree_proof --------------------------
(***************************************************************************)
(* Proofs about ServerTree, for every set of servers, every configuration  *)
(* and every number of connections, losses and SQUITs: what a server keeps *)
(* is well typed; its list, its links and who hangs below whom agree; and  *)
(* when all is quiet the links are a forest whose servers know one another.*)
(***************************************************************************)
EXTENDS ServerTree, FiniteSetTheorems, TLAPS

(***************************************************************************)
(* TreeInv is not inductive.  That a server whose neighbour goes loses     *)
(* nobody's link needs that everybody known through a link hangs below the *)
(* neighbour, and that a new server is at the head needs that the list has *)
(* no places of servers that are gone.                                     *)
(***************************************************************************)
Names(s) == {e.name : e \in global_serv_list[s]}
Pairs(s) == {<<e.up, e.name>> : e \in global_serv_list[s]}

BelowKnown(s) == \A e \in global_serv_list[s] : e.below \subseteq Names(s)

BehindNeighbour(s) ==
    \A e \in global_serv_list[s] : e.name \in Reach(Peer(e.from, s), Pairs(s))

LocalInv(s) ==
    /\ KnownOnce(s) /\ ThroughLinks(s) /\ LinksKnown(s)
    /\ IntroducedBefore(s) /\ InOrder(s)
    /\ BelowKnown(s) /\ BehindNeighbour(s)

Unmade ==
    \A k \in Conn : ends[k] = <<>> => \A s \in Server : status[k][s] = "none"

StrongInv == TypeOK /\ Unmade /\ \A s \in Server : LocalInv(s)

-----------------------------------------------------------------------------
(* Reach: the least set that has x and is closed under R.                  *)

LEMMA ReachStart ==
    ASSUME NEW x \in Server, NEW R
    PROVE  x \in Reach(x, R)
BY DEF Reach

LEMMA ReachStep ==
    ASSUME NEW x, NEW R, NEW u \in Reach(x, R), NEW v \in Server, <<u, v>> \in R
    PROVE  v \in Reach(x, R)
<1> SUFFICES ASSUME NEW S \in SUBSET Server, x \in S,
                    \A p \in R : p[1] \in S => p[2] \in S
             PROVE  v \in S
  BY DEF Reach
<1>1. u \in S
  BY DEF Reach
<1>2. <<u, v>>[1] \in S => <<u, v>>[2] \in S
  OBVIOUS
<1> QED BY <1>1, <1>2

LEMMA ReachMono ==
    ASSUME NEW x, NEW R, NEW T, R \subseteq T, NEW y \in Reach(x, R)
    PROVE  y \in Reach(x, T)
BY DEF Reach

\* What x reaches is reached without what hangs below z, unless it does so.
LEMMA ReachWithout ==
    ASSUME NEW x, NEW z, NEW R, NEW T,
           \A p \in R : p[2] \in Server /\ (p[2] \notin Reach(z, R) => p \in T),
           NEW y \in Reach(x, R), y \notin Reach(z, R)
    PROVE  y \in Reach(x, T)
<1> DEFINE D == Reach(z, R)
<1> SUFFICES ASSUME NEW S \in SUBSET Server, x \in S,
                    \A p \in T : p[1] \in S => p[2] \in S
             PROVE  y \in S
  BY DEF Reach
<1>1. S \cup D \in SUBSET Server
  BY DEF Reach
<1>2. ASSUME NEW p \in R, p[1] \in S \cup D
      PROVE  p[2] \in S \cup D
  <2>1. CASE p[2] \in D
    BY <2>1
  <2>2. CASE p[2] \notin D /\ p[1] \in S
    BY <2>2
  <2>3. CASE p[1] \in D
    <3>1. \A Z \in SUBSET Server : z \in Z /\ (\A q \in R : q[1] \in Z => q[2] \in Z) => p[2] \in Z
      BY <2>3 DEF Reach
    <3> QED BY <3>1 DEF Reach
  <2> QED BY <1>2, <2>1, <2>2, <2>3
<1>3. y \in S \cup D
  BY <1>1, <1>2 DEF Reach
<1> QED BY <1>3

-----------------------------------------------------------------------------
(* The steps of a server leave the others' views alone.                    *)

LEMMA PeerType ==
    ASSUME TypeOK, NEW k \in Conn, NEW s \in Server, ends[k] # <<>>
    PROVE  Peer(k, s) \in Server
BY TreeAssumption DEF TypeOK, Peer, Config

LEMMA Frame ==
    ASSUME NEW s \in Server, TypeOK, Unmade, LocalInv(s),
           global_serv_list'[s] = global_serv_list[s],
           \A k \in Conn : status'[k][s] = "server" <=> status[k][s] = "server",
           \A k \in Conn : status[k][s] = "server" => ends'[k] = ends[k]
    PROVE  LocalInv(s)'
<1> USE DEF LocalInv
<1>1. \A e \in global_serv_list[s] : e.from \in Conn /\ Peer(e.from, s)' = Peer(e.from, s)
  BY DEF ThroughLinks, TypeOK, Entry, Peer
<1>2. KnownOnce(s)'
  BY DEF KnownOnce
<1>3. ThroughLinks(s)'
  BY <1>1 DEF ThroughLinks
<1>4. LinksKnown(s)'
  BY DEF LinksKnown, Established, KnownBy, Peer
<1>5. IntroducedBefore(s)'
  BY <1>1 DEF IntroducedBefore
<1>6. InOrder(s)' /\ BelowKnown(s)'
  BY DEF InOrder, BelowKnown, Names
<1>7. BehindNeighbour(s)'
  BY <1>1 DEF BehindNeighbour, Pairs
<1> QED BY <1>2, <1>3, <1>4, <1>5, <1>6, <1>7

-----------------------------------------------------------------------------
(* A server and its dependents go.                                         *)

\* What is behind x has no other neighbour of s in it.
LEMMA NeighbourNotBehind ==
    ASSUME NEW s \in Server, TypeOK, LocalInv(s),
           NEW x \in Server, Knows(s, x), x # s,
           NEW k \in Conn, status[k][s] = "server", Peer(k, s) # x
    PROVE  Peer(k, s) \notin Reach(x, Pairs(s))
<1> DEFINE y == Peer(k, s)
           S == Server \ {s, y}
<1>1. PICK e \in global_serv_list[s] : e.name = y /\ e.from = k
  BY DEF LocalInv, LinksKnown, Established, KnownBy
<1>2. e.up = s
  BY <1>1 DEF LocalInv, IntroducedBefore
<1>3. ASSUME NEW p \in Pairs(s), p[1] \in S
      PROVE  p[2] \in S
  <2>1. PICK f \in global_serv_list[s] : p = <<f.up, f.name>>
    BY DEF Pairs
  <2>2. f.name \in Server /\ f.name # s
    BY <2>1 DEF LocalInv, KnownOnce, TypeOK, Entry
  <2>3. f.name # y
    BY <1>1, <1>2, <1>3, <2>1 DEF LocalInv, KnownOnce
  <2> QED BY <2>1, <2>2, <2>3
<1>4. S \in SUBSET Server /\ x \in S /\ y \notin S
  OBVIOUS
<1> QED BY <1>3, <1>4 DEF Reach

LEMMA RemoveKeeps ==
    ASSUME NEW s \in Server, TypeOK, LocalInv(s),
           NEW x \in Server, NEW j \in Conn, KnownBy(s, j, x),
           RemoveServers(s, Dependents(s, x)), ends' = ends,
           \A k \in Conn : status'[k][s] = "server" <=>
             status[k][s] = "server" /\ ~(k = j /\ Peer(j, s) = x)
    PROVE  LocalInv(s)'
<1> DEFINE E == global_serv_list[s]
           D == Reach(x, Pairs(s))
           Kept(e) == [e EXCEPT !.below = @ \ D]
<1>1. Dependents(s, x) = D
  BY DEF Dependents, Pairs
<1>2. global_serv_list'[s] = {Kept(e) : e \in {f \in E : f.name \notin D}}
  BY <1>1 DEF RemoveServers, TypeOK
<1>3. \A e \in E : /\ e.name \in Server /\ e.up \in Server /\ e.from \in Conn
                   /\ Kept(e).name = e.name /\ Kept(e).up = e.up
                   /\ Kept(e).from = e.from /\ Kept(e).below = e.below \ D
  BY DEF TypeOK, Entry
<1>4. \A k \in Conn, t \in Server : Peer(k, t)' = Peer(k, t)
  BY DEF Peer
<1>5. x # s /\ Knows(s, x) /\ x \in D
  BY ReachStart DEF LocalInv, KnownOnce, KnownBy, Knows
<1> HIDE DEF E, D, Kept
<1>6. KnownOnce(s)'
  BY <1>2, <1>3 DEF LocalInv, KnownOnce, E
<1>7. ThroughLinks(s)'
  <2> SUFFICES ASSUME NEW e \in E, e.name \notin D
               PROVE  status'[e.from][s] = "server"
    BY <1>2, <1>3 DEF ThroughLinks
  <2>1. status[e.from][s] = "server" /\ e.name \in Reach(Peer(e.from, s), Pairs(s))
    BY DEF LocalInv, ThroughLinks, BehindNeighbour, E
  <2> QED BY <1>3, <2>1 DEF D
<1>8. LinksKnown(s)'
  <2> SUFFICES ASSUME NEW k \in Conn, status'[k][s] = "server"
               PROVE  KnownBy(s, k, Peer(k, s))'
    BY <1>4 DEF LinksKnown, Established
  <2>1. status[k][s] = "server" /\ ~(k = j /\ Peer(j, s) = x)
    OBVIOUS
  <2>2. PICK e \in E : e.name = Peer(k, s) /\ e.from = k
    BY <2>1 DEF LocalInv, LinksKnown, Established, KnownBy, E
  <2>3. Peer(k, s) # x
    BY <2>1, <2>2 DEF LocalInv, KnownOnce, KnownBy, E
  <2>4. e.name \notin D
    BY <1>5, <2>1, <2>2, <2>3, NeighbourNotBehind DEF D
  <2>5. Kept(e) \in global_serv_list'[s]
    BY <1>2, <2>4
  <2> QED BY <1>3, <1>4, <2>2, <2>5 DEF KnownBy
<1>9. IntroducedBefore(s)'
  <2> SUFFICES ASSUME NEW e \in E, e.name \notin D, e.name # Peer(e.from, s)
               PROVE  \E f \in global_serv_list'[s] :
                        f.name = e.up /\ f.from = e.from /\ f.name \in Kept(e).below
    <3>1. \A e \in E : e.name = Peer(e.from, s) => e.up = s
      BY DEF LocalInv, IntroducedBefore, E
    <3> QED BY <1>2, <1>3, <1>4, <3>1 DEF IntroducedBefore
  <2>1. PICK f \in E : f.name = e.up /\ f.from = e.from /\ f.name \in e.below
    BY DEF LocalInv, IntroducedBefore, E
  <2>2. <<f.name, e.name>> \in Pairs(s)
    BY <2>1 DEF Pairs, E
  <2>3. f.name \notin D
    BY <1>3, <2>2, ReachStep DEF D
  <2>4. Kept(f) \in global_serv_list'[s]
    BY <1>2, <2>3
  <2> QED BY <1>3, <2>1, <2>3, <2>4
<1>10. InOrder(s)'
  <2>1. \A e, f \in E :
          /\ e.name \notin e.below
          /\ e = f \/ e.name \in f.below \/ f.name \in e.below
          /\ f.name \in e.below => f.below \subseteq e.below
    BY DEF LocalInv, InOrder, E
  <2> QED BY <1>2, <1>3, <2>1 DEF InOrder
<1>11. BelowKnown(s)'
  <2>1. \A e \in E : e.below \subseteq {f.name : f \in E}
    BY DEF LocalInv, BelowKnown, Names, E
  <2>2. \A n : n \in {f.name : f \in E} /\ n \notin D => n \in {f.name : f \in global_serv_list'[s]}
    BY <1>2, <1>3
  <2> QED BY <1>2, <1>3, <2>1, <2>2 DEF BelowKnown, Names
<1>12. BehindNeighbour(s)'
  <2> SUFFICES ASSUME NEW e \in E, e.name \notin D
               PROVE  e.name \in Reach(Peer(e.from, s), Pairs(s)')
    BY <1>2, <1>3, <1>4 DEF BehindNeighbour
  <2>1. e.name \in Reach(Peer(e.from, s), Pairs(s))
    BY DEF LocalInv, BehindNeighbour, E
  <2>2. ASSUME NEW p \in Pairs(s)
        PROVE  p[2] \in Server /\ (p[2] \notin D => p \in Pairs(s)')
    <3>1. PICK f \in E : p = <<f.up, f.name>>
      BY DEF Pairs, E
    <3>2. CASE f.name \notin D
      <4>1. Kept(f) \in global_serv_list'[s]
        BY <1>2, <3>2
      <4>2. <<Kept(f).up, Kept(f).name>> \in Pairs(s)'
        BY <4>1 DEF Pairs
      <4> QED BY <1>3, <3>1, <4>2
    <3> QED BY <1>3, <3>1, <3>2
  <2> QED BY <2>1, <2>2, ReachWithout DEF D
<1> QED BY <1>6, <1>7, <1>8, <1>9, <1>10, <1>11, <1>12 DEF LocalInv

-----------------------------------------------------------------------------
(* A server comes, at the head of the list.                                *)

LEMMA AddKeeps ==
    ASSUME NEW s \in Server, TypeOK, LocalInv(s),
           NEW x \in Server, x # s, ~Knows(s, x), NEW up \in Server, NEW k \in Conn,
           AddServer(s, x, up, k), ends' = ends,
           status'[k][s] = "server",
           \A j \in Conn : status'[j][s] = "server" <=> status[j][s] = "server" \/ j = k,
           IF x = Peer(k, s) THEN up = s
           ELSE status[k][s] = "server" /\ KnownBy(s, k, up)
    PROVE  LocalInv(s)'
<1> DEFINE E == global_serv_list[s]
           new == [name |-> x, up |-> up, from |-> k, below |-> Names(s)]
<1>1. global_serv_list'[s] = E \cup {new}
  BY DEF AddServer, Names, TypeOK
<1>2. \A e \in E : /\ e.name \in Server /\ e.up \in Server /\ e.from \in Conn
                   /\ e.name # x /\ e.name \in Names(s)
  BY DEF TypeOK, Entry, Knows, Names
<1>3. \A j \in Conn, t \in Server : Peer(j, t)' = Peer(j, t)
  BY DEF Peer
<1>4. /\ new.name = x /\ new.up = up /\ new.from = k /\ new.below = Names(s)
      /\ x \notin Names(s)
  BY DEF Knows, Names
<1> HIDE DEF E, new
<1>5. KnownOnce(s)'
  BY <1>1, <1>2, <1>4 DEF LocalInv, KnownOnce, E
<1>6. ThroughLinks(s)'
  BY <1>1, <1>2, <1>4 DEF LocalInv, ThroughLinks, E
<1>7. LinksKnown(s)'
  <2> SUFFICES ASSUME NEW j \in Conn, status'[j][s] = "server"
               PROVE  \E e \in E \cup {new} : e.name = Peer(j, s) /\ e.from = j
    BY <1>1, <1>3 DEF LinksKnown, Established, KnownBy
  <2>1. CASE status[j][s] = "server"
    BY <2>1 DEF LocalInv, LinksKnown, Established, KnownBy, E
  <2>2. CASE status[j][s] # "server"
    BY <1>4, <2>2
  <2> QED BY <2>1, <2>2
<1>8. IntroducedBefore(s)'
  <2>1. ASSUME NEW e \in E
        PROVE  IF e.name = Peer(e.from, s) THEN e.up = s
               ELSE \E f \in E : f.name = e.up /\ f.from = e.from /\ f.name \in e.below
    BY DEF LocalInv, IntroducedBefore, E
  <2>2. IF new.name = Peer(new.from, s) THEN new.up = s
        ELSE \E f \in E : f.name = new.up /\ f.from = new.from /\ f.name \in new.below
    BY <1>2, <1>4 DEF KnownBy, E
  <2> QED BY <1>1, <1>2, <1>3, <1>4, <2>1, <2>2 DEF IntroducedBefore
<1>9. InOrder(s)'
  <2>1. \A e, f \in E :
          /\ e.name \notin e.below
          /\ e = f \/ e.name \in f.below \/ f.name \in e.below
          /\ f.name \in e.below => f.below \subseteq e.below
    BY DEF LocalInv, InOrder, E
  <2>2. \A e \in E : e.below \subseteq Names(s)
    BY DEF LocalInv, BelowKnown, E
  <2> QED BY <1>1, <1>2, <1>4, <2>1, <2>2 DEF InOrder
<1>10. BelowKnown(s)'
  <2>1. \A e \in E : e.below \subseteq Names(s)
    BY DEF LocalInv, BelowKnown, E
  <2>2. Names(s) \subseteq Names(s)'
    BY <1>1 DEF Names, E
  <2> QED BY <1>1, <1>4, <2>1, <2>2 DEF BelowKnown
<1>11. BehindNeighbour(s)'
  <2>1. Pairs(s) \subseteq Pairs(s)' /\ <<up, x>> \in Pairs(s)'
    BY <1>1, <1>4 DEF Pairs, E
  <2>2. ASSUME NEW e \in E
        PROVE  e.name \in Reach(Peer(e.from, s), Pairs(s)')
    <3>1. e.name \in Reach(Peer(e.from, s), Pairs(s))
      BY DEF LocalInv, BehindNeighbour, E
    <3> QED BY <2>1, <3>1, ReachMono
  <2>3. x \in Reach(Peer(k, s), Pairs(s)')
    <3>1. CASE x = Peer(k, s)
      BY <3>1, ReachStart
    <3>2. CASE x # Peer(k, s)
      <4>1. PICK f \in E : f.name = up /\ f.from = k
        BY <3>2 DEF KnownBy, E
      <4>2. up \in Reach(Peer(k, s), Pairs(s)')
        BY <2>2, <4>1
      <4> QED BY <2>1, <4>2, ReachStep
    <3> QED BY <3>1, <3>2
  <2> QED BY <1>1, <1>2, <1>3, <1>4, <2>2, <2>3 DEF BehindNeighbour
<1> QED BY <1>5, <1>6, <1>7, <1>8, <1>9, <1>10, <1>11 DEF LocalInv

-----------------------------------------------------------------------------
(* The steps: one server moves, and its connections are made or close.     *)

Statuses == {"none", "unknown", "handshake", "server", "closed"}

LEMMA OneMoves ==
    ASSUME StrongInv, TypeOK', NEW s \in Server, LocalInv(s)', ends' = ends,
           \A t \in Server \ {s} : global_serv_list'[t] = global_serv_list[t],
           \A k \in Conn, t \in Server :
             status'[k][t] = status[k][t] \/ (t = s /\ status[k][t] # "none")
    PROVE  StrongInv'
<1>1. Unmade'
  BY DEF StrongInv, Unmade
<1>2. ASSUME NEW t \in Server
      PROVE  LocalInv(t)'
  <2>1. CASE t = s
    BY <2>1
  <2>2. CASE t # s
    BY <2>2, Frame DEF StrongInv
  <2> QED BY <2>1, <2>2
<1> QED BY <1>1, <1>2 DEF StrongInv

\* Nobody comes or goes; connections that are no links may close.
LEMMA NoLinkMoves ==
    ASSUME StrongInv, NEW s \in Server, NEW K \in SUBSET Conn,
           \A k \in K : status[k][s] \in {"unknown", "handshake"},
           SetStatus(s, K, "closed"),
           UNCHANGED <<conf, ends, global_serv_list>>, left' \in SUBSET {"break", "squit"}
    PROVE  StrongInv'
<1>1. status' \in [Conn -> [Server -> Statuses]]
  BY DEF StrongInv, TypeOK, SetStatus, Statuses
<1>2. \A k \in Conn, t \in Server :
        status'[k][t] = IF k \in K /\ t = s THEN "closed" ELSE status[k][t]
  BY DEF StrongInv, TypeOK, SetStatus
<1>3. TypeOK'
  BY <1>1 DEF StrongInv, TypeOK, Statuses
<1>4. LocalInv(s)'
  BY <1>2, Frame DEF StrongInv
<1> QED BY <1>2, <1>3, <1>4, OneMoves

LEMMA ExitServerMoves ==
    ASSUME StrongInv, NEW s \in Server, NEW x \in Server, NEW j \in Conn,
           NEW K, NEW one, NEW tossed \in SUBSET Conn,
           KnownBy(s, j, x), \A k \in tossed : status[k][s] = "handshake",
           ExitServer(s, x, j, K, one, tossed),
           UNCHANGED <<conf, ends>>, left' \in SUBSET {"break", "squit"}
    PROVE  StrongInv'
<1> DEFINE closing == IF Peer(j, s) = x THEN {j} ELSE {}
<1>1. TypeOK /\ LocalInv(s) /\ status[j][s] = "server"
  BY DEF StrongInv, LocalInv, ThroughLinks, KnownBy
<1>2. /\ SetStatus(s, closing \cup tossed, "closed")
      /\ RemoveServers(s, Dependents(s, x))
  BY DEF ExitServer
<1>3. status' \in [Conn -> [Server -> Statuses]]
  BY <1>1, <1>2 DEF TypeOK, SetStatus, Statuses
<1>4. \A k \in Conn, t \in Server :
        status'[k][t] = IF k \in closing \cup tossed /\ t = s THEN "closed" ELSE status[k][t]
  BY <1>1, <1>2 DEF TypeOK, SetStatus
<1>5. \A k \in Conn : status'[k][s] = "server" <=>
        status[k][s] = "server" /\ ~(k = j /\ Peer(j, s) = x)
  BY <1>4
<1>6. LocalInv(s)'
  BY <1>1, <1>2, <1>5, RemoveKeeps
<1>7. global_serv_list' \in [Server -> SUBSET Entry]
  <2> DEFINE D == Dependents(s, x)
             L == {[e EXCEPT !.below = @ \ D] :
                     e \in {f \in global_serv_list[s] : f.name \notin D}}
  <2>1. global_serv_list' = [global_serv_list EXCEPT ![s] = L]
    BY <1>2 DEF RemoveServers
  <2>2. \A e \in global_serv_list[s] : [e EXCEPT !.below = @ \ D] \in Entry
    <3> HIDE DEF D
    <3> QED BY <1>1 DEF TypeOK, Entry
  <2>3. L \in SUBSET Entry
    BY <2>2
  <2> HIDE DEF L
  <2> QED BY <1>1, <2>1, <2>3 DEF TypeOK
<1>8. TypeOK'
  BY <1>1, <1>3, <1>7 DEF TypeOK, Statuses
<1>9. \A t \in Server \ {s} : global_serv_list'[t] = global_serv_list[t]
  BY <1>1, <1>2 DEF RemoveServers, TypeOK
<1> QED BY <1>1, <1>4, <1>6, <1>8, <1>9, OneMoves

LEMMA OverriddenType ==
    ASSUME NEW s, NEW x, NEW k
    PROVE  /\ Overridden(s, x, k) \in SUBSET Conn
           /\ \A j \in Overridden(s, x, k) : status[j][s] = "handshake" /\ j # k
BY DEF Overridden, InProgress

LEMMA AddServerMoves ==
    ASSUME StrongInv, NEW s \in Server, NEW x \in Server, NEW up \in Server, NEW k \in Conn,
           x # s, ~Knows(s, x), AddServer(s, x, up, k),
           status' \in [Conn -> [Server -> Statuses]],
           \A j \in Conn, t \in Server : status'[j][t] =
             IF t = s /\ j \in Overridden(s, x, k) THEN "closed"
             ELSE IF t = s /\ j = k THEN "server" ELSE status[j][t],
           status[k][s] # "none",
           IF x = Peer(k, s) THEN up = s
           ELSE status[k][s] = "server" /\ KnownBy(s, k, up),
           UNCHANGED <<conf, ends, left>>
    PROVE  StrongInv'
<1>1. TypeOK /\ LocalInv(s)
  BY DEF StrongInv
<1>2. /\ status'[k][s] = "server"
      /\ \A j \in Conn : status'[j][s] = "server" <=> status[j][s] = "server" \/ j = k
  BY OverriddenType
<1>3. LocalInv(s)'
  BY <1>1, <1>2, AddKeeps
<1>4. [name |-> x, up |-> up, from |-> k, below |-> {e.name : e \in global_serv_list[s]}] \in Entry
  BY <1>1 DEF TypeOK, Entry
<1>5. /\ global_serv_list' \in [Server -> SUBSET Entry]
      /\ \A t \in Server \ {s} : global_serv_list'[t] = global_serv_list[t]
  BY <1>1, <1>4 DEF AddServer, TypeOK
<1>6. TypeOK'
  BY <1>1, <1>5 DEF TypeOK, Statuses
<1>7. \A j \in Conn, t \in Server :
        status'[j][t] = status[j][t] \/ (t = s /\ status[j][t] # "none")
  BY OverriddenType
<1> QED BY <1>3, <1>5, <1>6, <1>7, OneMoves

-----------------------------------------------------------------------------
LEMMA InitStrong == Init => StrongInv
<1> SUFFICES ASSUME Init
             PROVE  StrongInv
  OBVIOUS
<1>1. 1 \in Conn /\ conf \in Configs
  BY TreeAssumption DEF Init, Conn
<1>2. /\ conf.linked = <<>> \/ conf.linked \in conf.connects
      /\ conf.connects \subseteq Server \X Server
      /\ \A s \in Server : <<s, s>> \notin conf.connects
  BY <1>1, TreeAssumption DEF Config
<1> DEFINE l == conf.linked
<1>3. CASE l = <<>>
  <2>1. /\ ends = [k \in Conn |-> <<>>]
        /\ status = [k \in Conn |-> [s \in Server |-> "none"]]
        /\ global_serv_list = [s \in Server |-> {}]
    <3>1. ends = [k \in Conn |-> <<>>]
      BY <1>3 DEF Init
    <3>2. Range(<<>>) = {}
      BY DEF Range
    <3> QED BY <1>1, <3>1, <3>2 DEF Init
  <2>2. TypeOK
    BY <1>1, <2>1 DEF TypeOK, Init
  <2>3. ASSUME NEW s \in Server
        PROVE  LocalInv(s)
    BY <2>1, <2>3 DEF LocalInv, KnownOnce, ThroughLinks, LinksKnown, Established,
       IntroducedBefore, InOrder, BelowKnown, BehindNeighbour
  <2> QED BY <2>1, <2>2, <2>3 DEF StrongInv, Unmade
<1>4. CASE l # <<>>
  <2>1. PICK u \in Server, v \in Server : l = <<u, v>> /\ u # v
    BY <1>2, <1>4
  <2>2. Range(l) = {u, v}
    BY <2>1 DEF Range
  <2>3. /\ ends = [k \in Conn |-> IF k = 1 THEN l ELSE <<>>]
        /\ \A k \in Conn, s \in Server :
             status[k][s] = IF k = 1 /\ s \in {u, v} THEN "server" ELSE "none"
        /\ status \in [Conn -> [Server -> Statuses]]
    <3>1. ends = [k \in Conn |-> IF k = 1 THEN l ELSE <<>>]
      BY DEF Init
    <3>2. Range(<<>>) = {}
      BY DEF Range
    <3>3. \A k \in Conn : Range(ends[k]) = IF k = 1 THEN {u, v} ELSE {}
      BY <1>1, <2>2, <3>1, <3>2
    <3> QED BY <3>1, <3>3 DEF Init, Statuses
  <2>4. Peer(1, u) = v /\ Peer(1, v) = u
    BY <1>1, <2>1, <2>3 DEF Peer
  <2>5. \A s \in Server : global_serv_list[s] =
          IF s \in {u, v}
          THEN {[name |-> Peer(1, s), up |-> s, from |-> 1, below |-> {}]}
          ELSE {}
    <3>1. ends[1] = l
      BY <1>1, <2>3
    <3>2. ASSUME NEW s \in Server
          PROVE  global_serv_list[s] =
                   {[name |-> t, up |-> s, from |-> 1, below |-> {}] : t \in
                      IF s \in {u, v} THEN {u, v} \ {s} ELSE {}}
      BY <2>2, <3>1 DEF Init
    <3>3. \A s \in {u, v} : {u, v} \ {s} = {Peer(1, s)}
      BY <2>1, <2>4
    <3> SUFFICES ASSUME NEW s \in Server
                 PROVE  global_serv_list[s] =
                          IF s \in {u, v}
                          THEN {[name |-> Peer(1, s), up |-> s, from |-> 1, below |-> {}]}
                          ELSE {}
      OBVIOUS
    <3>4. CASE s \in {u, v}
      <4> DEFINE ent(t) == [name |-> t, up |-> s, from |-> 1, below |-> {}]
      <4>1. global_serv_list[s] = {ent(t) : t \in {Peer(1, s)}}
        BY <3>2, <3>3, <3>4
      <4> HIDE DEF ent
      <4>2. global_serv_list[s] = {ent(Peer(1, s))}
        BY <4>1
      <4> QED BY <3>4, <4>2 DEF ent
    <3>5. CASE s \notin {u, v}
      BY <3>2, <3>5
    <3> QED BY <3>4, <3>5
  <2>6. TypeOK
    <3>1. global_serv_list \in [Server -> SUBSET Entry]
      <4>1. \A s \in Server : global_serv_list[s] \in SUBSET Entry
        <5> DEFINE ent(s) == [name |-> Peer(1, s), up |-> s, from |-> 1, below |-> {}]
        <5>1. \A s \in {u, v} : Peer(1, s) \in Server /\ s \in Server
          BY <2>1, <2>4
        <5>2. \A s \in {u, v} : ent(s) \in Entry
          BY <1>1, <5>1 DEF Entry
        <5>3. \A s \in Server : global_serv_list[s] = IF s \in {u, v} THEN {ent(s)} ELSE {}
          BY <2>5
        <5> HIDE DEF ent
        <5> QED BY <5>2, <5>3
      <4>2. /\ DOMAIN global_serv_list = Server
            /\ global_serv_list = [s \in Server |-> global_serv_list[s]]
        BY DEF Init
      <4> QED BY <4>1, <4>2
    <3> QED BY <1>1, <1>2, <2>3, <3>1 DEF TypeOK, Init, Statuses
  <2>7. Unmade
    BY <1>4, <2>3 DEF Unmade
  <2>8. ASSUME NEW s \in Server
        PROVE  LocalInv(s)
    <3>1. CASE s \in {u, v}
      <4>1. Peer(1, s) \in Server /\ Peer(1, s) # s
        BY <2>1, <2>4, <3>1
      <4>2. Peer(1, s) \in Reach(Peer(1, s), Pairs(s))
        BY <4>1, ReachStart
      <4> DEFINE e == [name |-> Peer(1, s), up |-> s, from |-> 1, below |-> {}]
      <4>3. /\ global_serv_list[s] = {e}
            /\ e.name = Peer(1, s) /\ e.up = s /\ e.from = 1 /\ e.below = {}
        BY <2>5, <3>1
      <4> HIDE DEF e
      <4>4. KnownOnce(s) /\ IntroducedBefore(s) /\ InOrder(s) /\ BelowKnown(s)
        BY <4>1, <4>3 DEF KnownOnce, IntroducedBefore, InOrder, BelowKnown
      <4>5. ThroughLinks(s)
        BY <1>1, <2>3, <3>1, <4>3 DEF ThroughLinks
      <4>6. LinksKnown(s)
        BY <2>3, <4>3 DEF LinksKnown, Established, KnownBy
      <4>7. BehindNeighbour(s)
        BY <4>2, <4>3 DEF BehindNeighbour
      <4> QED BY <4>4, <4>5, <4>6, <4>7 DEF LocalInv
    <3>2. CASE s \notin {u, v}
      BY <2>3, <2>5, <3>2 DEF LocalInv, KnownOnce, ThroughLinks, LinksKnown, Established,
         IntroducedBefore, InOrder, BelowKnown, BehindNeighbour
    <3> QED BY <3>1, <3>2
  <2> QED BY <2>6, <2>7, <2>8 DEF StrongInv
<1> QED BY <1>3, <1>4

-----------------------------------------------------------------------------
LEMMA MrServerStrong ==
    ASSUME StrongInv, NEW s \in Server, NEW k \in Conn, MrServer(s, k)
    PROVE  StrongInv'
<1> DEFINE x == Peer(k, s)
           J == Overridden(s, x, k)
<1>1. TypeOK /\ Unmade
  BY DEF StrongInv
<1>2. status[k][s] # "none" /\ ends[k] # <<>>
  BY <1>1 DEF MrServer, Parses, Open, Unmade
<1>3. x \in Server
  BY <1>1, <1>2, PeerType
<1>4. UNCHANGED <<conf, ends, left>> /\ left \in SUBSET {"break", "squit"}
  BY <1>1 DEF MrServer, ExitUnknown, Establish, TypeOK
<1>5. J \in SUBSET Conn /\ \A j \in J : status[j][s] = "handshake" /\ j # k
  BY OverriddenType
<1>6. status[k][s] \in {"unknown", "handshake"}
  BY DEF MrServer, Parses, Open
<1>7. x # s
  BY <1>1, <1>2, TreeAssumption DEF TypeOK, Peer, Config
<1>8. CASE \E K \in {{k}, J \cup {k}} : ExitUnknown(s, K, {k})
  <2>1. PICK K \in {{k}, J \cup {k}} : ExitUnknown(s, K, {k})
    BY <1>8
  <2>2. K \in SUBSET Conn /\ \A j \in K : status[j][s] \in {"unknown", "handshake"}
    BY <1>5, <1>6
  <2> QED BY <1>4, <2>1, <2>2, NoLinkMoves DEF ExitUnknown
<1>9. CASE ~Exists(s, x) /\ Establish(s, k, x)
  <2>1. /\ AddServer(s, x, s, k)
        /\ status' = [j \in Conn |->
             IF j \in J THEN [status[j] EXCEPT ![s] = "closed"]
             ELSE IF j = k THEN [status[j] EXCEPT ![s] = "server"]
             ELSE status[j]]
    BY <1>9 DEF Establish
  <2>2. /\ status' \in [Conn -> [Server -> Statuses]]
        /\ \A j \in Conn, t \in Server : status'[j][t] =
             IF t = s /\ j \in J THEN "closed"
             ELSE IF t = s /\ j = k THEN "server" ELSE status[j][t]
    <3> HIDE DEF J
    <3> QED BY <1>1, <2>1 DEF TypeOK, Statuses
  <2> QED BY <1>2, <1>3, <1>4, <1>7, <1>9, <2>1, <2>2, AddServerMoves DEF Exists
<1> QED BY <1>8, <1>9 DEF MrServer

LEMMA NoListStep ==
    ASSUME StrongInv, UNCHANGED <<conf, ends, status, global_serv_list>>,
           left' \in SUBSET {"break", "squit"}
    PROVE  StrongInv'
<1>1. TypeOK' /\ Unmade'
  BY DEF StrongInv, TypeOK, Unmade
<1>2. ASSUME NEW s \in Server
      PROVE  LocalInv(s)'
  BY Frame DEF StrongInv
<1> QED BY <1>1, <1>2 DEF StrongInv

LEMMA IntroductionStrong ==
    ASSUME StrongInv, NEW s \in Server, NEW k \in Conn,
           SidExists(s, k) \/ SidMasked(s, k) \/ SidAccepted(s, k)
    PROVE  StrongInv'
<1> DEFINE up == Head1(k, s).up
<1>1. TypeOK /\ LocalInv(s) /\ left \in SUBSET {"break", "squit"}
  BY DEF StrongInv, TypeOK
<1>2. PICK x \in Server : Introduces(s, k, x) /\
        \/ Exists(s, x) /\ ExitServer(s, Peer(k, s), k, {k}, {}, {})
        \/ ExitServer(s, IF <<s, Peer(k, s), x>> \in conf.hubMask THEN Peer(k, s) ELSE up,
                      k, {k}, {}, Overridden(s, x, k))
        \/ /\ ~Exists(s, x)
           /\ SetStatus(s, Overridden(s, x, k), "closed")
           /\ AddServer(s, x, up, k)
  BY DEF SidExists, SidMasked, SidAccepted
<1>3. KnownBy(s, k, up) /\ UNCHANGED <<conf, ends, left>>
  BY <1>2 DEF Introduces
<1>4. up \in Server
  BY <1>1, <1>3 DEF KnownBy, TypeOK, Entry
<1>5. status[k][s] = "server" /\ KnownBy(s, k, Peer(k, s))
  BY <1>1, <1>3 DEF LocalInv, ThroughLinks, LinksKnown, Established, KnownBy
<1>6. Peer(k, s) \in Server
  BY <1>1, <1>5 DEF KnownBy, TypeOK, Entry
<1>7. /\ Overridden(s, x, k) \in SUBSET Conn
      /\ \A j \in Overridden(s, x, k) : status[j][s] = "handshake" /\ j # k
  BY OverriddenType
<1> HIDE DEF up
<1>8. CASE ExitServer(s, Peer(k, s), k, {k}, {}, {})
  <2>1. {} \in SUBSET Conn
    OBVIOUS
  <2> QED BY <1>1, <1>3, <1>5, <1>6, <1>8, <2>1, ExitServerMoves
<1>9. CASE ExitServer(s, IF <<s, Peer(k, s), x>> \in conf.hubMask THEN Peer(k, s) ELSE up,
                      k, {k}, {}, Overridden(s, x, k))
  <2> DEFINE y == IF <<s, Peer(k, s), x>> \in conf.hubMask THEN Peer(k, s) ELSE up
  <2>1. y \in Server /\ KnownBy(s, k, y)
    BY <1>3, <1>4, <1>5, <1>6
  <2> HIDE DEF y
  <2>2. ExitServer(s, y, k, {k}, {}, Overridden(s, x, k))
    BY <1>9 DEF y
  <2> QED BY <1>1, <1>3, <1>7, <2>1, <2>2, ExitServerMoves
<1>10. CASE /\ ~Exists(s, x)
            /\ SetStatus(s, Overridden(s, x, k), "closed")
            /\ AddServer(s, x, up, k)
  <2>1. ~Knows(s, x) /\ x # s /\ x # Peer(k, s)
    BY <1>5, <1>10 DEF Exists, Knows, KnownBy
  <2>2. /\ status' \in [Conn -> [Server -> Statuses]]
        /\ \A j \in Conn, t \in Server : status'[j][t] =
             IF t = s /\ j \in Overridden(s, x, k) THEN "closed"
             ELSE IF t = s /\ j = k THEN "server" ELSE status[j][t]
    BY <1>1, <1>5, <1>7, <1>10 DEF TypeOK, SetStatus, Statuses
  <2> QED BY <1>3, <1>4, <1>5, <1>10, <2>1, <2>2, AddServerMoves
<1> QED BY <1>2, <1>8, <1>9, <1>10

LEMMA ServConnectStrong ==
    ASSUME StrongInv, NEW s \in Server, NEW t \in Server, NEW k \in Conn,
           ServConnect(s, t, k)
    PROVE  StrongInv'
<1>1. TypeOK /\ Unmade /\ ends[k] = <<>> /\ <<s, t>> \in conf.connects
  BY TreeAssumption DEF StrongInv, ServConnect, TypeOK
<1>2. /\ status' \in [Conn -> [Server -> Statuses]]
      /\ \A j \in Conn, u \in Server : status'[j][u] =
           IF j # k \/ u \notin {s, t} THEN status[j][u]
           ELSE IF u = t THEN "unknown" ELSE "handshake"
  <2>1. s # t
    BY <1>1, TreeAssumption DEF TypeOK
  <2> QED BY <1>1, <2>1 DEF ServConnect, TypeOK, Statuses
<1>3. TypeOK'
  BY <1>1, <1>2 DEF ServConnect, TypeOK, Statuses
<1>4. Unmade'
  <2>1. \A j \in Conn : j # k => ends'[j] = ends[j]
    BY <1>1 DEF ServConnect, TypeOK
  <2>2. ends'[k] # <<>>
    BY <1>1 DEF ServConnect, TypeOK
  <2> QED BY <1>1, <1>2, <2>1, <2>2 DEF Unmade
<1>5. ASSUME NEW u \in Server
      PROVE  LocalInv(u)'
  <2>1. status[k][u] = "none"
    BY <1>1 DEF Unmade
  <2>2. \A j \in Conn : status'[j][u] = "server" <=> status[j][u] = "server"
    BY <1>2, <2>1
  <2>3. \A j \in Conn : status[j][u] = "server" => ends'[j] = ends[j]
    BY <1>1, <2>1 DEF ServConnect, TypeOK
  <2>4. global_serv_list' = global_serv_list
    BY DEF ServConnect
  <2> QED BY <1>1, <2>2, <2>3, <2>4, Frame DEF StrongInv
<1> QED BY <1>3, <1>4, <1>5 DEF StrongInv

LEMMA SquitStrong ==
    ASSUME StrongInv, NEW s \in Server, NEW K, NEW one,
           NEW e \in global_serv_list[s], ExitServer(s, e.name, e.from, K, one, {}),
           UNCHANGED <<conf, ends>>, left' \in SUBSET {"break", "squit"}
    PROVE  StrongInv'
<1>1. e.name \in Server /\ e.from \in Conn /\ KnownBy(s, e.from, e.name)
  BY DEF StrongInv, TypeOK, Entry, KnownBy
<1>2. {} \in SUBSET Conn
  OBVIOUS
<1> QED BY <1>1, <1>2, ExitServerMoves

LEMMA ReadCloseStrong ==
    ASSUME StrongInv, NEW s \in Server, NEW k \in Conn, ReadClose(s, k)
    PROVE  StrongInv'
<1>1. UNCHANGED <<conf, ends, left>> /\ left \in SUBSET {"break", "squit"}
  BY DEF ReadClose, StrongInv, TypeOK
<1>2. CASE status[k][s] = "server"
  <2>1. KnownBy(s, k, Peer(k, s))
    BY <1>2 DEF StrongInv, LocalInv, LinksKnown, Established
  <2>2. Peer(k, s) \in Server /\ {} \in SUBSET Conn
    BY <2>1 DEF StrongInv, TypeOK, Entry, KnownBy
  <2> QED BY <1>1, <1>2, <2>1, <2>2, ExitServerMoves DEF ReadClose
<1>3. CASE status[k][s] # "server"
  <2>1. {k} \in SUBSET Conn /\ \A j \in {k} : status[j][s] \in {"unknown", "handshake"}
    BY <1>3 DEF ReadClose, Parses, Open
  <2> QED BY <1>1, <1>3, <2>1, NoLinkMoves DEF ReadClose, ExitUnknown
<1> QED BY <1>2, <1>3

LEMMA NextStrong == StrongInv /\ [Next]_vars => StrongInv'
<1> SUFFICES ASSUME StrongInv, [Next]_vars
             PROVE  StrongInv'
  OBVIOUS
<1>1. left \in SUBSET {"break", "squit"}
  BY DEF StrongInv, TypeOK
<1>2. ASSUME NEW s \in Server, NEW k \in Conn, Receive(s, k)
      PROVE  StrongInv'
  <2>1. CASE MrServer(s, k)
    BY <2>1, MrServerStrong
  <2>2. CASE UnknownPrefix(s, k) \/ WrongDirection(s, k) \/ SquitUnknown(s, k)
    <3>1. UNCHANGED <<conf, ends, status, global_serv_list, left>>
      BY <2>2 DEF UnknownPrefix, WrongDirection, SquitUnknown
    <3> QED BY <1>1, <3>1, NoListStep
  <2>3. CASE SidExists(s, k) \/ SidMasked(s, k) \/ SidAccepted(s, k)
    BY <2>3, IntroductionStrong
  <2>4. CASE MsSquit(s, k)
    BY <1>1, <2>4, SquitStrong DEF MsSquit
  <2>5. CASE ReadClose(s, k)
    BY <2>5, ReadCloseStrong
  <2> QED BY <1>2, <2>1, <2>2, <2>3, <2>4, <2>5 DEF Receive
<1>3. ASSUME NEW s \in Server, NEW k \in Conn, NEW t \in Server, ServConnect(s, t, k)
      PROVE  StrongInv'
  BY <1>3, ServConnectStrong
<1>4. ASSUME NEW s \in Server, MoSquit(s)
      PROVE  StrongInv'
  <2>1. /\ left' \in SUBSET {"break", "squit"} /\ UNCHANGED <<conf, ends>>
        /\ \E e \in global_serv_list[s] : ExitServer(s, e.name, e.from, {}, {}, {})
    BY <1>1, <1>4 DEF MoSquit
  <2> QED BY <2>1, SquitStrong
<1>5. ASSUME NEW k \in Conn, Break(k)
      PROVE  StrongInv'
  <2>1. /\ left' \in SUBSET {"break", "squit"}
        /\ UNCHANGED <<conf, ends, status, global_serv_list>>
    BY <1>1, <1>5 DEF Break
  <2> QED BY <2>1, NoListStep
<1>6. CASE UNCHANGED vars
  BY <1>1, <1>6, NoListStep DEF vars
<1> QED BY <1>2, <1>3, <1>4, <1>5, <1>6 DEF Next

\* The tree each server keeps of what is behind its links is well formed at all
\* times: types, links that were made, and the local invariant of every server
\* (server_estab, mr_server, ms_server, ms_sid, exit_client).
THEOREM StrongCorrect == Spec => []StrongInv
BY InitStrong, NextStrong, PTL DEF Spec

\* What a server keeps of links and servers has its type, in every network.
THEOREM TypeCorrect == Spec => []TypeOK
<1>1. StrongInv => TypeOK
  BY DEF StrongInv
<1> QED BY <1>1, StrongCorrect, PTL

\* Every server's global_serv_list, its links and who introduced whom agree,
\* whatever the servers, their configuration and the order of what they do:
\* the list is without duplicates, everybody is known through a link that is
\* up, every link has its server, and introducers come first in a burst.
THEOREM TreeCorrect == Spec => []TreeInv
<1>1. StrongInv => TreeInv
  BY DEF StrongInv, LocalInv, TreeInv
<1> QED BY <1>1, StrongCorrect, PTL

\* Whoever is known through a link hangs, introduction by introduction, below
\* the neighbour: exit_client of a link's server removes all of them.
THEOREM BehindCorrect == Spec => [](\A s \in Server : BehindNeighbour(s))
<1>1. StrongInv => \A s \in Server : BehindNeighbour(s)
  BY DEF StrongInv, LocalInv
<1> QED BY <1>1, StrongCorrect, PTL

-----------------------------------------------------------------------------
(***************************************************************************)
(* OneTree speaks of rest; what leads there is what each end of a link has *)
(* told the other.  Let q be on its way to r on connection k, F be r's     *)
(* list, w be on its way back to t and E be t's list.  Of everybody t      *)
(* knows through another link, r holds t's introduction or will read it,   *)
(* and reads nothing after it that takes it away (ToldBy); or a SQUIT is   *)
(* on its way to t that removes it there as well (UndoneBy).               *)
(***************************************************************************)
\* After m there is no more, or another, server e.name at the reader.
Renames(m, e) == (m.type = "SID" /\ m.name \in {e.name, e.up}) \/ m = SquitMsg(e.name)

\* Such a line comes after the i-th.
Later(q, i, e) == \E j \in (i + 1)..Len(q) : Renames(q[j], e)

\* The list F has e as k introduced it.
Held(F, k, e) == \E f \in F : f.name = e.name /\ f.up = e.up /\ f.from = k

ToldBy(q, F, k, e) ==
    \/ \E i \in 1..Len(q) : q[i] = SidMsg(e.up, e.name) /\ ~Later(q, i, e)
    \/ Held(F, k, e) /\ ~Later(q, 0, e)

NamesOf(E) == {e.name : e \in E}
PairsOf(E) == {<<e.up, e.name>> : e \in E}

UndoneBy(w, E, n) ==
    \E y \in NamesOf(E) :
      /\ \E i \in 1..Len(w) : w[i] = SquitMsg(y)
      /\ n \in Reach(y, PairsOf(E))

Good(q, F, k, w, E) ==
    \A e \in E : e.from # k => ToldBy(q, F, k, e) \/ UndoneBy(w, E, e.name)

\* Everybody on t's list was introduced by somebody on it, or by t.
Rooted(E, t) ==
    \A e \in E :
      /\ e.name \in Server /\ e.name # t /\ e.up # e.name
      /\ \A f \in E : f.name = e.name => f = e
      /\ e.up = t \/ \E g \in E : g.name = e.up /\ g.from = e.from

LEMMA Kinds ==
    /\ ServerMsg.type = "SERVER" /\ CloseMsg.type = "CLOSE"
    /\ \A u, x : /\ SidMsg(u, x).type = "SID" /\ SidMsg(u, x).up = u /\ SidMsg(u, x).name = x
    /\ \A x : SquitMsg(x).type = "SQUIT" /\ SquitMsg(x).name = x
BY DEF ServerMsg, CloseMsg, SidMsg, SquitMsg

LEMMA SidInjective ==
    ASSUME NEW u, NEW x, NEW v, NEW y, SidMsg(u, x) = SidMsg(v, y)
    PROVE  u = v /\ x = y
BY Kinds

LEMMA LocalRooted ==
    ASSUME NEW s \in Server, TypeOK, LocalInv(s)
    PROVE  Rooted(global_serv_list[s], s)
<1> SUFFICES ASSUME NEW e \in global_serv_list[s]
             PROVE  /\ e.name \in Server /\ e.name # s /\ e.up # e.name
                    /\ \A f \in global_serv_list[s] : f.name = e.name => f = e
                    /\ e.up = s \/ \E g \in global_serv_list[s] : g.name = e.up /\ g.from = e.from
  BY DEF Rooted
<1>1. e.name \in Server /\ e.name # s /\ e.name \notin e.below
  BY DEF LocalInv, KnownOnce, InOrder, TypeOK, Entry
<1>2. \A f \in global_serv_list[s] : f.name = e.name => f = e
  BY DEF LocalInv, KnownOnce
<1>3. IF e.name = Peer(e.from, s) THEN e.up = s
      ELSE \E f \in global_serv_list[s] : f.name = e.up /\ f.from = e.from /\ f.name \in e.below
  BY DEF LocalInv, IntroducedBefore
<1> QED BY <1>1, <1>2, <1>3

-----------------------------------------------------------------------------
(* Lines are read and sent.                                                *)

LEMMA LaterTail ==
    ASSUME NEW M, NEW q \in Seq(M), q # <<>>, NEW i \in 1..Len(q), NEW e
    PROVE  Later(Tail(q), i - 1, e) <=> Later(q, i, e)
<1>1. /\ Len(q) \in Nat /\ Len(Tail(q)) = Len(q) - 1
      /\ \A j \in 1..Len(Tail(q)) : Tail(q)[j] = q[j + 1]
  OBVIOUS
<1>2. ASSUME NEW j \in (i + 1)..Len(q), Renames(q[j], e)
      PROVE  Later(Tail(q), i - 1, e)
  <2>1. j - 1 \in ((i - 1) + 1)..Len(Tail(q)) /\ Tail(q)[j - 1] = q[j]
    BY <1>1
  <2> QED BY <1>2, <2>1 DEF Later
<1>3. ASSUME NEW j \in ((i - 1) + 1)..Len(Tail(q)), Renames(Tail(q)[j], e)
      PROVE  Later(q, i, e)
  <2>1. j + 1 \in (i + 1)..Len(q) /\ Tail(q)[j] = q[j + 1]
    BY <1>1
  <2> QED BY <1>3, <2>1 DEF Later
<1> QED BY <1>2, <1>3 DEF Later

LEMMA LaterAppend ==
    ASSUME NEW M, NEW q \in Seq(M), NEW p \in Seq(M), NEW i \in 0..Len(q), NEW e
    PROVE  Later(q \o p, i, e) <=> Later(q, i, e) \/ Later(p, 0, e)
<1>1. /\ Len(q) \in Nat /\ Len(p) \in Nat /\ Len(q \o p) = Len(q) + Len(p)
      /\ \A j \in 1..Len(q) : (q \o p)[j] = q[j]
      /\ \A j \in 1..Len(p) : (q \o p)[Len(q) + j] = p[j]
  OBVIOUS
<1>2. ASSUME NEW j \in (i + 1)..Len(q), Renames(q[j], e)
      PROVE  Later(q \o p, i, e)
  <2>1. j \in (i + 1)..Len(q \o p) /\ (q \o p)[j] = q[j]
    BY <1>1
  <2> QED BY <1>2, <2>1 DEF Later
<1>3. ASSUME NEW j \in (0 + 1)..Len(p), Renames(p[j], e)
      PROVE  Later(q \o p, i, e)
  <2>1. Len(q) + j \in (i + 1)..Len(q \o p) /\ (q \o p)[Len(q) + j] = p[j]
    BY <1>1
  <2> QED BY <1>3, <2>1 DEF Later
<1>4. ASSUME NEW j \in (i + 1)..Len(q \o p), Renames((q \o p)[j], e)
      PROVE  Later(q, i, e) \/ Later(p, 0, e)
  <2>1. CASE j <= Len(q)
    <3>1. j \in (i + 1)..Len(q) /\ (q \o p)[j] = q[j]
      BY <1>1, <2>1
    <3> QED BY <1>4, <3>1 DEF Later
  <2>2. CASE ~(j <= Len(q))
    <3>1. j - Len(q) \in (0 + 1)..Len(p) /\ (q \o p)[j] = p[j - Len(q)]
      BY <1>1, <2>2
    <3> QED BY <1>4, <3>1 DEF Later
  <2> QED BY <2>1, <2>2
<1> QED BY <1>2, <1>3, <1>4 DEF Later

\* The first line is read; what the list held and what the line introduces it
\* holds now.
LEMMA ToldRead ==
    ASSUME NEW M, NEW q \in Seq(M), q # <<>>, NEW F, NEW G, NEW k, NEW e, ToldBy(q, F, k, e),
           Held(F, k, e) /\ ~Later(q, 0, e) => Held(G, k, e),
           q[1] = SidMsg(e.up, e.name) /\ ~Later(q, 1, e) => Held(G, k, e)
    PROVE  ToldBy(Tail(q), G, k, e)
<1>1. /\ Len(q) \in Nat /\ Len(Tail(q)) = Len(q) - 1
      /\ \A j \in 1..Len(Tail(q)) : Tail(q)[j] = q[j + 1]
  OBVIOUS
<1>2. 1 \in 1..Len(q)
  BY <1>1
<1>3. Later(Tail(q), 0, e) <=> Later(q, 1, e)
  BY <1>2, LaterTail
<1>4. Later(q, 1, e) => Later(q, 0, e)
  BY <1>1 DEF Later
<1>5. ASSUME NEW i \in 1..Len(q), q[i] = SidMsg(e.up, e.name), ~Later(q, i, e)
      PROVE  ToldBy(Tail(q), G, k, e)
  <2>1. CASE i = 1
    BY <1>3, <1>5, <2>1 DEF ToldBy
  <2>2. CASE i # 1
    <3>1. i - 1 \in 1..Len(Tail(q)) /\ Tail(q)[i - 1] = q[i]
      BY <1>1, <2>2
    <3>2. ~Later(Tail(q), i - 1, e)
      BY <1>5, LaterTail
    <3> QED BY <1>5, <3>1, <3>2 DEF ToldBy
  <2> QED BY <2>1, <2>2
<1>6. ASSUME Held(F, k, e), ~Later(q, 0, e)
      PROVE  ToldBy(Tail(q), G, k, e)
  BY <1>3, <1>4, <1>6 DEF ToldBy
<1> QED BY <1>5, <1>6 DEF ToldBy

\* More is sent, and nothing of it is about e.
LEMMA ToldSent ==
    ASSUME NEW M, NEW q \in Seq(M), NEW p \in Seq(M), NEW F, NEW k, NEW e,
           ToldBy(q, F, k, e), ~Later(p, 0, e)
    PROVE  ToldBy(q \o p, F, k, e)
<1>1. /\ Len(q) \in Nat /\ Len(p) \in Nat /\ Len(q \o p) = Len(q) + Len(p)
      /\ \A j \in 1..Len(q) : (q \o p)[j] = q[j]
  OBVIOUS
<1>2. ASSUME NEW i \in 1..Len(q), q[i] = SidMsg(e.up, e.name), ~Later(q, i, e)
      PROVE  ToldBy(q \o p, F, k, e)
  <2>1. i \in 0..Len(q) /\ i \in 1..Len(q \o p)
    BY <1>1
  <2>2. ~Later(q \o p, i, e)
    BY <1>2, <2>1, LaterAppend
  <2> QED BY <1>1, <1>2, <2>1, <2>2 DEF ToldBy
<1>3. ASSUME Held(F, k, e), ~Later(q, 0, e)
      PROVE  ToldBy(q \o p, F, k, e)
  <2>1. 0 \in 0..Len(q)
    BY <1>1
  <2>2. ~Later(q \o p, 0, e)
    BY <1>3, <2>1, LaterAppend
  <2> QED BY <1>3, <2>2 DEF ToldBy
<1> QED BY <1>2, <1>3 DEF ToldBy

\* The list keeps what it held.
LEMMA ToldList ==
    ASSUME NEW q, NEW F, NEW G, NEW k, NEW e, ToldBy(q, F, k, e),
           Held(F, k, e) /\ ~Later(q, 0, e) => Held(G, k, e)
    PROVE  ToldBy(q, G, k, e)
BY DEF ToldBy

-----------------------------------------------------------------------------
(* Who hangs below whom.                                                   *)

LEMMA ReachTrans ==
    ASSUME NEW x, NEW y, NEW z, NEW R, y \in Reach(x, R), z \in Reach(y, R)
    PROVE  z \in Reach(x, R)
BY DEF Reach

LEMMA UndoneStep ==
    ASSUME NEW w, NEW E, NEW e \in E, e.name \in Server, UndoneBy(w, E, e.up)
    PROVE  UndoneBy(w, E, e.name)
<1>1. PICK y \in NamesOf(E) : /\ \E i \in 1..Len(w) : w[i] = SquitMsg(y)
                              /\ e.up \in Reach(y, PairsOf(E))
  BY DEF UndoneBy
<1>2. <<e.up, e.name>> \in PairsOf(E)
  BY DEF PairsOf
<1>3. e.name \in Reach(y, PairsOf(E))
  BY <1>1, <1>2, ReachStep
<1> QED BY <1>1, <1>3 DEF UndoneBy

\* A server that hangs below z at r, as t told, hangs below z at t.
LEMMA Chain ==
    ASSUME NEW q, NEW F, NEW k, NEW w, NEW E, NEW t \in Server, NEW r \in Server,
           Rooted(E, t), Rooted(F, r), Good(q, F, k, w, E),
           \A f \in F : f.name = t => f.up = r,
           NEW z \in Server, z # t, z # r,
           NEW e \in E, e.from # k, Held(F, k, e), ~Later(q, 0, e), ~UndoneBy(w, E, e.name),
           e.name \in Reach(z, PairsOf(F))
    PROVE  z \in NamesOf(E) /\ e.name \in Reach(z, PairsOf(E))
<1> DEFINE Bad == {n \in Server :
              /\ ~(z \in NamesOf(E) /\ n \in Reach(z, PairsOf(E)))
              /\ \E d \in E : /\ d.name = n /\ d.from # k /\ Held(F, k, d)
                              /\ ~Later(q, 0, d) /\ ~UndoneBy(w, E, n)}
           S == Server \ ({t, r} \cup Bad)
<1>1. z \in S
  <2>1. z \in Reach(z, PairsOf(E))
    BY ReachStart
  <2>2. z \in Bad => z \in NamesOf(E)
    BY DEF NamesOf
  <2> QED BY <2>1, <2>2
<1>2. ASSUME NEW p \in PairsOf(F), p[1] \in S
      PROVE  p[2] \in S
  <2>1. PICK f \in F : p = <<f.up, f.name>>
    BY DEF PairsOf
  <2>2. f.name \in Server /\ f.name # r /\ f.name # t
    BY <1>2, <2>1 DEF Rooted
  <2>3. SUFFICES ASSUME f.name \in Bad
                 PROVE  FALSE
    BY <2>1, <2>2
  <2>4. PICK d \in E : /\ d.name = f.name /\ d.from # k /\ Held(F, k, d)
                       /\ ~Later(q, 0, d) /\ ~UndoneBy(w, E, d.name)
    BY <2>3
  <2>5. d.up = f.up
    BY <2>4 DEF Held, Rooted
  <2>6. d.up \in S /\ d.up # t
    BY <1>2, <2>1, <2>5
  <2>7. PICK g \in E : g.name = d.up /\ g.from = d.from
    BY <2>6 DEF Rooted
  <2>8. ~UndoneBy(w, E, g.name)
    BY <2>2, <2>4, <2>7, UndoneStep
  <2>9. ToldBy(q, F, k, g)
    BY <2>4, <2>7, <2>8 DEF Good
  <2>10. Held(F, k, g) /\ ~Later(q, 0, g)
    <3> SUFFICES ASSUME NEW i \in 1..Len(q), q[i] = SidMsg(g.up, g.name)
                 PROVE  FALSE
      BY <2>9 DEF ToldBy
    <3>1. Renames(q[i], d)
      BY <2>7, Kinds DEF Renames
    <3> QED BY <2>4, <3>1 DEF Later
  <2>11. ~(z \in NamesOf(E) /\ g.name \in Reach(z, PairsOf(E)))
    <3> SUFFICES ASSUME z \in NamesOf(E), d.up \in Reach(z, PairsOf(E))
                 PROVE  FALSE
      BY <2>7
    <3>1. <<d.up, d.name>> \in PairsOf(E)
      BY DEF PairsOf
    <3>2. d.name \in Reach(z, PairsOf(E))
      BY <2>2, <2>4, <3>1, ReachStep
    <3> QED BY <2>3, <2>4, <3>2
  <2>12. g.name \in Bad
    BY <2>4, <2>6, <2>7, <2>8, <2>10, <2>11
  <2> QED BY <2>6, <2>7, <2>12
<1>3. S \in SUBSET Server
  OBVIOUS
<1>4. e.name \in S
  <2> HIDE DEF S
  <2> QED BY <1>1, <1>2, <1>3 DEF Reach
<1>5. e.name \in Server
  BY DEF Rooted
<1> QED BY <1>4, <1>5

\* Of whoever hangs below z at t more is to be read after a SQUIT of z.
LEMMA Late ==
    ASSUME NEW q, NEW F, NEW k, NEW w, NEW E, NEW t \in Server,
           Rooted(E, t), Good(q, F, k, w, E), Len(q) \in Nat \ {0},
           NEW z \in Server, z # t, q[1] = SquitMsg(z),
           NEW e \in E, e.from # k, ~UndoneBy(w, E, e.name), e.name \in Reach(z, PairsOf(E))
    PROVE  Later(q, 0, e)
<1> DEFINE S == {n \in Server : /\ n # t
                                /\ \A d \in E : d.name = n /\ d.from # k /\ ~UndoneBy(w, E, n)
                                     => Later(q, 0, d)}
<1>1. z \in S
  <2>1. ASSUME NEW d \in E, d.name = z
        PROVE  Later(q, 0, d)
    BY <2>1 DEF Later, Renames
  <2> QED BY <2>1
<1>2. ASSUME NEW p \in PairsOf(E), p[1] \in S
      PROVE  p[2] \in S
  <2>1. PICK f \in E : p = <<f.up, f.name>>
    BY DEF PairsOf
  <2>2. f.name \in Server /\ f.name # t /\ f.up # t
    BY <1>2, <2>1 DEF Rooted
  <2>3. ASSUME NEW d \in E, d.name = f.name, d.from # k, ~UndoneBy(w, E, d.name)
        PROVE  Later(q, 0, d)
    <3>1. d = f
      BY <2>3 DEF Rooted
    <3>2. PICK g \in E : g.name = f.up /\ g.from = f.from
      BY <2>2 DEF Rooted
    <3>3. ~UndoneBy(w, E, g.name)
      BY <2>2, <2>3, <3>1, <3>2, UndoneStep
    <3>4. Later(q, 0, g) /\ ToldBy(q, F, k, g)
      BY <1>2, <2>1, <2>3, <3>1, <3>2, <3>3 DEF Good
    <3>5. PICK i \in 1..Len(q) : q[i] = SidMsg(g.up, g.name)
      BY <3>4 DEF ToldBy
    <3>6. Renames(q[i], d)
      BY <3>1, <3>2, <3>5, Kinds DEF Renames
    <3> QED BY <3>6 DEF Later
  <2> QED BY <2>1, <2>2, <2>3
<1>3. S \in SUBSET Server
  OBVIOUS
<1>4. e.name \in S
  <2> HIDE DEF S
  <2> QED BY <1>1, <1>2, <1>3 DEF Reach
<1> QED BY <1>4

-----------------------------------------------------------------------------
(* The one who is told moves.                                              *)

\* o has a SQUIT of z.
SendsSquit(o, z) == \E i \in 1..Len(o) : o[i] = SquitMsg(z)

LEMMA UndoneSent ==
    ASSUME NEW M, NEW w \in Seq(M), NEW o \in Seq(M), NEW E, NEW n, UndoneBy(w, E, n)
    PROVE  UndoneBy(w \o o, E, n)
<1>1. PICK y \in NamesOf(E) : /\ \E i \in 1..Len(w) : w[i] = SquitMsg(y)
                              /\ n \in Reach(y, PairsOf(E))
  BY DEF UndoneBy
<1>2. PICK i \in 1..Len(w) : w[i] = SquitMsg(y)
  BY <1>1
<1>3. i \in 1..Len(w \o o) /\ (w \o o)[i] = w[i]
  OBVIOUS
<1> QED BY <1>1, <1>2, <1>3 DEF UndoneBy

LEMMA SquitSent ==
    ASSUME NEW M, NEW w \in Seq(M), NEW o \in Seq(M), NEW E, NEW n, NEW z \in NamesOf(E),
           SendsSquit(o, z), n \in Reach(z, PairsOf(E))
    PROVE  UndoneBy(w \o o, E, n)
<1>1. PICK i \in 1..Len(o) : o[i] = SquitMsg(z)
  BY DEF SendsSquit
<1>2. Len(w) + i \in 1..Len(w \o o) /\ (w \o o)[Len(w) + i] = o[i]
  OBVIOUS
<1> QED BY <1>1, <1>2 DEF UndoneBy

LEMMA ReaderKeeps ==
    ASSUME NEW M, NEW q \in Seq(M), NEW w \in Seq(M), NEW o \in Seq(M), NEW p,
           NEW F, NEW G, NEW k, NEW E, Good(q, F, k, w, E),
           \A e \in E : Held(F, k, e) => Held(G, k, e),
           \/ p = q
           \/ /\ p = Tail(q) /\ q # <<>>
              /\ \A e \in E : q[1] = SidMsg(e.up, e.name) => Held(G, k, e)
    PROVE  Good(p, G, k, w \o o, E)
<1> SUFFICES ASSUME NEW e \in E, e.from # k, ~UndoneBy(w \o o, E, e.name)
             PROVE  ToldBy(p, G, k, e)
  BY DEF Good
<1>1. ToldBy(q, F, k, e)
  BY UndoneSent DEF Good
<1>2. CASE p = q
  BY <1>1, <1>2, ToldList
<1>3. CASE p # q
  BY <1>1, <1>3, ToldRead
<1> QED BY <1>2, <1>3

\* A line of a server that the reader does not know through this connection.
LEMMA ReaderDrops ==
    ASSUME NEW M, NEW q \in Seq(M), NEW w \in Seq(M), NEW o \in Seq(M), q # <<>>,
           NEW F, NEW k, NEW E, NEW t, NEW up, NEW x, Rooted(E, t), Good(q, F, k, w, E),
           q[1] = SidMsg(up, x), up # t, \A f \in F : ~(f.name = up /\ f.from = k)
    PROVE  Good(Tail(q), F, k, w \o o, E)
<1> SUFFICES ASSUME NEW e \in E, e.from # k, ~UndoneBy(w \o o, E, e.name)
             PROVE  ToldBy(Tail(q), F, k, e)
  BY DEF Good
<1>1. ToldBy(q, F, k, e) /\ ~UndoneBy(w, E, e.name)
  BY UndoneSent DEF Good
<1>2. ASSUME q[1] = SidMsg(e.up, e.name), ~Later(q, 1, e)
      PROVE  FALSE
  <2>1. e.up = up /\ e.name = x
    <3>1. SidMsg(e.up, e.name) = SidMsg(up, x)
      BY <1>2
    <3>2. /\ SidMsg(e.up, e.name).up = SidMsg(up, x).up
          /\ SidMsg(e.up, e.name).name = SidMsg(up, x).name
      BY <3>1
    <3> QED BY <3>2, Kinds
  <2>2. PICK g \in E : g.name = e.up /\ g.from = e.from
    BY <2>1 DEF Rooted
  <2>3. ~UndoneBy(w, E, g.name)
    BY <1>1, <2>2, UndoneStep DEF Rooted
  <2>4. ToldBy(q, F, k, g)
    BY <2>2, <2>3 DEF Good
  <2>5. ~Held(F, k, g)
    BY <2>1, <2>2 DEF Held
  <2>6. PICK i \in 1..Len(q) : q[i] = SidMsg(g.up, g.name)
    BY <2>4, <2>5 DEF ToldBy
  <2>7. i # 1
    BY <2>1, <2>2, <2>6, Kinds DEF Rooted
  <2>8. i \in (1 + 1)..Len(q) /\ Renames(q[i], e)
    BY <2>2, <2>6, <2>7, Kinds DEF Renames
  <2> QED BY <1>2, <2>8 DEF Later
<1> QED BY <1>1, <1>2, ToldRead

LEMMA ReaderRemoves ==
    ASSUME NEW M, NEW q \in Seq(M), NEW w \in Seq(M), NEW o \in Seq(M), NEW p,
           NEW F, NEW G, NEW k, NEW E, NEW t \in Server, NEW r \in Server,
           Rooted(E, t), Rooted(F, r), Good(q, F, k, w, E),
           \A f \in F : f.name = t => f.up = r,
           NEW z \in Server, z # t, z # r,
           \A e \in E : Held(F, k, e) /\ e.name \notin Reach(z, PairsOf(F)) => Held(G, k, e),
           \/ p = q /\ SendsSquit(o, z)
           \/ p = Tail(q) /\ q # <<>> /\ q[1] = SquitMsg(z)
           \/ p = Tail(q) /\ q # <<>> /\ SendsSquit(o, z) /\ \E x : q[1] = SidMsg(z, x)
    PROVE  Good(p, G, k, w \o o, E)
<1> SUFFICES ASSUME NEW e \in E, e.from # k, ~UndoneBy(w \o o, E, e.name)
             PROVE  ToldBy(p, G, k, e)
  BY DEF Good
<1>1. ToldBy(q, F, k, e) /\ ~UndoneBy(w, E, e.name)
  BY UndoneSent DEF Good
<1>2. ASSUME Held(F, k, e), ~Later(q, 0, e)
      PROVE  Held(G, k, e)
  <2> SUFFICES ASSUME e.name \in Reach(z, PairsOf(F))
               PROVE  FALSE
    BY <1>2
  <2>1. z \in NamesOf(E) /\ e.name \in Reach(z, PairsOf(E))
    BY <1>1, <1>2, Chain
  <2>2. CASE SendsSquit(o, z)
    BY <2>1, <2>2, SquitSent
  <2>3. CASE q # <<>> /\ q[1] = SquitMsg(z)
    <3>1. Len(q) \in Nat \ {0}
      BY <2>3
    <3> QED BY <1>1, <1>2, <2>1, <2>3, <3>1, Late
  <2> QED BY <2>2, <2>3
<1>3. CASE p = q
  BY <1>1, <1>2, <1>3, ToldList
<1>4. CASE p = Tail(q) /\ q # <<>>
  <2>1. q[1] # SidMsg(e.up, e.name)
    <3> SUFFICES ASSUME q[1] = SidMsg(e.up, e.name)
                 PROVE  FALSE
      OBVIOUS
    <3>1. SendsSquit(o, z) \/ p = q
      BY Kinds
    <3>2. CASE p = q
      <4>1. Len(Tail(q)) = Len(q) - 1 /\ Len(q) \in Nat
        BY <1>4
      <4>2. Tail(q) = q
        BY <1>4, <3>2
      <4> QED BY <4>1, <4>2
    <3>3. CASE SendsSquit(o, z) /\ \E x : q[1] = SidMsg(z, x)
      <4>1. e.up = z
        BY <3>3, SidInjective
      <4>2. z \in NamesOf(E)
        BY <4>1 DEF Rooted, NamesOf
      <4>3. z \in Reach(z, PairsOf(E)) /\ <<z, e.name>> \in PairsOf(E) /\ e.name \in Server
        BY <4>1, ReachStart DEF PairsOf, Rooted
      <4>4. e.name \in Reach(z, PairsOf(E))
        BY <4>3, ReachStep
      <4> QED BY <3>3, <4>2, <4>4, SquitSent
    <3>4. CASE q[1] = SquitMsg(z)
      <4>1. SquitMsg(z).type = SidMsg(e.up, e.name).type
        BY <3>4
      <4> QED BY <4>1, Kinds
    <3> QED BY <1>4, <3>2, <3>3, <3>4
  <2> QED BY <1>1, <1>2, <1>4, <2>1, ToldRead
<1> QED BY <1>3, <1>4

-----------------------------------------------------------------------------
(* The one who tells moves.                                                *)

LEMMA SquitRead ==
    ASSUME NEW M, NEW w \in Seq(M), NEW v, NEW y, NEW i \in 1..Len(w), w[i] = SquitMsg(y),
           v = w \/ (v = Tail(w) /\ w[1] # SquitMsg(y))
    PROVE  \E j \in 1..Len(v) : v[j] = SquitMsg(y)
<1>1. CASE v = w
  BY <1>1
<1>2. CASE v = Tail(w) /\ w[1] # SquitMsg(y)
  <2>1. i - 1 \in 1..Len(v) /\ v[i - 1] = w[i]
    BY <1>2
  <2> QED BY <2>1
<1> QED BY <1>1, <1>2

LEMMA TellerAdds ==
    ASSUME NEW M, NEW q \in Seq(M), NEW w \in Seq(M), NEW p \in Seq(M), NEW v,
           NEW F, NEW k, NEW E, NEW new, NEW D, Good(q, F, k, w, E),
           D = E \/ D = E \cup {new},
           \A e \in E : ~Later(p, 0, e),
           D # E /\ new.from # k => p = <<SidMsg(new.up, new.name)>> /\ new.up # new.name,
           v = w \/ (v = Tail(w) /\ \A y \in NamesOf(E) : w[1] # SquitMsg(y))
    PROVE  Good(q \o p, F, k, v, D)
<1> SUFFICES ASSUME NEW e \in D, e.from # k, ~UndoneBy(v, D, e.name)
             PROVE  ToldBy(q \o p, F, k, e)
  BY DEF Good
<1>1. CASE e \in E
  <2>1. ~UndoneBy(w, E, e.name)
    <3> SUFFICES ASSUME NEW y \in NamesOf(E), NEW i \in 1..Len(w), w[i] = SquitMsg(y),
                        e.name \in Reach(y, PairsOf(E))
                 PROVE  FALSE
      BY DEF UndoneBy
    <3>1. v = w \/ (v = Tail(w) /\ w[1] # SquitMsg(y))
      OBVIOUS
    <3>4. \E j \in 1..Len(v) : v[j] = SquitMsg(y)
      BY <3>1, SquitRead
    <3>2. y \in NamesOf(D) /\ PairsOf(E) \subseteq PairsOf(D)
      BY DEF NamesOf, PairsOf
    <3>3. e.name \in Reach(y, PairsOf(D))
      BY <3>2, ReachMono
    <3> QED BY <3>2, <3>3, <3>4 DEF UndoneBy
  <2> QED BY <1>1, <2>1, ToldSent DEF Good
<1>2. CASE e \notin E
  <2>1. e = new /\ p = <<SidMsg(e.up, e.name)>>
    BY <1>2
  <2>2. Len(q) + 1 \in 1..Len(q \o p) /\ (q \o p)[Len(q) + 1] = SidMsg(e.up, e.name)
    BY <2>1
  <2>3. ~Later(q \o p, Len(q) + 1, e)
    <3>1. Len(q \o p) = Len(q) + 1
      BY <2>1
    <3> QED BY <3>1 DEF Later
  <2> QED BY <2>2, <2>3 DEF ToldBy
<1> QED BY <1>1, <1>2

\* What is told of a server is its name and its introducer.
LEMMA ToldSame ==
    ASSUME NEW q, NEW F, NEW k, NEW e, NEW d, e.name = d.name, e.up = d.up
    PROVE  ToldBy(q, F, k, e) <=> ToldBy(q, F, k, d)
<1>1. \A i : Later(q, i, e) <=> Later(q, i, d)
  BY DEF Later, Renames
<1>2. Held(F, k, e) <=> Held(F, k, d)
  BY DEF Held
<1> QED BY <1>1, <1>2 DEF ToldBy

LEMMA TellerRemoves ==
    ASSUME NEW M, NEW q \in Seq(M), NEW w \in Seq(M), NEW p \in Seq(M), NEW v,
           NEW F, NEW k, NEW E, NEW t, NEW z, NEW D, Good(q, F, k, w, E), Rooted(E, t),
           \A d \in D : /\ d.name \notin Reach(z, PairsOf(E))
                        /\ \E e \in E : d.name = e.name /\ d.up = e.up /\ d.from = e.from,
           \A e \in E : e.name \notin Reach(z, PairsOf(E)) =>
             \E d \in D : d.name = e.name /\ d.up = e.up /\ d.from = e.from,
           z \in Server, p = <<>> \/ p = <<SquitMsg(z)>>,
           v = w \/ (v = Tail(w) /\ \A y \in NamesOf(E) : w[1] = SquitMsg(y) => y = z)
    PROVE  Good(q \o p, F, k, v, D)
<1> SUFFICES ASSUME NEW d \in D, d.from # k, ~UndoneBy(v, D, d.name)
             PROVE  ToldBy(q \o p, F, k, d)
  BY DEF Good
<1>1. PICK e \in E : d.name = e.name /\ d.up = e.up /\ d.from = e.from
  OBVIOUS
<1>2. e.name \notin Reach(z, PairsOf(E)) /\ e.name # z
  BY <1>1, ReachStart
<1>3. ~UndoneBy(w, E, e.name)
  <2> SUFFICES ASSUME NEW y \in NamesOf(E), NEW i \in 1..Len(w), w[i] = SquitMsg(y),
                      e.name \in Reach(y, PairsOf(E))
               PROVE  FALSE
    BY DEF UndoneBy
  <2>1. y \notin Reach(z, PairsOf(E))
    BY <1>2, ReachTrans
  <2>2. y # z
    BY <2>1, ReachStart
  <2>3. \E j \in 1..Len(v) : v[j] = SquitMsg(y)
    <3>1. v = w \/ (v = Tail(w) /\ w[1] # SquitMsg(y))
      BY <2>2
    <3>2. CASE v = w
      BY <3>2
    <3>3. CASE v = Tail(w) /\ w[1] # SquitMsg(y)
      <4>1. i - 1 \in 1..Len(v) /\ v[i - 1] = w[i]
        BY <3>3
      <4> QED BY <4>1
    <3> QED BY <3>1, <3>2, <3>3
  <2>4. y \in NamesOf(D)
    BY <2>1 DEF NamesOf
  <2>5. \A b \in PairsOf(E) :
          b[2] \in Server /\ (b[2] \notin Reach(z, PairsOf(E)) => b \in PairsOf(D))
    <3> SUFFICES ASSUME NEW b \in PairsOf(E)
                 PROVE  b[2] \in Server /\ (b[2] \notin Reach(z, PairsOf(E)) => b \in PairsOf(D))
      OBVIOUS
    <3>1. PICK f \in E : b = <<f.up, f.name>>
      BY DEF PairsOf
    <3>2. ASSUME f.name \notin Reach(z, PairsOf(E))
          PROVE  b \in PairsOf(D)
      <4>1. PICK g \in D : g.name = f.name /\ g.up = f.up
        BY <3>2
      <4> QED BY <3>1, <4>1 DEF PairsOf
    <3>3. b[2] = f.name /\ f.name \in Server
      BY <3>1 DEF Rooted
    <3> QED BY <3>2, <3>3
  <2>6. e.name \in Reach(y, PairsOf(D))
    BY <1>2, <2>5, ReachWithout
  <2> QED BY <1>1, <2>3, <2>4, <2>6 DEF UndoneBy
<1>4. ToldBy(q, F, k, e)
  BY <1>1, <1>3 DEF Good
<1>5. ~Later(p, 0, e)
  BY <1>2, Kinds DEF Later, Renames
<1>6. ToldBy(q \o p, F, k, e)
  BY <1>4, <1>5, ToldSent
<1> QED BY <1>1, <1>6, ToldSame

-----------------------------------------------------------------------------
(* The burst.                                                              *)

\* q goes through a list from its tail.
FromTail(E, q) == \A i, j \in DOMAIN q : i < j => q[i].name \in q[j].below

LEMMA ListFinite ==
    ASSUME NEW s \in Server, TypeOK, LocalInv(s)
    PROVE  IsFiniteSet(global_serv_list[s])
<1> DEFINE E == global_serv_list[s]
           f == [e \in E |-> e.name]
<1>1. f \in Injection(E, Server)
  BY DEF LocalInv, KnownOnce, TypeOK, Entry, Injection, IsInjective
<1> QED BY <1>1, FS_Injection, TreeAssumption

\* Those of E nearer the tail than e.
Nearer(E, e) == {f \in E : f.name \in e.below}

LEMMA NearerGrows ==
    ASSUME NEW s \in Server, TypeOK, LocalInv(s),
           NEW e \in global_serv_list[s], NEW f \in global_serv_list[s], e.name \in f.below
    PROVE  Cardinality(Nearer(global_serv_list[s], e)) < Cardinality(Nearer(global_serv_list[s], f))
<1> DEFINE E == global_serv_list[s]
           A == Nearer(E, e)
           B == Nearer(E, f)
<1>1. A \cup {e} \subseteq B /\ e \notin A
  BY DEF LocalInv, InOrder, Nearer
<1>2. IsFiniteSet(A) /\ IsFiniteSet(B)
  <2>1. A \in SUBSET E /\ B \in SUBSET E
    BY DEF Nearer
  <2> QED BY <2>1, ListFinite, FS_Subset
<1> HIDE DEF A, B
<1>3. Cardinality(A) \in Nat /\ Cardinality(B) \in Nat
  BY <1>2, FS_CardinalityType
<1>4. Cardinality(A \cup {e}) = Cardinality(A) + 1
  BY <1>1, <1>2, FS_AddElement
<1>5. Cardinality(A \cup {e}) <= Cardinality(B)
  <2>1. A \cup {e} \in SUBSET B
    BY <1>1
  <2> QED BY <1>2, <2>1, FS_Subset
<1>6. Cardinality(A) < Cardinality(B)
  BY <1>3, <1>4, <1>5
<1> QED BY <1>6 DEF A, B

LEMMA TailFirstExists ==
    ASSUME NEW s \in Server, TypeOK, LocalInv(s)
    PROVE  \E q \in SetToSeqs(global_serv_list[s]) : FromTail(global_serv_list[s], q)
<1> DEFINE E == global_serv_list[s]
           n == Cardinality(E)
           r == [e \in E |-> Cardinality(Nearer(E, e)) + 1]
           q == [i \in 1..n |-> CHOOSE e \in E : r[e] = i]
<1>1. IsFiniteSet(E) /\ n \in Nat
  BY ListFinite, FS_CardinalityType
<1>2. \A e, f \in E : e.name \in f.below => r[e] < r[f]
  <2> SUFFICES ASSUME NEW e \in E, NEW f \in E, e.name \in f.below
               PROVE  r[e] < r[f]
    OBVIOUS
  <2>1. Cardinality(Nearer(E, e)) < Cardinality(Nearer(E, f))
    BY NearerGrows
  <2>2. \A d \in E : Cardinality(Nearer(E, d)) \in Nat
    <3> TAKE d \in E
    <3>1. Nearer(E, d) \in SUBSET E
      BY DEF Nearer
    <3>2. IsFiniteSet(Nearer(E, d))
      BY <1>1, <3>1, FS_Subset
    <3> QED BY <3>2, FS_CardinalityType
  <2> QED BY <2>1, <2>2
<1>3. r \in [E -> 1..n]
  <2> SUFFICES ASSUME NEW e \in E
               PROVE  Cardinality(Nearer(E, e)) + 1 \in 1..n
    OBVIOUS
  <2>1. Nearer(E, e) \in SUBSET (E \ {e})
    BY DEF Nearer, LocalInv, InOrder
  <2>2. IsFiniteSet(E \ {e}) /\ Cardinality(E \ {e}) = n - 1
    BY <1>1, FS_RemoveElement
  <2>3. IsFiniteSet(Nearer(E, e)) /\ Cardinality(Nearer(E, e)) <= n - 1
    BY <2>1, <2>2, FS_Subset
  <2>4. Cardinality(Nearer(E, e)) \in Nat
    BY <2>3, FS_CardinalityType
  <2> QED BY <1>1, <2>3, <2>4
<1>4. \A e, f \in E : e = f \/ e.name \in f.below \/ f.name \in e.below
  BY DEF LocalInv, InOrder
<1>5. \A e \in E : r[e] \in Int
  BY <1>3
<1> HIDE DEF r
<1>6. \A e, f \in E : r[e] = r[f] => e = f
  BY <1>2, <1>4, <1>5
<1>7. r \in Injection(E, 1..n)
  BY <1>3, <1>6 DEF Injection, IsInjective
<1>8. r \in Surjection(E, 1..n)
  <2>1. IsFiniteSet(1..n) /\ Cardinality(1..n) = n
    BY <1>1, FS_Interval
  <2> QED BY <1>7, <2>1, FS_Injection
<1>9. \A i \in 1..n : q[i] \in E /\ r[q[i]] = i
  <2> TAKE i \in 1..n
  <2>1. \E e \in E : r[e] = i
    BY <1>8 DEF Surjection
  <2> QED BY <2>1
<1> HIDE DEF q
<1>10. q \in SetToSeqs(E)
  <2>1. q \in [1..n -> E]
    BY <1>9 DEF q
  <2>2. \A i, j \in 1..n : i # j => q[i] # q[j]
    BY <1>9
  <2> QED BY <2>1, <2>2 DEF SetToSeqs
<1>11. FromTail(E, q)
  <2> SUFFICES ASSUME NEW i \in 1..n, NEW j \in 1..n, i < j
               PROVE  q[i].name \in q[j].below
    BY DEF FromTail, q
  <2>1. q[i] \in E /\ q[j] \in E /\ r[q[i]] = i /\ r[q[j]] = j
    BY <1>9
  <2>2. q[i] # q[j] /\ ~(q[j].name \in q[i].below)
    BY <1>2, <2>1
  <2> QED BY <1>4, <2>1, <2>2
<1> QED BY <1>10, <1>11

LEMMA BurstOrder ==
    ASSUME NEW s \in Server, TypeOK, LocalInv(s)
    PROVE  \E n \in Nat : \E L \in [1..n -> global_serv_list[s]] :
             /\ Burst(s) = [i \in 1..n |-> SidMsg(L[i].up, L[i].name)]
             /\ \A e \in global_serv_list[s] : \E i \in 1..n : L[i] = e
             /\ \A i, j \in 1..n : i < j => L[i] # L[j] /\ L[i].name \in L[j].below
<1> DEFINE E == global_serv_list[s]
           L == CHOOSE q \in SetToSeqs(E) : FromTail(E, q)
           n == Cardinality(E)
<1>1. L \in SetToSeqs(E) /\ FromTail(E, L)
  BY TailFirstExists
<1>2. Burst(s) = [i \in DOMAIN L |-> SidMsg(L[i].up, L[i].name)]
  BY DEF Burst, FromTail
<1>3. IsFiniteSet(E) /\ n \in Nat
  BY ListFinite, FS_CardinalityType
<1> HIDE DEF L
<1>4. L \in [1..n -> E] /\ \A i, j \in 1..n : i # j => L[i] # L[j]
  BY <1>1 DEF SetToSeqs
<1>5. L \in Injection(1..n, E)
  BY <1>4 DEF Injection, IsInjective
<1>6. L \in Surjection(1..n, E)
  <2>1. IsFiniteSet(1..n) /\ Cardinality(1..n) = n
    BY <1>3, FS_Interval
  <2> QED BY <1>3, <1>5, <2>1, FS_Injection
<1>7. \A e \in E : \E i \in 1..n : L[i] = e
  BY <1>6 DEF Surjection
<1>8. \A i, j \in 1..n : i < j => L[i] # L[j] /\ L[i].name \in L[j].below
  BY <1>1, <1>3, <1>4 DEF FromTail
<1>9. Burst(s) = [i \in 1..n |-> SidMsg(L[i].up, L[i].name)]
  BY <1>2, <1>4
<1> HIDE DEF n
<1> QED BY <1>3, <1>4, <1>7, <1>8, <1>9

LEMMA BurstTells ==
    ASSUME NEW s \in Server, TypeOK, LocalInv(s), NEW M, NEW q \in Seq(M), Burst(s) \in Seq(M),
           NEW F, NEW k
    PROVE  \A e \in global_serv_list[s] : ToldBy(q \o Burst(s), F, k, e)
<1> DEFINE E == global_serv_list[s]
           b == Burst(s)
<1>1. PICK n \in Nat : \E L \in [1..n -> E] :
             /\ b = [i \in 1..n |-> SidMsg(L[i].up, L[i].name)]
             /\ \A e \in E : \E i \in 1..n : L[i] = e
             /\ \A i, j \in 1..n : i < j => L[i] # L[j] /\ L[i].name \in L[j].below
  BY BurstOrder
<1>0. PICK L \in [1..n -> E] :
             /\ b = [i \in 1..n |-> SidMsg(L[i].up, L[i].name)]
             /\ \A e \in E : \E i \in 1..n : L[i] = e
             /\ \A i, j \in 1..n : i < j => L[i] # L[j] /\ L[i].name \in L[j].below
  BY <1>1
<1> SUFFICES ASSUME NEW e \in E
             PROVE  ToldBy(q \o b, F, k, e)
  OBVIOUS
<1>2. PICK i \in 1..n : L[i] = e
  BY <1>0
<1>3. Len(b) = n /\ \A j \in 1..n : b[j] = SidMsg(L[j].up, L[j].name)
  BY <1>0
<1> HIDE DEF b
<1>4. ASSUME NEW j \in (i + 1)..n
      PROVE  ~Renames(b[j], e)
  <2>1. j \in 1..n /\ i < j
    OBVIOUS
  <2>2. L[j] \in E /\ L[j] # e /\ e.name \in L[j].below
    BY <1>0, <1>2, <2>1
  <2>3. L[j].name # e.name
    BY <2>2 DEF LocalInv, KnownOnce
  <2>4. L[j].name # e.up
    <3> SUFFICES ASSUME L[j].name = e.up
                 PROVE  FALSE
      OBVIOUS
    <3>1. e.up # s
      BY <2>2 DEF LocalInv, KnownOnce
    <3>2. PICK g \in E : g.name = e.up /\ g.name \in e.below
      BY <3>1 DEF LocalInv, IntroducedBefore
    <3>3. g = L[j]
      BY <2>2, <3>2 DEF LocalInv, KnownOnce
    <3>4. g.below \subseteq e.below /\ e.name \notin e.below
      BY <3>2 DEF LocalInv, InOrder
    <3> QED BY <2>2, <3>3, <3>4
  <2>5. b[j] = SidMsg(L[j].up, L[j].name) /\ b[j].type = "SID" /\ b[j].name = L[j].name
    BY <1>3, <2>1, Kinds
  <2>6. b[j] # SquitMsg(e.name)
    BY <2>5, Kinds
  <2> QED BY <2>3, <2>4, <2>5, <2>6 DEF Renames
<1>5. /\ Len(q) \in Nat /\ b \in Seq(M) /\ Len(q \o b) = Len(q) + n
      /\ \A j \in 1..n : (q \o b)[Len(q) + j] = b[j]
  <2>1. b \in Seq(M)
    BY DEF b
  <2> QED BY <1>3, <2>1
<1>6. ~Later(q \o b, Len(q) + i, e)
  <2> SUFFICES ASSUME NEW j \in ((Len(q) + i) + 1)..Len(q \o b), Renames((q \o b)[j], e)
               PROVE  FALSE
    BY DEF Later
  <2>1. j - Len(q) \in (i + 1)..n /\ j - Len(q) \in 1..n /\ Len(q) + (j - Len(q)) = j
    BY <1>5
  <2>2. (q \o b)[j] = b[j - Len(q)]
    BY <1>5, <2>1
  <2> QED BY <1>4, <2>1, <2>2
<1>7. Len(q) + i \in 1..Len(q \o b) /\ (q \o b)[Len(q) + i] = SidMsg(e.up, e.name)
  BY <1>2, <1>3, <1>5
<1> QED BY <1>6, <1>7 DEF ToldBy

-----------------------------------------------------------------------------
(* What is on the wire.                                                    *)

Msg == {ServerMsg, CloseMsg} \cup {SidMsg(u, x) : u \in Server, x \in Server}
         \cup {SquitMsg(x) : x \in Server}

Has(q, m) == \E i \in 1..Len(q) : q[i] = m

\* Only the two servers of a connection have a status; an end that is closed
\* or was never made has nothing to read.
Shape ==
    \A k \in Conn :
      /\ ends[k] # <<>> =>
           /\ status[k][ends[k][1]] \in {"handshake", "server", "closed"}
           /\ status[k][ends[k][2]] \in {"unknown", "server", "closed"}
           /\ \A s \in Server : s \notin {ends[k][1], ends[k][2]} => status[k][s] = "none"
      /\ \A s \in Server : status[k][s] \in {"none", "closed"} => wire[k][s] = <<>>

\* Who closes tells the other end.
Closes(k, s) ==
    Open(k, s) /\ status[k][Peer(k, s)] = "closed" => Has(wire[k][s], CloseMsg)

\* Nothing but CLOSE comes from one that is still unknown; the first line of a
\* server that is registered there is SERVER.
Handshake(k, s) ==
    Open(k, s) =>
      /\ status[k][Peer(k, s)] = "unknown" =>
           \A i \in 1..Len(wire[k][s]) : wire[k][s][i] = CloseMsg
      /\ status[k][s] # "server" =>
           IF wire[k][s] = <<>> THEN status[k][Peer(k, s)] # "server"
           ELSE wire[k][s][1] \in {ServerMsg, CloseMsg}

WireInv ==
    /\ wire \in [Conn -> [Server -> Seq(Msg)]]
    /\ Shape
    /\ \A k \in Conn, s \in Server : Closes(k, s) /\ Handshake(k, s)

\* s has told its neighbour on k of all that others told s, or a SQUIT is on
\* its way to s of what it has not told, unless the connection is closing.
Complete(k, t) ==
    LET r == Peer(k, t)
    IN  status[k][t] = "server" /\ Open(k, r) /\ ~Has(wire[k][r], CloseMsg) =>
          Good(wire[k][r], global_serv_list[r], k, wire[k][t], global_serv_list[t])

ToldInv == StrongInv /\ WireInv /\ \A k \in Conn, t \in Server : Complete(k, t)

LEMMA MsgKinds ==
    ASSUME NEW m \in Msg
    PROVE  /\ m.type \in {"SERVER", "CLOSE", "SID", "SQUIT"}
           /\ m.type = "SERVER" => m = ServerMsg
           /\ m.type = "CLOSE" => m = CloseMsg
           /\ m.type = "SID" => m = SidMsg(m.up, m.name) /\ m.up \in Server /\ m.name \in Server
           /\ m.type = "SQUIT" => m = SquitMsg(m.name) /\ m.name \in Server
<1>1. CASE m \in {ServerMsg, CloseMsg}
  BY <1>1, Kinds
<1>2. CASE m \in {SidMsg(u, x) : u \in Server, x \in Server}
  <2>1. PICK u \in Server, x \in Server : m = SidMsg(u, x)
    BY <1>2
  <2>2. m.type = "SID" /\ m.up = u /\ m.name = x
    BY <2>1, Kinds
  <2> QED BY <2>1, <2>2
<1>3. CASE m \in {SquitMsg(x) : x \in Server}
  <2>1. PICK x \in Server : m = SquitMsg(x)
    BY <1>3
  <2>2. m.type = "SQUIT" /\ m.name = x
    BY <2>1, Kinds
  <2> QED BY <2>1, <2>2
<1> QED BY <1>1, <1>2, <1>3 DEF Msg

LEMMA InMsg ==
    /\ ServerMsg \in Msg /\ CloseMsg \in Msg
    /\ \A u, x \in Server : SidMsg(u, x) \in Msg
    /\ \A x \in Server : SquitMsg(x) \in Msg
BY DEF Msg

\* The two ends of a connection.
LEMMA TwoEnds ==
    ASSUME TypeOK, Unmade, Shape, NEW k \in Conn, NEW s \in Server, status[k][s] # "none"
    PROVE  /\ Peer(k, s) \in Server /\ Peer(k, s) # s /\ Peer(k, Peer(k, s)) = s
           /\ Range(ends[k]) = {s, Peer(k, s)} /\ ends[k] # <<>>
           /\ status[k][Peer(k, s)] # "none"
           /\ \A u \in Server : u \notin {s, Peer(k, s)} => status[k][u] = "none"
           /\ status[k][s] = "handshake" =>
                status[k][Peer(k, s)] \in {"unknown", "server", "closed"}
           /\ status[k][s] = "unknown" =>
                status[k][Peer(k, s)] \in {"handshake", "server", "closed"}
<1>1. ends[k] # <<>>
  BY DEF Unmade
<1>2. PICK a \in Server, b \in Server : ends[k] = <<a, b>> /\ a # b
  BY <1>1, TreeAssumption DEF TypeOK, Config
<1>3. ends[k][1] = a /\ ends[k][2] = b /\ Range(ends[k]) = {a, b}
  BY <1>2 DEF Range
<1>4. s \in {a, b}
  BY <1>1, <1>3 DEF Shape
<1>5. /\ status[k][a] \in {"handshake", "server", "closed"}
      /\ status[k][b] \in {"unknown", "server", "closed"}
      /\ \A u \in Server : u \notin {a, b} => status[k][u] = "none"
  BY <1>1, <1>3 DEF Shape
<1>6. CASE s = a
  <2>1. Peer(k, s) = b /\ Peer(k, b) = a
    BY <1>2, <1>3, <1>6 DEF Peer
  <2> QED BY <1>1, <1>2, <1>3, <1>5, <1>6, <2>1
<1>7. CASE s = b
  <2>1. Peer(k, s) = a /\ Peer(k, a) = b
    BY <1>2, <1>3, <1>7 DEF Peer
  <2> QED BY <1>1, <1>2, <1>3, <1>5, <1>7, <2>1
<1> QED BY <1>4, <1>6, <1>7

-----------------------------------------------------------------------------
(* A step of one server s.                                                 *)

\* s reads the first line of the connections in K, sends out, closes those of
\* Closing, and may register the server that sent it SERVER.
Moves(s, K, out, Closing) ==
    /\ Transmit(s, K, out, Closing) /\ ends' = ends
    /\ \A j \in Conn, u \in Server : u # s => status'[j][u] = status[j][u]
    /\ \A u \in Server : u # s => global_serv_list'[u] = global_serv_list[u]
    /\ \A j \in Closing : Open(j, s) /\ status'[j][s] = "closed"
    /\ \A j \in Conn \ Closing :
         \/ status'[j][s] = status[j][s]
         \/ /\ status[j][s] \in {"unknown", "handshake"} /\ status'[j][s] = "server"
            /\ j \in K /\ wire[j][s][1] = ServerMsg
            /\ status[j][s] = "unknown" => out[j] # <<>> /\ out[j][1] = ServerMsg
    /\ \A j \in K : /\ j \in Conn /\ Open(j, s) /\ wire[j][s] # <<>>
                    /\ wire[j][s][1] = CloseMsg => j \in Closing
                    /\ status[j][s] # "server" => j \in Closing \/ status'[j][s] = "server"
    /\ \A j \in Conn : /\ out[j] \in Seq(Msg) /\ ~Has(out[j], CloseMsg)
                       /\ out[j] # <<>> => status'[j][s] = "server"

LEMMA WireMoves ==
    ASSUME StrongInv, WireInv, NEW s \in Server, NEW K, NEW out, NEW Closing,
           Transmit(s, K, out, Closing), NEW j \in Conn
    PROVE  /\ wire'[j][s] = IF j \in Closing THEN <<>>
                            ELSE IF j \in K THEN Tail(wire[j][s]) ELSE wire[j][s]
           /\ status[j][s] # "none" =>
                wire'[j][Peer(j, s)] =
                  IF Open(j, Peer(j, s))
                  THEN wire[j][Peer(j, s)] \o out[j]
                         \o (IF j \in Closing THEN <<CloseMsg>> ELSE <<>>)
                  ELSE wire[j][Peer(j, s)]
           /\ \A u \in Server : u # s /\ (status[j][s] = "none" \/ u # Peer(j, s)) =>
                wire'[j][u] = wire[j][u]
<1>1. \A u \in Server : wire'[j][u] =
        IF u = s THEN IF j \in Closing THEN <<>>
                      ELSE IF j \in K THEN Tail(wire[j][s]) ELSE wire[j][s]
        ELSE IF s \in Range(ends[j]) /\ u \in Range(ends[j]) /\ Open(j, u)
             THEN wire[j][u] \o out[j] \o (IF j \in Closing THEN <<CloseMsg>> ELSE <<>>)
        ELSE wire[j][u]
  BY DEF Transmit
<1>2. ASSUME status[j][s] # "none"
      PROVE  /\ wire'[j][Peer(j, s)] =
                  IF Open(j, Peer(j, s))
                  THEN wire[j][Peer(j, s)] \o out[j]
                         \o (IF j \in Closing THEN <<CloseMsg>> ELSE <<>>)
                  ELSE wire[j][Peer(j, s)]
             /\ \A u \in Server : u # s /\ u # Peer(j, s) => wire'[j][u] = wire[j][u]
  <2>1. Peer(j, s) \in Server /\ Peer(j, s) # s /\ Range(ends[j]) = {s, Peer(j, s)}
    BY <1>2, TwoEnds DEF StrongInv, WireInv
  <2> QED BY <1>1, <2>1
<1>3. ASSUME status[j][s] = "none", NEW u \in Server, u # s
      PROVE  wire'[j][u] = wire[j][u]
  <2>1. ASSUME Open(j, u), s \in Range(ends[j])
        PROVE  FALSE
    <3>1. status[j][u] # "none"
      BY <2>1 DEF Open
    <3>2. Range(ends[j]) = {u, Peer(j, u)} /\ status[j][Peer(j, u)] # "none"
      BY <3>1, TwoEnds DEF StrongInv, WireInv
    <3> QED BY <1>3, <2>1, <3>2
  <2> QED BY <1>1, <1>3, <2>1
<1> QED BY <1>1, <1>2, <1>3

LEMMA TailMsg ==
    ASSUME NEW q \in Seq(Msg), q # <<>>, NEW m, q[1] # m, Has(q, m)
    PROVE  Has(Tail(q), m)
<1>1. PICK i \in 1..Len(q) : q[i] = m
  BY DEF Has
<1>2. i - 1 \in 1..Len(Tail(q)) /\ Tail(q)[i - 1] = q[i]
  BY <1>1
<1> QED BY <1>1, <1>2 DEF Has

LEMMA AppendMsg ==
    ASSUME NEW q \in Seq(Msg), NEW p \in Seq(Msg), NEW m
    PROVE  Has(q \o p, m) <=> Has(q, m) \/ Has(p, m)
<1>1. /\ Len(q) \in Nat /\ Len(p) \in Nat /\ Len(q \o p) = Len(q) + Len(p)
      /\ \A i \in 1..Len(q) : (q \o p)[i] = q[i]
      /\ \A i \in 1..Len(p) : (q \o p)[Len(q) + i] = p[i]
  OBVIOUS
<1>2. ASSUME Has(q, m)
      PROVE  Has(q \o p, m)
  <2>1. PICK i \in 1..Len(q) : q[i] = m
    BY <1>2 DEF Has
  <2> QED BY <1>1, <2>1 DEF Has
<1>3. ASSUME Has(p, m)
      PROVE  Has(q \o p, m)
  <2>1. PICK i \in 1..Len(p) : p[i] = m
    BY <1>3 DEF Has
  <2>2. Len(q) + i \in 1..Len(q \o p)
    BY <1>1
  <2> QED BY <1>1, <2>1, <2>2 DEF Has
<1>4. ASSUME NEW i \in 1..Len(q \o p), (q \o p)[i] = m, ~Has(q, m)
      PROVE  Has(p, m)
  <2>1. ~(i <= Len(q))
    BY <1>1, <1>4 DEF Has
  <2>2. i - Len(q) \in 1..Len(p) /\ (q \o p)[i] = p[i - Len(q)]
    BY <1>1, <2>1
  <2> QED BY <1>4, <2>2 DEF Has
<1> QED BY <1>2, <1>3, <1>4 DEF Has

\* Where a connection other than those of s stands, it stays.
LEMMA Elsewhere ==
    ASSUME StrongInv, WireInv, NEW s \in Server, NEW K, NEW out, NEW Closing,
           Moves(s, K, out, Closing), NEW k \in Conn, NEW u \in Server, u # s, Peer(k, u) # s,
           status[k][u] # "none"
    PROVE  /\ wire'[k][u] = wire[k][u] /\ wire'[k][Peer(k, u)] = wire[k][Peer(k, u)]
           /\ status'[k][u] = status[k][u] /\ status'[k][Peer(k, u)] = status[k][Peer(k, u)]
           /\ global_serv_list'[u] = global_serv_list[u]
           /\ global_serv_list'[Peer(k, u)] = global_serv_list[Peer(k, u)]
<1>1. /\ Peer(k, u) \in Server /\ Peer(k, u) # u
      /\ status[k][s] = "none"
  BY TwoEnds DEF StrongInv, WireInv
<1>2. wire'[k][u] = wire[k][u] /\ wire'[k][Peer(k, u)] = wire[k][Peer(k, u)]
  BY <1>1, WireMoves DEF Moves
<1> QED BY <1>1, <1>2 DEF Moves

LEMMA ReadSide ==
    ASSUME StrongInv, WireInv, NEW s \in Server, NEW K, NEW out, NEW Closing,
           Moves(s, K, out, Closing), NEW k \in Conn, Open(k, s)'
    PROVE  /\ k \notin Closing /\ Open(k, s)
           /\ Peer(k, s) \in Server /\ Peer(k, s) # s /\ Peer(k, Peer(k, s)) = s
           /\ wire'[k][s] = IF k \in K THEN Tail(wire[k][s]) ELSE wire[k][s]
           /\ wire[k][s] \in Seq(Msg)
           /\ status'[k][Peer(k, s)] = status[k][Peer(k, s)]
           /\ global_serv_list'[Peer(k, s)] = global_serv_list[Peer(k, s)]
<1>1. k \notin Closing /\ Open(k, s)
  BY DEF Moves, Open
<1>2. Peer(k, s) \in Server /\ Peer(k, s) # s /\ Peer(k, Peer(k, s)) = s
  BY <1>1, TwoEnds DEF Open, StrongInv, WireInv
<1>3. wire'[k][s] = IF k \in K THEN Tail(wire[k][s]) ELSE wire[k][s]
  BY <1>1, WireMoves DEF Moves
<1> QED BY <1>1, <1>2, <1>3 DEF Moves, WireInv

\* What the server u at the other end of k is sent.
Receives(s, k, u, out, Closing) ==
    /\ Open(k, u) /\ Peer(k, s) = u /\ status[k][s] # "none"
    /\ status'[k][u] = status[k][u] /\ global_serv_list'[u] = global_serv_list[u]
    /\ wire[k][u] \in Seq(Msg) /\ out[k] \in Seq(Msg)
    /\ out[k] # <<>> => status'[k][s] = "server"
    /\ k \notin Closing => wire'[k][u] = wire[k][u] \o out[k]
    /\ k \notin Closing /\ out[k] = <<>> => wire'[k][u] = wire[k][u]
    /\ k \in Closing => wire'[k][u] = wire[k][u] \o <<CloseMsg>>

LEMMA SendSide ==
    ASSUME StrongInv, WireInv, NEW s \in Server, NEW K, NEW out, NEW Closing,
           Moves(s, K, out, Closing), NEW k \in Conn, NEW u \in Server, u # s, Peer(k, u) = s,
           Open(k, u)'
    PROVE  Receives(s, k, u, out, Closing)
<1>1. Open(k, u) /\ status'[k][u] = status[k][u] /\ global_serv_list'[u] = global_serv_list[u]
  BY DEF Moves, Open
<1>2. status[k][s] # "none" /\ Peer(k, s) = u
  BY <1>1, TwoEnds DEF StrongInv, WireInv, Open
<1>3. wire'[k][u] = wire[k][u] \o out[k] \o (IF k \in Closing THEN <<CloseMsg>> ELSE <<>>)
  <2>1. Transmit(s, K, out, Closing)
    BY DEF Moves
  <2>2. wire'[k][Peer(k, s)] =
          IF Open(k, Peer(k, s))
          THEN wire[k][Peer(k, s)] \o out[k] \o (IF k \in Closing THEN <<CloseMsg>> ELSE <<>>)
          ELSE wire[k][Peer(k, s)]
    BY <1>2, <2>1, WireMoves
  <2> QED BY <1>1, <1>2, <2>2
<1>4. wire[k][u] \in Seq(Msg) /\ out[k] \in Seq(Msg) /\ (out[k] # <<>> => status'[k][s] = "server")
  BY DEF Moves, WireInv
<1>5. k \in Closing => out[k] = <<>>
  BY <1>4 DEF Moves
<1>6. \A q \in Seq(Msg) : q \o <<>> = q
  OBVIOUS
<1>7. wire[k][u] \o out[k] \in Seq(Msg)
  BY <1>4
<1>8. k \notin Closing => wire'[k][u] = wire[k][u] \o out[k]
  BY <1>3, <1>6, <1>7
<1>9. k \notin Closing /\ out[k] = <<>> => wire'[k][u] = wire[k][u]
  BY <1>4, <1>6, <1>8
<1>10. k \in Closing => wire'[k][u] = wire[k][u] \o <<CloseMsg>>
  <2> SUFFICES ASSUME k \in Closing
               PROVE  wire'[k][u] = wire[k][u] \o <<CloseMsg>>
    OBVIOUS
  <2>1. wire[k][u] \o out[k] = wire[k][u]
    BY <1>4, <1>5, <1>6
  <2> QED BY <1>3, <2>1
<1> QED BY <1>1, <1>2, <1>4, <1>8, <1>9, <1>10 DEF Receives

LEMMA HeadStays ==
    ASSUME NEW q \in Seq(Msg), NEW p \in Seq(Msg), q # <<>>
    PROVE  q \o p # <<>> /\ (q \o p)[1] = q[1]
OBVIOUS

LEMMA CloseSeq ==
    /\ <<CloseMsg>> \in Seq(Msg) /\ <<CloseMsg>> # <<>> /\ <<CloseMsg>>[1] = CloseMsg
    /\ Has(<<CloseMsg>>, CloseMsg)
BY InMsg DEF Has

LEMMA ClosesMoves ==
    ASSUME StrongInv, WireInv, NEW s \in Server, NEW K, NEW out, NEW Closing,
           Moves(s, K, out, Closing), NEW k \in Conn, NEW u \in Server
    PROVE  Closes(k, u)'
<1>1. Peer(k, u)' = Peer(k, u)
  BY DEF Moves, Peer
<1> SUFFICES ASSUME Open(k, u)', status'[k][Peer(k, u)] = "closed"
             PROVE  Has(wire'[k][u], CloseMsg)
  BY <1>1 DEF Closes
<1>2. CASE u = s
  <2>1. /\ Open(k, s) /\ k \notin Closing /\ status[k][Peer(k, s)] = "closed"
        /\ wire[k][s] \in Seq(Msg)
        /\ wire'[k][s] = IF k \in K THEN Tail(wire[k][s]) ELSE wire[k][s]
    BY <1>2, ReadSide
  <2>2. Has(wire[k][s], CloseMsg)
    BY <2>1 DEF WireInv, Closes
  <2>3. k \in K => wire[k][s] # <<>> /\ wire[k][s][1] # CloseMsg
    BY <2>1 DEF Moves
  <2> QED BY <1>2, <2>1, <2>2, <2>3, TailMsg
<1>3. CASE u # s /\ Peer(k, u) = s
  <2>1. /\ Open(k, u) /\ wire[k][u] \in Seq(Msg) /\ out[k] \in Seq(Msg)
        /\ k \notin Closing => wire'[k][u] = wire[k][u] \o out[k]
        /\ k \in Closing => wire'[k][u] = wire[k][u] \o <<CloseMsg>>
    <3>1. Receives(s, k, u, out, Closing)
      BY <1>3, SendSide
    <3> QED BY <3>1 DEF Receives
  <2>2. CASE k \in Closing
    <3>1. Has(wire[k][u] \o <<CloseMsg>>, CloseMsg)
      BY <2>1, CloseSeq, AppendMsg
    <3> QED BY <2>1, <2>2, <3>1
  <2>3. CASE k \notin Closing
    <3>1. status[k][s] = "closed"
      BY <1>3, <2>3 DEF Moves
    <3>2. Has(wire[k][u], CloseMsg)
      BY <1>3, <2>1, <3>1 DEF WireInv, Closes
    <3>3. Has(wire[k][u] \o out[k], CloseMsg)
      BY <2>1, <3>2, AppendMsg
    <3> QED BY <2>1, <2>3, <3>3
  <2> QED BY <2>2, <2>3
<1>4. CASE u # s /\ Peer(k, u) # s
  <2>1. status[k][u] # "none"
    BY <1>4 DEF Moves, Open
  <2>2. /\ wire'[k][u] = wire[k][u] /\ status'[k][u] = status[k][u]
        /\ status'[k][Peer(k, u)] = status[k][Peer(k, u)]
    BY <1>4, <2>1, Elsewhere
  <2> QED BY <2>2 DEF WireInv, Closes, Open
<1> QED BY <1>2, <1>3, <1>4

LEMMA HandshakeMoves ==
    ASSUME StrongInv, WireInv, NEW s \in Server, NEW K, NEW out, NEW Closing,
           Moves(s, K, out, Closing), NEW k \in Conn, NEW u \in Server
    PROVE  Handshake(k, u)'
<1>1. Peer(k, u)' = Peer(k, u)
  BY DEF Moves, Peer
<1> SUFFICES ASSUME Open(k, u)'
             PROVE  /\ status'[k][Peer(k, u)] = "unknown" =>
                         \A i \in 1..Len(wire'[k][u]) : wire'[k][u][i] = CloseMsg
                    /\ status'[k][u] # "server" =>
                         IF wire'[k][u] = <<>> THEN status'[k][Peer(k, u)] # "server"
                         ELSE wire'[k][u][1] \in {ServerMsg, CloseMsg}
  BY <1>1 DEF Handshake
<1>2. CASE u = s
  <2>1. /\ Open(k, s) /\ k \notin Closing /\ status'[k][Peer(k, s)] = status[k][Peer(k, s)]
        /\ wire[k][s] \in Seq(Msg)
        /\ wire'[k][s] = IF k \in K THEN Tail(wire[k][s]) ELSE wire[k][s]
    BY <1>2, ReadSide
  <2>2. Handshake(k, s)
    BY DEF WireInv
  <2>3. k \in K => /\ wire[k][s] # <<>> /\ wire[k][s][1] # CloseMsg
                   /\ status[k][s] # "server" => status'[k][s] = "server"
    BY <2>1 DEF Moves
  <2>4. status[k][Peer(k, s)] = "unknown" => k \notin K
    <3>1. 1 \in 1..Len(wire[k][s]) \/ wire[k][s] = <<>>
      BY <2>1
    <3> QED BY <2>1, <2>2, <2>3, <3>1 DEF Handshake
  <2>5. status'[k][s] # "server" => status[k][s] # "server" /\ k \notin K
    BY <2>1, <2>3 DEF Moves
  <2> QED BY <1>2, <2>1, <2>2, <2>4, <2>5 DEF Handshake
<1>3. CASE u # s /\ Peer(k, u) = s
  <2>1. /\ Open(k, u) /\ wire[k][u] \in Seq(Msg) /\ out[k] \in Seq(Msg)
        /\ Peer(k, s) = u /\ status'[k][u] = status[k][u] /\ status[k][s] # "none"
        /\ out[k] # <<>> => status'[k][s] = "server"
        /\ k \notin Closing => wire'[k][u] = wire[k][u] \o out[k]
        /\ k \notin Closing /\ out[k] = <<>> => wire'[k][u] = wire[k][u]
        /\ k \in Closing => wire'[k][u] = wire[k][u] \o <<CloseMsg>>
    <3>1. Receives(s, k, u, out, Closing)
      BY <1>3, SendSide
    <3> QED BY <3>1 DEF Receives
  <2>2. Handshake(k, u) /\ Handshake(k, s)
    BY DEF WireInv
  <2>3. ASSUME status'[k][s] = "unknown"
        PROVE  status[k][s] = "unknown" /\ wire'[k][u] = wire[k][u]
    BY <2>1, <2>3 DEF Moves
  <2>4. ASSUME status[k][u] # "server", wire[k][u] # <<>>
        PROVE  wire'[k][u] # <<>> /\ wire'[k][u][1] = wire[k][u][1]
    <3>1. CASE k \in Closing
      BY <2>1, <2>4, <3>1, CloseSeq, HeadStays
    <3>2. CASE k \notin Closing
      BY <2>1, <2>4, <3>2, HeadStays
    <3> QED BY <3>1, <3>2
  <2>5. ASSUME status[k][u] # "server", wire[k][u] = <<>>
        PROVE  IF wire'[k][u] = <<>> THEN status'[k][s] # "server"
               ELSE wire'[k][u][1] \in {ServerMsg, CloseMsg}
    <3>1. status[k][s] # "server"
      BY <1>3, <2>1, <2>2, <2>5 DEF Handshake
    <3>2. CASE k \in Closing
      <4>1. wire'[k][u] = <<CloseMsg>>
        BY <2>1, <2>5, <3>2, CloseSeq
      <4> QED BY <4>1, CloseSeq
    <3>3. CASE k \notin Closing /\ status'[k][s] = status[k][s]
      BY <2>1, <2>5, <3>1, <3>3
    <3>4. CASE k \notin Closing /\ status'[k][s] # status[k][s]
      <4>1. /\ status[k][s] \in {"unknown", "handshake"} /\ k \in K /\ wire[k][s][1] = ServerMsg
            /\ status[k][s] = "unknown" => out[k] # <<>> /\ out[k][1] = ServerMsg
        BY <3>4 DEF Moves
      <4>2. wire[k][s] # <<>> /\ wire[k][s] \in Seq(Msg)
        BY <4>1 DEF Moves, WireInv
      <4>3. status[k][s] # "handshake"
        <5> SUFFICES ASSUME status[k][s] = "handshake"
                     PROVE  FALSE
          OBVIOUS
        <5>1. status[k][u] \in {"unknown", "server", "closed"}
          BY <2>1, TwoEnds DEF StrongInv, WireInv
        <5>2. status[k][u] = "unknown" /\ Open(k, s)
          BY <2>1, <2>5, <5>1 DEF Open
        <5>3. 1 \in 1..Len(wire[k][s])
          BY <4>2
        <5> QED BY <2>1, <2>2, <4>1, <5>2, <5>3, Kinds DEF Handshake
      <4>4. wire'[k][u] = out[k]
        BY <2>1, <2>5, <3>4
      <4> QED BY <4>1, <4>3, <4>4
    <3> QED BY <3>2, <3>3, <3>4
  <2> QED BY <1>3, <2>1, <2>2, <2>3, <2>4, <2>5 DEF Handshake
<1>4. CASE u # s /\ Peer(k, u) # s
  <2>1. status[k][u] # "none"
    BY <1>4 DEF Moves, Open
  <2>2. /\ wire'[k][u] = wire[k][u] /\ status'[k][u] = status[k][u]
        /\ status'[k][Peer(k, u)] = status[k][Peer(k, u)]
    BY <1>4, <2>1, Elsewhere
  <2> QED BY <2>2 DEF WireInv, Handshake, Open
<1> QED BY <1>2, <1>3, <1>4

LEMMA WireInvMoves ==
    ASSUME StrongInv, WireInv, NEW s \in Server, NEW K, NEW out, NEW Closing,
           Moves(s, K, out, Closing)
    PROVE  WireInv'
<1>1. wire' \in [Conn -> [Server -> Seq(Msg)]]
  <2>1. \A k \in Conn, u \in Server : wire[k][u] \in Seq(Msg)
    BY DEF WireInv
  <2>2. \A k \in Conn : out[k] \in Seq(Msg)
    BY DEF Moves
  <2>3. ASSUME NEW k \in Conn, NEW u \in Server
        PROVE  wire'[k][u] \in Seq(Msg)
    <3>1. CASE u = s
      <4>1. k \in K => wire[k][s] # <<>>
        BY DEF Moves
      <4>2. wire'[k][s] = IF k \in Closing THEN <<>>
                          ELSE IF k \in K THEN Tail(wire[k][s]) ELSE wire[k][s]
        BY WireMoves DEF Moves
      <4>3. wire[k][s] \in Seq(Msg) /\ <<>> \in Seq(Msg)
        BY <2>1
      <4>4. wire[k][s] # <<>> => Tail(wire[k][s]) \in Seq(Msg)
        BY <4>3
      <4> QED BY <3>1, <4>1, <4>2, <4>3, <4>4
    <3>2. CASE u # s
      <4>1. \/ wire'[k][u] = wire[k][u]
            \/ wire'[k][u] = wire[k][u] \o out[k] \o (IF k \in Closing THEN <<CloseMsg>> ELSE <<>>)
        <5>1. Transmit(s, K, out, Closing)
          BY DEF Moves
        <5> DEFINE c == IF k \in Closing THEN <<CloseMsg>> ELSE <<>>
        <5>2. /\ status[k][s] # "none" =>
                   wire'[k][Peer(k, s)] = IF Open(k, Peer(k, s))
                                          THEN wire[k][Peer(k, s)] \o out[k] \o c
                                          ELSE wire[k][Peer(k, s)]
              /\ \A v \in Server : v # s /\ (status[k][s] = "none" \/ v # Peer(k, s)) =>
                   wire'[k][v] = wire[k][v]
          BY <5>1, WireMoves
        <5> HIDE DEF c
        <5>3. wire'[k][u] = wire[k][u] \/ wire'[k][u] = wire[k][u] \o out[k] \o c
          BY <3>2, <5>2
        <5> QED BY <5>3 DEF c
      <4>2. wire[k][u] \o out[k] \in Seq(Msg) /\ <<CloseMsg>> \in Seq(Msg) /\ <<>> \in Seq(Msg)
        BY <2>1, <2>2, InMsg
      <4> DEFINE c == IF k \in Closing THEN <<CloseMsg>> ELSE <<>>
      <4>3. c \in Seq(Msg)
        BY <4>2
      <4> HIDE DEF c
      <4>4. wire[k][u] \o out[k] \o c \in Seq(Msg)
        BY <4>2, <4>3
      <4> QED BY <2>1, <4>1, <4>4 DEF c
    <3> QED BY <3>1, <3>2
  <2>4. wire' = [k \in Conn |-> [u \in Server |-> wire'[k][u]]]
    BY DEF Moves, Transmit
  <2> QED BY <2>3, <2>4
<1>2. Shape'
  <2>1. \A k \in Conn : status'[k][s] = status[k][s] \/
          (/\ status[k][s] \in {"unknown", "handshake", "server"}
           /\ status'[k][s] \in {"server", "closed"})
    BY DEF Moves, Open
  <2>2. ASSUME NEW k \in Conn, ends[k] # <<>>
        PROVE  /\ status'[k][ends[k][1]] \in {"handshake", "server", "closed"}
               /\ status'[k][ends[k][2]] \in {"unknown", "server", "closed"}
               /\ \A u \in Server : u \notin {ends[k][1], ends[k][2]} => status'[k][u] = "none"
    <3>1. ends[k][1] \in Server /\ ends[k][2] \in Server
      BY <2>2, TreeAssumption DEF StrongInv, TypeOK, Config
    <3>2. /\ status[k][ends[k][1]] \in {"handshake", "server", "closed"}
          /\ status[k][ends[k][2]] \in {"unknown", "server", "closed"}
          /\ \A u \in Server : u \notin {ends[k][1], ends[k][2]} => status[k][u] = "none"
      BY <2>2 DEF WireInv, Shape
    <3>3. \A u \in Server : u # s => status'[k][u] = status[k][u]
      BY DEF Moves
    <3> QED BY <2>1, <3>1, <3>2, <3>3
  <2>3. ASSUME NEW k \in Conn, NEW u \in Server, status'[k][u] \in {"none", "closed"}
        PROVE  wire'[k][u] = <<>>
    <3>1. CASE u # s
      <4>1. status[k][u] = status'[k][u] /\ wire[k][u] = <<>> /\ ~Open(k, u)
        BY <2>3, <3>1 DEF Moves, WireInv, Shape, Open
      <4> QED BY <3>1, <4>1, WireMoves DEF Moves
    <3>2. CASE u = s /\ k \in Closing
      BY <3>2, WireMoves DEF Moves
    <3>3. CASE u = s /\ k \notin Closing
      <4>1. status[k][s] = status'[k][s] /\ wire[k][s] = <<>> /\ k \notin K
        BY <2>3, <3>3 DEF Moves, WireInv, Shape, Open
      <4> QED BY <3>3, <4>1, WireMoves DEF Moves
    <3> QED BY <3>1, <3>2, <3>3
  <2>4. ends' = ends
    BY DEF Moves
  <2> QED BY <2>2, <2>3, <2>4 DEF Shape
<1> QED BY <1>1, <1>2, ClosesMoves, HandshakeMoves DEF WireInv

\* Whether s, who reads on k, holds what its neighbour tells, after the step.
ReaderHolds(s, k, out) ==
    LET t == Peer(k, s)
    IN  Good(wire[k][s], global_serv_list[s], k, wire[k][t], global_serv_list[t]) =>
          Good(wire'[k][s], global_serv_list'[s], k, wire[k][t] \o out[k], global_serv_list[t])

\* Whether the neighbour of s on k holds what s tells, after the step.
TellerHolds(s, k, out) ==
    LET u == Peer(k, s)
    IN  (status[k][s] = "server" =>
           Good(wire[k][u], global_serv_list[u], k, wire[k][s], global_serv_list[s])) =>
          Good(wire[k][u] \o out[k], global_serv_list[u], k, wire'[k][s], global_serv_list'[s])

LEMMA CompleteMoves ==
    ASSUME ToldInv, NEW s \in Server, NEW K, NEW out, NEW Closing, Moves(s, K, out, Closing),
           \A k \in Conn :
             Open(k, s)' /\ status[k][Peer(k, s)] = "server" => ReaderHolds(s, k, out),
           \A k \in Conn :
             status'[k][s] = "server" /\ Open(k, Peer(k, s)) => TellerHolds(s, k, out),
           StrongInv'
    PROVE  ToldInv'
<1>1. StrongInv /\ WireInv
  BY DEF ToldInv
<1>2. WireInv'
  BY <1>1, WireInvMoves
<1>3. ASSUME NEW k \in Conn, NEW t \in Server
      PROVE  Complete(k, t)'
  <2> DEFINE r == Peer(k, t)
  <2>1. Peer(k, t)' = r
    BY DEF Moves, Peer
  <2> HIDE DEF r
  <2> SUFFICES ASSUME status'[k][t] = "server",
                      status'[k][r] \in {"unknown", "handshake", "server"},
                      ~Has(wire'[k][r], CloseMsg)
               PROVE  Good(wire'[k][r], global_serv_list'[r], k, wire'[k][t], global_serv_list'[t])
    BY <2>1 DEF Complete, Open
  <2>2. Open(k, t)' /\ status[k][t] # "none"
    BY DEF Open, Moves
  <2>3. r \in Server /\ r # t /\ Peer(k, r) = t
    BY <1>1, <2>2, TwoEnds DEF StrongInv, WireInv, r
  <2>4. Complete(k, t)
    BY DEF ToldInv
  <2>5. CASE r = s
    <3>0. Open(k, s)'
      BY <2>5 DEF Open
    <3>1. /\ k \notin Closing /\ Open(k, s)
          /\ wire'[k][s] = IF k \in K THEN Tail(wire[k][s]) ELSE wire[k][s]
          /\ wire[k][s] \in Seq(Msg)
          /\ status'[k][t] = status[k][t] /\ global_serv_list'[t] = global_serv_list[t]
      BY <1>1, <2>3, <2>5, <3>0, ReadSide
    <3>2. ~Has(wire[k][s], CloseMsg)
      <4>1. k \in K => wire[k][s] # <<>> /\ wire[k][s][1] # CloseMsg
        BY <3>1 DEF Moves
      <4> QED BY <2>5, <3>1, <4>1, TailMsg
    <3>3. Good(wire[k][s], global_serv_list[s], k, wire[k][t], global_serv_list[t])
      BY <2>4, <2>5, <3>1, <3>2 DEF Complete, r
    <3>4. ReaderHolds(s, k, out)
      BY <2>3, <2>5, <3>0, <3>1 DEF r
    <3>5. wire'[k][t] = wire[k][t] \o out[k]
      <4>1. Receives(s, k, t, out, Closing)
        BY <1>1, <2>2, <2>3, <2>5, SendSide DEF r
      <4> QED BY <3>1, <4>1 DEF Receives
    <3> QED BY <2>3, <2>5, <3>1, <3>3, <3>4, <3>5 DEF ReaderHolds
  <2>6. CASE t = s
    <3>1. Receives(s, k, r, out, Closing)
      <4>1. \A u \in Server : u = r => Open(k, u)'
        BY DEF Open
      <4> QED BY <1>1, <2>3, <2>6, <4>1, SendSide
    <3>2. k \notin Closing
      BY <2>6 DEF Moves
    <3>3. /\ Open(k, r) /\ wire'[k][r] = wire[k][r] \o out[k]
          /\ global_serv_list'[r] = global_serv_list[r]
          /\ wire[k][r] \in Seq(Msg) /\ out[k] \in Seq(Msg)
      BY <3>1, <3>2 DEF Receives
    <3>4. ~Has(wire[k][r], CloseMsg)
      BY <3>3, AppendMsg
    <3>5. status[k][s] = "server" =>
            Good(wire[k][r], global_serv_list[r], k, wire[k][s], global_serv_list[s])
      BY <2>4, <2>6, <3>3, <3>4 DEF Complete, r
    <3>6. TellerHolds(s, k, out)
      BY <2>6, <3>3 DEF r
    <3>7. Peer(k, s) = r
      BY <2>6 DEF r
    <3> QED BY <2>6, <3>3, <3>5, <3>6, <3>7 DEF TellerHolds
  <2>7. CASE r # s /\ t # s
    <3>1. /\ wire'[k][t] = wire[k][t] /\ wire'[k][r] = wire[k][r]
          /\ status'[k][t] = status[k][t] /\ status'[k][r] = status[k][r]
          /\ global_serv_list'[t] = global_serv_list[t]
          /\ global_serv_list'[r] = global_serv_list[r]
      BY <1>1, <2>2, <2>7, Elsewhere DEF r
    <3>2. /\ status[k][t] = "server" /\ Open(k, r) /\ ~Has(wire[k][r], CloseMsg)
      BY <3>1 DEF Open
    <3>3. Good(wire[k][r], global_serv_list[r], k, wire[k][t], global_serv_list[t])
      BY <2>4, <3>2 DEF Complete, r
    <3> QED BY <3>1, <3>3
  <2> QED BY <2>5, <2>6, <2>7
<1> QED BY <1>2, <1>3 DEF ToldInv

-----------------------------------------------------------------------------
(* The steps, one by one.                                                  *)

\* On a link, the neighbour is known, and s introduced it.
LEMMA NeighbourKnown ==
    ASSUME StrongInv, NEW s \in Server, NEW k \in Conn, status[k][s] = "server"
    PROVE  /\ KnownBy(s, k, Peer(k, s)) /\ Peer(k, s) \in Server /\ Peer(k, s) # s
           /\ \A f \in global_serv_list[s] : f.name = Peer(k, s) => f.up = s /\ f.from = k
<1>1. PICK e \in global_serv_list[s] : e.name = Peer(k, s) /\ e.from = k
  BY DEF StrongInv, LocalInv, LinksKnown, Established, KnownBy
<1>2. e.up = s /\ e.name \in Server /\ e.name # s
  BY <1>1 DEF StrongInv, LocalInv, IntroducedBefore, TypeOK, Entry, KnownOnce
<1>3. \A f \in global_serv_list[s] : f.name = Peer(k, s) => f = e
  BY <1>1 DEF StrongInv, LocalInv, KnownOnce
<1> QED BY <1>1, <1>2, <1>3 DEF KnownBy

LEMMA Removed ==
    ASSUME StrongInv, NEW s \in Server, NEW z, RemoveServers(s, Dependents(s, z))
    PROVE  /\ \A d \in global_serv_list'[s] :
                /\ d.name \notin Reach(z, PairsOf(global_serv_list[s]))
                /\ \E e \in global_serv_list[s] : d.name = e.name /\ d.up = e.up /\ d.from = e.from
           /\ \A e \in global_serv_list[s] : e.name \notin Reach(z, PairsOf(global_serv_list[s])) =>
                \E d \in global_serv_list'[s] : d.name = e.name /\ d.up = e.up /\ d.from = e.from
<1> DEFINE E == global_serv_list[s]
           D == Reach(z, PairsOf(E))
           Kept(e) == [e EXCEPT !.below = @ \ D]
<1>1. Dependents(s, z) = D
  BY DEF Dependents, PairsOf
<1>2. global_serv_list'[s] = {Kept(e) : e \in {f \in E : f.name \notin D}}
  BY <1>1 DEF RemoveServers, StrongInv, TypeOK
<1>3. \A e \in E : Kept(e).name = e.name /\ Kept(e).up = e.up /\ Kept(e).from = e.from
  BY DEF StrongInv, TypeOK, Entry
<1> HIDE DEF E, D, Kept
<1>4. ASSUME NEW d \in global_serv_list'[s]
      PROVE  d.name \notin D /\ \E e \in E : d.name = e.name /\ d.up = e.up /\ d.from = e.from
  BY <1>2, <1>3
<1>5. ASSUME NEW e \in E, e.name \notin D
      PROVE  \E d \in global_serv_list'[s] : d.name = e.name /\ d.up = e.up /\ d.from = e.from
  <2>1. Kept(e) \in global_serv_list'[s]
    BY <1>2, <1>5
  <2> QED BY <1>3, <2>1
<1> QED BY <1>4, <1>5 DEF E, D

\* The lines that make s remove x, known through j, came on the links of K: x is
\* the neighbour there, or a SQUIT names it, or it introduced what s masks.
FiredBy(s, x, j, K, one) ==
    /\ \A k \in K : /\ status[k][s] = "server" /\ wire[k][s] # <<>>
                    /\ \/ k = j /\ Peer(j, s) = x
                       \/ wire[k][s][1] = SquitMsg(x)
                       \/ k \notin one /\ \E y : wire[k][s][1] = SidMsg(x, y)
    /\ \A k \in one : k \in K /\ wire[k][s][1] = SquitMsg(x)

LEMMA ExitServerTold ==
    ASSUME ToldInv, StrongInv', NEW s \in Server, NEW x \in Server, NEW j \in Conn,
           NEW K \in SUBSET Conn, NEW one, NEW tossed \in SUBSET Conn,
           KnownBy(s, j, x), \A k \in tossed : status[k][s] = "handshake",
           ExitServer(s, x, j, K, one, tossed), ends' = ends,
           FiredBy(s, x, j, K, one)
    PROVE  ToldInv'
<1> USE DEF FiredBy
<1> DEFINE closing == IF Peer(j, s) = x THEN {j} ELSE {}
           C == closing \cup tossed
           out == ToServers(s, one \cup closing, <<SquitMsg(x)>>)
           E == global_serv_list[s]
           F == global_serv_list'[s]
<1>1. StrongInv /\ WireInv /\ TypeOK /\ LocalInv(s)
  BY DEF ToldInv, StrongInv
<1>2. /\ SetStatus(s, C, "closed") /\ Transmit(s, K, out, C)
      /\ RemoveServers(s, Dependents(s, x))
  BY DEF ExitServer
<1>3. \A k \in Conn, t \in Server :
        status'[k][t] = IF k \in C /\ t = s THEN "closed" ELSE status[k][t]
  BY <1>1, <1>2 DEF TypeOK, SetStatus
<1>4. status[j][s] = "server" /\ x # s
  BY <1>1 DEF LocalInv, KnownBy, ThroughLinks, KnownOnce
<1>5. C \in SUBSET Conn /\ \A k \in C : Open(k, s)
  BY <1>4 DEF Open
<1>6. \A k \in Conn : out[k] = IF status[k][s] = "server" /\ k \notin one \cup closing
                               THEN <<SquitMsg(x)>> ELSE <<>>
  BY DEF ToServers, Established
<1> HIDE DEF out
<1>7. <<SquitMsg(x)>> \in Seq(Msg) /\ ~Has(<<SquitMsg(x)>>, CloseMsg)
  <2>1. SquitMsg(x) # CloseMsg
    BY Kinds
  <2> QED BY <2>1, InMsg DEF Has
<1>8. \A k \in Conn : /\ out[k] \in Seq(Msg) /\ ~Has(out[k], CloseMsg)
                      /\ out[k] # <<>> => status'[k][s] = "server"
  <2> TAKE k \in Conn
  <2>1. <<>> \in Seq(Msg) /\ ~Has(<<>>, CloseMsg)
    BY DEF Has
  <2> QED BY <1>3, <1>6, <1>7, <2>1
<1>9. \A u \in Server : u # s => global_serv_list'[u] = global_serv_list[u]
  BY <1>1, <1>2 DEF RemoveServers, TypeOK
<1>10. \A k \in K : SquitMsg(x) # CloseMsg /\ \A y : SidMsg(x, y) # CloseMsg
  BY Kinds
<1>11. \A k \in K : k \notin C => wire[k][s][1] # CloseMsg
  BY <1>10
<1>12. Moves(s, K, out, C)
  BY <1>2, <1>3, <1>5, <1>8, <1>9, <1>11 DEF Moves, Open
<1>13. Rooted(E, s)
  BY <1>1, LocalRooted
<1>14. /\ \A d \in F : /\ d.name \notin Reach(x, PairsOf(E))
                       /\ \E e \in E : d.name = e.name /\ d.up = e.up /\ d.from = e.from
       /\ \A e \in E : e.name \notin Reach(x, PairsOf(E)) =>
            \E d \in F : d.name = e.name /\ d.up = e.up /\ d.from = e.from
  BY <1>1, <1>2, Removed
<1> HIDE DEF E, F, C, closing
<1>15. ASSUME NEW k \in Conn, Open(k, s)', status[k][Peer(k, s)] = "server"
       PROVE  ReaderHolds(s, k, out)
  <2> DEFINE t == Peer(k, s)
             q == wire[k][s]
             w == wire[k][t]
  <2>1. /\ k \notin C /\ Open(k, s) /\ t \in Server /\ t # s /\ q \in Seq(Msg)
        /\ wire'[k][s] = IF k \in K THEN Tail(q) ELSE q
    BY <1>1, <1>12, <1>15, ReadSide
  <2>2. w \in Seq(Msg) /\ out[k] \in Seq(Msg)
    BY <1>1, <1>8, <2>1 DEF WireInv
  <2>3. SUFFICES ASSUME Good(q, E, k, w, global_serv_list[t])
                 PROVE  Good(wire'[k][s], F, k, w \o out[k], global_serv_list[t])
    BY DEF ReaderHolds, E, F
  <2>4. CASE status[k][s] # "server"
    <3>1. wire'[k][s] = q
      BY <2>1, <2>4
    <3>2. \A e : ~Held(E, k, e)
      BY <1>1, <2>4 DEF Held, LocalInv, ThroughLinks, E
    <3> HIDE DEF t, q, w
    <3> QED BY <2>1, <2>2, <2>3, <3>1, <3>2, ReaderKeeps
  <2>5. CASE status[k][s] = "server"
    <3>1. \A f \in E : f.name = t => f.up = s /\ f.from = k
      BY <1>1, <2>5, NeighbourKnown DEF E
    <3>2. x # t
      <4> SUFFICES ASSUME x = t
                   PROVE  FALSE
        OBVIOUS
      <4>1. j = k
        BY <3>1 DEF KnownBy, E
      <4> QED BY <2>1, <4>1 DEF C, closing
    <3>3. Rooted(global_serv_list[t], t)
      BY <1>1, <2>1, LocalRooted DEF StrongInv
    <3>4. \A e \in global_serv_list[t] :
            Held(E, k, e) /\ e.name \notin Reach(x, PairsOf(E)) => Held(F, k, e)
      BY <1>14 DEF Held
    <3>5. k \notin closing
      BY <2>1 DEF C
    <3>6. k \notin one => SendsSquit(out[k], x)
      BY <1>6, <2>5, <3>5 DEF SendsSquit
    <3>7. \/ wire'[k][s] = q /\ SendsSquit(out[k], x)
          \/ wire'[k][s] = Tail(q) /\ q # <<>> /\ q[1] = SquitMsg(x)
          \/ /\ wire'[k][s] = Tail(q) /\ q # <<>> /\ SendsSquit(out[k], x)
             /\ \E y : q[1] = SidMsg(x, y)
      <4>1. CASE k \in K
        <5>1. ~(k = j /\ Peer(j, s) = x)
          BY <3>5 DEF closing
        <5> QED BY <2>1, <3>6, <4>1, <5>1
      <4>2. CASE k \notin K
        BY <2>1, <3>6, <4>2
      <4> QED BY <4>1, <4>2
    <3> DEFINE p == wire'[k][s]
               T == global_serv_list[t]
               o == out[k]
    <3> HIDE DEF t, q, w, p, T, o
    <3>8. q \in Seq(Msg) /\ w \in Seq(Msg) /\ o \in Seq(Msg) /\ t \in Server
      BY <2>1, <2>2 DEF o
    <3>9. Rooted(T, t) /\ Rooted(E, s) /\ Good(q, E, k, w, T) /\ x # t /\ x # s
      BY <1>4, <1>13, <2>3, <3>2, <3>3 DEF T
    <3>10. \A f \in E : f.name = t => f.up = s
      BY <3>1
    <3>11. \A e \in T : Held(E, k, e) /\ e.name \notin Reach(x, PairsOf(E)) => Held(F, k, e)
      BY <3>4 DEF T
    <3>12. \/ p = q /\ SendsSquit(o, x)
           \/ p = Tail(q) /\ q # <<>> /\ q[1] = SquitMsg(x)
           \/ p = Tail(q) /\ q # <<>> /\ SendsSquit(o, x) /\ \E y : q[1] = SidMsg(x, y)
      BY <3>7 DEF p, o
    <3>13. Good(p, F, k, w \o o, T)
      BY <3>8, <3>9, <3>10, <3>11, <3>12, ReaderRemoves
    <3> QED BY <3>13 DEF p, o, T
  <2> QED BY <2>4, <2>5
<1>16. ASSUME NEW k \in Conn, status'[k][s] = "server", Open(k, Peer(k, s))
       PROVE  TellerHolds(s, k, out)
  <2> DEFINE u == Peer(k, s)
             q == wire[k][u]
             w == wire[k][s]
  <2>1. status[k][s] = "server" /\ k \notin C /\ Open(k, s)'
    BY <1>3, <1>16 DEF Open
  <2>2. u \in Server
    BY <1>1, <2>1, NeighbourKnown
  <2>3. q \in Seq(Msg) /\ w \in Seq(Msg) /\ out[k] \in Seq(Msg)
    BY <1>1, <1>8, <2>2 DEF WireInv
  <2>4. wire'[k][s] = IF k \in K THEN Tail(w) ELSE w
    BY <1>1, <1>12, <2>1, ReadSide
  <2>5. SUFFICES ASSUME Good(q, global_serv_list[u], k, w, E)
                 PROVE  Good(q \o out[k], global_serv_list[u], k, wire'[k][s], F)
    BY <2>1 DEF TellerHolds, E, F
  <2>6. out[k] = <<>> \/ out[k] = <<SquitMsg(x)>>
    BY <1>6
  <2>7. wire'[k][s] = w \/
          (wire'[k][s] = Tail(w) /\ \A y \in NamesOf(E) : w[1] = SquitMsg(y) => y = x)
    <3>1. CASE k \in K
      <4>1. ~(k = j /\ Peer(j, s) = x)
        BY <2>1 DEF C, closing
      <4>2. \A y : w[1] = SquitMsg(y) => y = x
        <5> TAKE y
        <5> HAVE w[1] = SquitMsg(y)
        <5>1. SquitMsg(y).type = "SQUIT" /\ SquitMsg(y).name = y
          BY Kinds
        <5>2. w[1] = SquitMsg(x) \/ \E v : w[1] = SidMsg(x, v)
          BY <3>1, <4>1
        <5> QED BY <5>1, <5>2, Kinds
      <4> QED BY <2>4, <3>1, <4>2
    <3>2. CASE k \notin K
      BY <2>4, <3>2
    <3> QED BY <3>1, <3>2
  <2> DEFINE v == wire'[k][s]
             G == global_serv_list[u]
             p == out[k]
  <2> HIDE DEF u, q, w, v, G, p
  <2>8. q \in Seq(Msg) /\ w \in Seq(Msg) /\ p \in Seq(Msg) /\ Rooted(E, s) /\ Good(q, G, k, w, E)
    BY <1>13, <2>3, <2>5 DEF p, G
  <2>9. p = <<>> \/ p = <<SquitMsg(x)>>
    BY <2>6 DEF p
  <2>10. v = w \/ (v = Tail(w) /\ \A y \in NamesOf(E) : w[1] = SquitMsg(y) => y = x)
    BY <2>7 DEF v
  <2>11. Good(q \o p, G, k, v, F)
    BY <1>14, <2>8, <2>9, <2>10, TellerRemoves
  <2> QED BY <2>11 DEF p, G, v
<1> QED BY <1>12, <1>15, <1>16, CompleteMoves

LEMMA BurstMsg ==
    ASSUME NEW s \in Server, TypeOK, LocalInv(s)
    PROVE  Burst(s) \in Seq(Msg) /\ \A i \in 1..Len(Burst(s)) : Burst(s)[i].type = "SID"
<1>1. PICK n \in Nat : \E L \in [1..n -> global_serv_list[s]] :
        /\ Burst(s) = [i \in 1..n |-> SidMsg(L[i].up, L[i].name)]
        /\ \A e \in global_serv_list[s] : \E i \in 1..n : L[i] = e
        /\ \A i, j \in 1..n : i < j => L[i] # L[j] /\ L[i].name \in L[j].below
  BY BurstOrder
<1>2. PICK L \in [1..n -> global_serv_list[s]] :
        Burst(s) = [i \in 1..n |-> SidMsg(L[i].up, L[i].name)]
  BY <1>1
<1>3. \A i \in 1..n : L[i].up \in Server /\ L[i].name \in Server
  BY DEF TypeOK, Entry
<1>4. \A i \in 1..n : SidMsg(L[i].up, L[i].name) \in Msg
  BY <1>3, InMsg
<1>5. Len(Burst(s)) = n /\ Burst(s) \in Seq(Msg)
  BY <1>2, <1>4
<1> QED BY <1>2, <1>5, Kinds

\* What s sends the server it has just registered.
Greeting(s, k) == (IF status[k][s] = "unknown" THEN <<ServerMsg>> ELSE <<>>) \o Burst(s)

LEMMA GreetingMsg ==
    ASSUME NEW s \in Server, TypeOK, LocalInv(s), NEW k \in Conn
    PROVE  /\ Greeting(s, k) \in Seq(Msg) /\ ~Has(Greeting(s, k), CloseMsg)
           /\ status[k][s] = "unknown" => Greeting(s, k) # <<>> /\ Greeting(s, k)[1] = ServerMsg
<1> DEFINE h == IF status[k][s] = "unknown" THEN <<ServerMsg>> ELSE <<>>
           b == Burst(s)
<1>1. b \in Seq(Msg) /\ \A i \in 1..Len(b) : b[i].type = "SID"
  BY BurstMsg
<1>2. ~Has(b, CloseMsg)
  BY <1>1, Kinds DEF Has
<1>3. h \in Seq(Msg)
  BY InMsg
<1>4. ~Has(h, CloseMsg)
  <2>1. ServerMsg # CloseMsg
    BY Kinds
  <2> QED BY <2>1 DEF Has
<1>5. status[k][s] = "unknown" => h # <<>> /\ h[1] = ServerMsg
  OBVIOUS
<1> HIDE DEF h, b
<1>6. h \o b \in Seq(Msg) /\ ~Has(h \o b, CloseMsg)
  BY <1>1, <1>2, <1>3, <1>4, AppendMsg
<1>7. status[k][s] = "unknown" => h \o b # <<>> /\ (h \o b)[1] = ServerMsg
  BY <1>1, <1>3, <1>5, HeadStays
<1> QED BY <1>6, <1>7 DEF Greeting, h, b

LEMMA AddServerTold ==
    ASSUME ToldInv, StrongInv', NEW s \in Server, NEW x \in Server, NEW up \in Server,
           NEW k0 \in Conn, NEW out,
           x # s, ~Knows(s, x), up = s \/ KnownBy(s, k0, up), AddServer(s, x, up, k0),
           Transmit(s, {k0}, out, Overridden(s, x, k0)), ends' = ends,
           \A j \in Conn, t \in Server : status'[j][t] =
             IF t = s /\ j \in Overridden(s, x, k0) THEN "closed"
             ELSE IF t = s /\ j = k0 THEN "server" ELSE status[j][t],
           Open(k0, s), wire[k0][s] # <<>>,
           \A k \in Conn : k # k0 =>
             out[k] = IF status[k][s] = "server" THEN <<SidMsg(up, x)>> ELSE <<>>,
           \/ status[k0][s] = "server" /\ out[k0] = <<>> /\ wire[k0][s][1] = SidMsg(up, x)
           \/ /\ status[k0][s] \in {"unknown", "handshake"} /\ wire[k0][s][1] = ServerMsg
              /\ out[k0] = Greeting(s, k0)
    PROVE  ToldInv'
<1> DEFINE C == Overridden(s, x, k0)
           E == global_serv_list[s]
           F == global_serv_list'[s]
           new == [name |-> x, up |-> up, from |-> k0, below |-> {e.name : e \in E}]
<1>1. StrongInv /\ WireInv /\ TypeOK /\ LocalInv(s)
  BY DEF ToldInv, StrongInv
<1>2. C \in SUBSET Conn /\ \A j \in C : status[j][s] = "handshake" /\ j # k0
  BY OverriddenType
<1>3. F = E \cup {new} /\ \A u \in Server : u # s => global_serv_list'[u] = global_serv_list[u]
  BY <1>1 DEF AddServer, TypeOK
<1>4. new.name = x /\ new.up = up /\ new.from = k0
  OBVIOUS
<1>5. \A e \in E : e.name # x /\ e.up # x
  <2> SUFFICES ASSUME NEW e \in E
               PROVE  e.name # x /\ e.up # x
    OBVIOUS
  <2>1. e.name # x
    BY DEF Knows
  <2>2. e.up = s \/ \E g \in E : g.name = e.up
    BY <1>1, LocalRooted DEF Rooted
  <2> QED BY <2>1, <2>2 DEF Knows
<1>6. up # x /\ SidMsg(up, x) \in Msg /\ SidMsg(up, x) # CloseMsg /\ SidMsg(up, x) # ServerMsg
  <2>1. up # x
    BY <1>5 DEF KnownBy
  <2> QED BY <2>1, InMsg, Kinds
<1> HIDE DEF C, E, F, new
<1>7. \A k \in Conn : /\ out[k] \in Seq(Msg) /\ ~Has(out[k], CloseMsg)
                      /\ out[k] # <<>> => status'[k][s] = "server"
  <2> SUFFICES ASSUME NEW k \in Conn
               PROVE  /\ out[k] \in Seq(Msg) /\ ~Has(out[k], CloseMsg)
                      /\ out[k] # <<>> => status'[k][s] = "server"
    OBVIOUS
  <2>1. <<>> \in Seq(Msg) /\ ~Has(<<>>, CloseMsg)
    BY DEF Has
  <2>2. <<SidMsg(up, x)>> \in Seq(Msg) /\ ~Has(<<SidMsg(up, x)>>, CloseMsg)
    BY <1>6 DEF Has
  <2>3. CASE k = k0
    <3>1. status'[k][s] = "server"
      BY <1>2, <2>3 DEF C
    <3>2. out[k] = <<>> \/ out[k] = Greeting(s, k)
      BY <2>3
    <3> QED BY <1>1, <2>1, <3>1, <3>2, GreetingMsg
  <2>4. CASE k # k0
    <3>1. status[k][s] = "server" => status'[k][s] = "server"
      BY <1>2 DEF C
    <3> QED BY <2>1, <2>2, <2>4, <3>1
  <2> QED BY <2>3, <2>4
<1>8. Moves(s, {k0}, out, C)
  <2>1. wire[k0][s][1] # CloseMsg
    BY <1>6, Kinds
  <2>2. status[k0][s] = "unknown" => out[k0] # <<>> /\ out[k0][1] = ServerMsg
    BY <1>1, GreetingMsg
  <2>3. \A j \in C : Open(j, s) /\ status'[j][s] = "closed"
    BY <1>2 DEF C, Open
  <2>4. \A j \in Conn \ C :
         \/ status'[j][s] = status[j][s]
         \/ /\ status[j][s] \in {"unknown", "handshake"} /\ status'[j][s] = "server"
            /\ j \in {k0} /\ wire[j][s][1] = ServerMsg
            /\ status[j][s] = "unknown" => out[j] # <<>> /\ out[j][1] = ServerMsg
    BY <2>2 DEF C
  <2>5. \A j \in {k0} : /\ j \in Conn /\ Open(j, s) /\ wire[j][s] # <<>>
                        /\ wire[j][s][1] = CloseMsg => j \in C
                        /\ status[j][s] # "server" => j \in C \/ status'[j][s] = "server"
    BY <1>2, <2>1 DEF C
  <2>6. \A j \in Conn, u \in Server : u # s => status'[j][u] = status[j][u]
    OBVIOUS
  <2> QED BY <1>3, <1>7, <2>3, <2>4, <2>5, <2>6 DEF Moves, C
<1>9. ASSUME NEW k \in Conn, Open(k, s)', status[k][Peer(k, s)] = "server"
      PROVE  ReaderHolds(s, k, out)
  <2> DEFINE t == Peer(k, s)
             q == wire[k][s]
             w == wire[k][t]
             p == wire'[k][s]
             T == global_serv_list[t]
             o == out[k]
  <2>1. /\ k \notin C /\ t \in Server /\ q \in Seq(Msg)
        /\ p = IF k = k0 THEN Tail(q) ELSE q
    BY <1>1, <1>8, <1>9, ReadSide
  <2>2. w \in Seq(Msg) /\ o \in Seq(Msg)
    BY <1>1, <1>7, <2>1 DEF WireInv
  <2>3. k = k0 => q # <<>> /\ (q[1] = SidMsg(up, x) \/ q[1] = ServerMsg)
    OBVIOUS
  <2> SUFFICES ASSUME Good(q, E, k, w, T)
               PROVE  Good(p, F, k, w \o o, T)
    BY DEF ReaderHolds, E, F
  <2> HIDE DEF t, q, w, p, T, o
  <2>4. \A e \in T : Held(E, k, e) => Held(F, k, e)
    BY <1>3 DEF Held
  <2>5. ASSUME k = k0, NEW e \in T, q[1] = SidMsg(e.up, e.name)
        PROVE  Held(F, k, e)
    <3>1. q[1] # ServerMsg
      BY <2>5, Kinds
    <3>2. SidMsg(e.up, e.name) = SidMsg(up, x)
      BY <2>3, <2>5, <3>1
    <3>3. e.up = up /\ e.name = x
      BY <3>2, SidInjective
    <3> QED BY <1>3, <1>4, <2>5, <3>3 DEF Held
  <2>6. \/ p = q
        \/ /\ p = Tail(q) /\ q # <<>>
           /\ \A e \in T : q[1] = SidMsg(e.up, e.name) => Held(F, k, e)
    BY <2>1, <2>3, <2>5
  <2> QED BY <2>1, <2>2, <2>4, <2>6, ReaderKeeps
<1>10. ASSUME NEW k \in Conn, status'[k][s] = "server", Open(k, Peer(k, s))
       PROVE  TellerHolds(s, k, out)
  <2> DEFINE u == Peer(k, s)
             q == wire[k][u]
             w == wire[k][s]
             v == wire'[k][s]
             G == global_serv_list[u]
             p == out[k]
  <2>1. Open(k, s)' /\ k \notin C
    BY <1>10 DEF Open, C
  <2>2. /\ u \in Server /\ w \in Seq(Msg)
        /\ v = IF k = k0 THEN Tail(w) ELSE w
    BY <1>1, <1>8, <2>1, ReadSide
  <2>3. q \in Seq(Msg) /\ p \in Seq(Msg)
    BY <1>1, <1>7, <2>2 DEF WireInv
  <2> SUFFICES ASSUME status[k][s] = "server" => Good(q, G, k, w, E)
               PROVE  Good(q \o p, G, k, v, F)
    BY DEF TellerHolds, E, F
  <2>4. CASE status[k][s] = "server"
    <3>1. k # k0 => p = <<SidMsg(up, x)>>
      BY <2>4
    <3>2. k = k0 => p = <<>> /\ w[1] = SidMsg(up, x)
      BY <2>4
    <3> HIDE DEF u, q, w, v, G, p
    <3>3. \A e \in E : ~Later(p, 0, e)
      <4> SUFFICES ASSUME NEW e \in E, NEW i \in 1..Len(p), Renames(p[i], e)
                   PROVE  FALSE
        BY DEF Later
      <4>1. p[i] = SidMsg(up, x)
        BY <3>1, <3>2
      <4> QED BY <1>5, <4>1, Kinds DEF Renames
    <3>4. F # E /\ new.from # k => p = <<SidMsg(new.up, new.name)>> /\ new.up # new.name
      BY <1>4, <1>6, <3>1
    <3>5. v = w \/ (v = Tail(w) /\ \A y \in NamesOf(E) : w[1] # SquitMsg(y))
      <4>1. \A y : SidMsg(up, x) # SquitMsg(y)
        <5> TAKE y
        <5>1. SidMsg(up, x).type # SquitMsg(y).type
          BY Kinds
        <5> QED BY <5>1
      <4> QED BY <2>2, <3>2, <4>1
    <3> QED BY <1>3, <2>2, <2>3, <2>4, <3>3, <3>4, <3>5, TellerAdds
  <2>5. CASE status[k][s] # "server"
    <3> DEFINE h == IF status[k][s] = "unknown" THEN <<ServerMsg>> ELSE <<>>
    <3>1. k = k0 /\ p = h \o Burst(s)
      BY <1>10, <2>5 DEF C, Greeting
    <3>2. h \in Seq(Msg) /\ Burst(s) \in Seq(Msg)
      BY <1>1, InMsg, BurstMsg
    <3> HIDE DEF h, u, q, w, v, G, p
    <3>3. q \o p = (q \o h) \o Burst(s) /\ q \o h \in Seq(Msg)
      BY <2>3, <3>1, <3>2
    <3>4. \A e \in E : ToldBy((q \o h) \o Burst(s), G, k, e)
      BY <1>1, <3>2, <3>3, BurstTells DEF E
    <3> QED BY <1>3, <1>4, <3>1, <3>3, <3>4 DEF Good
  <2> QED BY <2>4, <2>5
<1> QED BY <1>8, <1>9, <1>10, CompleteMoves

\* Lines that introduce or remove are read by registered servers only.
LEMMA HeadRead ==
    ASSUME StrongInv, WireInv, NEW s \in Server, NEW k \in Conn, NEW types,
           Parses(s, k, types)
    PROVE  /\ Open(k, s) /\ wire[k][s] # <<>> /\ wire[k][s] \in Seq(Msg)
           /\ Head1(k, s) = wire[k][s][1] /\ Head1(k, s) \in Msg /\ Head1(k, s).type \in types
           /\ Head1(k, s).type \in {"SID", "SQUIT"} => status[k][s] = "server"
<1>1. /\ Open(k, s) /\ wire[k][s] # <<>> /\ wire[k][s] \in Seq(Msg) /\ Head1(k, s).type \in types
  BY DEF Parses, WireInv
<1>2. Head1(k, s) = wire[k][s][1] /\ Head1(k, s) \in Msg
  BY <1>1 DEF Head1
<1>3. Handshake(k, s)
  BY DEF WireInv
<1>4. Head1(k, s).type \in {"SID", "SQUIT"} => status[k][s] = "server"
  BY <1>1, <1>2, <1>3, Kinds DEF Handshake
<1> QED BY <1>1, <1>2, <1>4

\* s reads a line that changes neither its links nor its list.
LEMMA DropTold ==
    ASSUME ToldInv, StrongInv', NEW s \in Server, NEW k0 \in Conn, NEW out,
           Parses(s, k0, {"SID", "SQUIT"}), Transmit(s, {k0}, out, {}),
           UNCHANGED <<ends, status, global_serv_list>>,
           \A k \in Conn \ {k0} : out[k] = <<>>,
           \/ out[k0] = <<>>
           \/ \E y \in Server : ~Knows(s, y) /\ out[k0] = <<SquitMsg(y)>>,
           \/ \E y \in Server : y \notin NamesOf(global_serv_list[s]) /\ Head1(k0, s) = SquitMsg(y)
           \/ \E y \in Server, x \in Server : ~KnownBy(s, k0, y) /\ Head1(k0, s) = SidMsg(y, x)
    PROVE  ToldInv'
<1> DEFINE E == global_serv_list[s]
<1>1. StrongInv /\ WireInv /\ TypeOK /\ LocalInv(s)
  BY DEF ToldInv, StrongInv
<1>2. /\ Open(k0, s) /\ wire[k0][s] # <<>> /\ wire[k0][s] \in Seq(Msg)
      /\ Head1(k0, s) = wire[k0][s][1] /\ status[k0][s] = "server"
  BY <1>1, HeadRead
<1>3. /\ wire[k0][s][1] # CloseMsg
      /\ \A y \in NamesOf(E) : wire[k0][s][1] # SquitMsg(y)
  BY <1>2, Kinds
<1>4. \A k \in Conn : /\ out[k] \in Seq(Msg) /\ ~Has(out[k], CloseMsg)
                      /\ out[k] # <<>> => status'[k][s] = "server"
                      /\ \A e \in E : ~Later(out[k], 0, e)
  <2> SUFFICES ASSUME NEW k \in Conn
               PROVE  /\ out[k] \in Seq(Msg) /\ ~Has(out[k], CloseMsg)
                      /\ out[k] # <<>> => status'[k][s] = "server"
                      /\ \A e \in E : ~Later(out[k], 0, e)
    OBVIOUS
  <2>1. <<>> \in Seq(Msg) /\ ~Has(<<>>, CloseMsg) /\ \A e \in E : ~Later(<<>>, 0, e)
    BY DEF Has, Later
  <2>2. ASSUME NEW y \in Server, ~Knows(s, y)
        PROVE  /\ <<SquitMsg(y)>> \in Seq(Msg) /\ ~Has(<<SquitMsg(y)>>, CloseMsg)
               /\ \A e \in E : ~Later(<<SquitMsg(y)>>, 0, e)
    <3>1. SquitMsg(y) \in Msg /\ SquitMsg(y) # CloseMsg
      BY InMsg, Kinds
    <3>2. ASSUME NEW e \in E, Later(<<SquitMsg(y)>>, 0, e)
          PROVE  FALSE
      <4>1. Renames(SquitMsg(y), e)
        BY <3>2 DEF Later
      <4>2. SquitMsg(y).type # "SID"
        BY Kinds
      <4>3. SquitMsg(y) = SquitMsg(e.name)
        BY <4>1, <4>2 DEF Renames
      <4>4. SquitMsg(y).name = SquitMsg(e.name).name
        BY <4>3
      <4>5. y = e.name
        BY <4>4, Kinds
      <4> QED BY <2>2, <4>5 DEF Knows
    <3> QED BY <3>1, <3>2 DEF Has
  <2>3. CASE k = k0
    <3>1. out[k0] = <<>> \/ out[k0] # <<>>
      OBVIOUS
    <3> QED BY <1>2, <2>1, <2>2, <2>3
  <2>4. CASE k # k0
    BY <2>1, <2>4
  <2> QED BY <2>3, <2>4
<1>5. Moves(s, {k0}, out, {})
  BY <1>2, <1>3, <1>4 DEF Moves
<1>6. ASSUME NEW k \in Conn, Open(k, s)', status[k][Peer(k, s)] = "server"
      PROVE  ReaderHolds(s, k, out)
  <2> DEFINE t == Peer(k, s)
             q == wire[k][s]
             w == wire[k][t]
             p == wire'[k][s]
             T == global_serv_list[t]
             o == out[k]
  <2>1. /\ t \in Server /\ q \in Seq(Msg) /\ p = IF k = k0 THEN Tail(q) ELSE q
    BY <1>1, <1>5, <1>6, ReadSide
  <2>2. w \in Seq(Msg) /\ o \in Seq(Msg)
    BY <1>1, <1>4, <2>1 DEF WireInv
  <2>3. k = k0 => /\ q # <<>>
                  /\ \/ \E y \in Server : q[1] = SquitMsg(y)
                     \/ \E y \in Server, x \in Server :
                          ~KnownBy(s, k, y) /\ q[1] = SidMsg(y, x)
    BY <1>2
  <2>4. Rooted(T, t)
    BY <1>1, <2>1, LocalRooted DEF StrongInv
  <2>5. k = k0 => KnownBy(s, k, t)
    BY <1>1, <1>2, NeighbourKnown
  <2> SUFFICES ASSUME Good(q, E, k, w, T)
               PROVE  Good(p, E, k, w \o o, T)
    BY DEF ReaderHolds
  <2> HIDE DEF t, q, w, p, T, o, E
  <2>6. CASE k # k0
    <3>1. p = q
      BY <2>1, <2>6
    <3> QED BY <2>1, <2>2, <3>1, ReaderKeeps
  <2>7. CASE k = k0 /\ \E y \in Server : q[1] = SquitMsg(y)
    <3>1. \A e \in T : q[1] # SidMsg(e.up, e.name)
      <4> TAKE e \in T
      <4>1. PICK y \in Server : q[1] = SquitMsg(y)
        BY <2>7
      <4>2. SquitMsg(y).type # SidMsg(e.up, e.name).type
        BY Kinds
      <4> QED BY <4>1, <4>2
    <3>2. p = Tail(q) /\ q # <<>>
      BY <2>1, <2>3, <2>7
    <3> QED BY <2>1, <2>2, <3>1, <3>2, ReaderKeeps
  <2>8. CASE k = k0 /\ \E y \in Server, x \in Server : ~KnownBy(s, k, y) /\ q[1] = SidMsg(y, x)
    <3>1. PICK y \in Server, x \in Server : ~KnownBy(s, k, y) /\ q[1] = SidMsg(y, x)
      BY <2>8
    <3>2. p = Tail(q) /\ q # <<>> /\ y # t
      BY <2>1, <2>3, <2>5, <2>8, <3>1
    <3>3. \A f \in E : ~(f.name = y /\ f.from = k)
      BY <3>1 DEF KnownBy, E
    <3>4. Good(Tail(q), E, k, w \o o, T)
      BY <2>1, <2>2, <2>4, <3>1, <3>2, <3>3, ReaderDrops
    <3> QED BY <3>2, <3>4
  <2> QED BY <2>3, <2>6, <2>7, <2>8
<1>7. ASSUME NEW k \in Conn, status'[k][s] = "server", Open(k, Peer(k, s))
      PROVE  TellerHolds(s, k, out)
  <2> DEFINE u == Peer(k, s)
             q == wire[k][u]
             w == wire[k][s]
             v == wire'[k][s]
             G == global_serv_list[u]
             p == out[k]
  <2>1. Open(k, s)' /\ status[k][s] = "server"
    BY <1>7 DEF Open
  <2>2. /\ u \in Server /\ w \in Seq(Msg) /\ v = IF k = k0 THEN Tail(w) ELSE w
    BY <1>1, <1>5, <2>1, ReadSide
  <2>3. q \in Seq(Msg) /\ p \in Seq(Msg) /\ \A e \in E : ~Later(p, 0, e)
    BY <1>1, <1>4, <2>2 DEF WireInv
  <2>4. v = w \/ (v = Tail(w) /\ \A y \in NamesOf(E) : w[1] # SquitMsg(y))
    BY <1>3, <2>2
  <2> SUFFICES ASSUME Good(q, G, k, w, E)
               PROVE  Good(q \o p, G, k, v, E)
    BY <2>1 DEF TellerHolds
  <2> HIDE DEF u, q, w, v, G, p, E
  <2> QED BY <2>2, <2>3, <2>4, TellerAdds
<1> QED BY <1>5, <1>6, <1>7, CompleteMoves

\* Connections that are no links close.
LEMMA ExitUnknownTold ==
    ASSUME ToldInv, StrongInv', NEW s \in Server, NEW k0 \in Conn, NEW J \in SUBSET Conn,
           k0 \in J, wire[k0][s] # <<>>,
           \A k \in J : status[k][s] \in {"unknown", "handshake"},
           ExitUnknown(s, J, {k0}), ends' = ends
    PROVE  ToldInv'
<1>1. StrongInv /\ WireInv /\ TypeOK
  BY DEF ToldInv, StrongInv
<1>2. /\ Transmit(s, {k0}, Nothing, J) /\ global_serv_list' = global_serv_list
      /\ \A j \in Conn, t \in Server :
           status'[j][t] = IF j \in J /\ t = s THEN "closed" ELSE status[j][t]
  BY <1>1 DEF ExitUnknown, SetStatus, TypeOK
<1>3. \A k \in Conn : Nothing[k] = <<>>
  BY DEF Nothing
<1>4. Moves(s, {k0}, Nothing, J)
  <2>1. \A j \in Conn : /\ Nothing[j] \in Seq(Msg) /\ ~Has(Nothing[j], CloseMsg)
                        /\ Nothing[j] # <<>> => status'[j][s] = "server"
    <3>1. <<>> \in Seq(Msg) /\ ~Has(<<>>, CloseMsg)
      BY DEF Has
    <3> QED BY <1>3, <3>1
  <2>2. \A j \in J : Open(j, s) /\ status'[j][s] = "closed"
    BY <1>2 DEF Open
  <2>3. \A j \in Conn \ J : status'[j][s] = status[j][s]
    BY <1>2
  <2>4. \A j \in Conn, u \in Server : u # s => status'[j][u] = status[j][u]
    BY <1>2
  <2>5. k0 \in Conn /\ Open(k0, s)
    BY <2>2
  <2> QED BY <1>2, <2>1, <2>2, <2>3, <2>4, <2>5 DEF Moves
<1>5. \A q \in Seq(Msg) : q \o <<>> = q
  OBVIOUS
<1>6. ASSUME NEW k \in Conn, Open(k, s)', status[k][Peer(k, s)] = "server"
      PROVE  ReaderHolds(s, k, Nothing)
  <2>1. k \notin J /\ wire'[k][s] = wire[k][s] /\ Peer(k, s) \in Server
    BY <1>1, <1>4, <1>6, ReadSide
  <2>2. wire[k][Peer(k, s)] \o Nothing[k] = wire[k][Peer(k, s)]
    <3>1. wire[k][Peer(k, s)] \in Seq(Msg)
      BY <1>1, <2>1 DEF WireInv
    <3> QED BY <1>3, <1>5, <3>1
  <2> QED BY <1>2, <2>1, <2>2 DEF ReaderHolds
<1>7. ASSUME NEW k \in Conn, status'[k][s] = "server", Open(k, Peer(k, s))
      PROVE  TellerHolds(s, k, Nothing)
  <2>1. status[k][s] = "server" /\ Open(k, s)'
    BY <1>2, <1>7 DEF Open
  <2>2. k \notin J /\ wire'[k][s] = wire[k][s] /\ Peer(k, s) \in Server
    BY <1>1, <1>4, <2>1, ReadSide
  <2>3. wire[k][Peer(k, s)] \o Nothing[k] = wire[k][Peer(k, s)]
    <3>1. wire[k][Peer(k, s)] \in Seq(Msg)
      BY <1>1, <2>2 DEF WireInv
    <3> QED BY <1>3, <1>5, <3>1
  <2> QED BY <1>2, <2>1, <2>2, <2>3 DEF TellerHolds
<1> QED BY <1>4, <1>6, <1>7, CompleteMoves

LEMMA MrServerTold ==
    ASSUME ToldInv, StrongInv', NEW s \in Server, NEW k \in Conn, MrServer(s, k)
    PROVE  ToldInv'
<1> DEFINE x == Peer(k, s)
           J == Overridden(s, x, k)
<1>1. StrongInv /\ WireInv /\ TypeOK /\ ends' = ends
  BY DEF ToldInv, StrongInv, MrServer
<1>2. /\ Open(k, s) /\ wire[k][s] # <<>> /\ wire[k][s] \in Seq(Msg)
      /\ wire[k][s][1] = ServerMsg /\ status[k][s] \in {"unknown", "handshake"}
  <2>1. Parses(s, k, {"SERVER"}) /\ status[k][s] # "server"
    BY DEF MrServer
  <2>2. /\ Open(k, s) /\ wire[k][s] # <<>> /\ wire[k][s] \in Seq(Msg)
        /\ Head1(k, s) = wire[k][s][1] /\ Head1(k, s) \in Msg /\ Head1(k, s).type \in {"SERVER"}
    BY <1>1, <2>1, HeadRead
  <2>3. Head1(k, s) = ServerMsg
    BY <2>2, MsgKinds
  <2> QED BY <2>1, <2>2, <2>3 DEF Open
<1>3. x \in Server /\ x # s
  BY <1>1, <1>2, TwoEnds DEF Open, StrongInv, WireInv
<1>4. J \in SUBSET Conn /\ \A j \in J : status[j][s] = "handshake" /\ j # k
  BY OverriddenType
<1>5. CASE \E K \in {{k}, J \cup {k}} : ExitUnknown(s, K, {k})
  <2>1. PICK K \in {{k}, J \cup {k}} : ExitUnknown(s, K, {k})
    BY <1>5
  <2>2. K \in SUBSET Conn /\ k \in K /\ \A j \in K : status[j][s] \in {"unknown", "handshake"}
    BY <1>2, <1>4, <2>1
  <2> HIDE DEF J
  <2> QED BY <1>1, <1>2, <2>1, <2>2, ExitUnknownTold
<1>6. CASE ~Exists(s, x) /\ Establish(s, k, x)
  <2> DEFINE out == Both(ToServers(s, {}, <<SidMsg(s, x)>>), ToOne(k, Greeting(s, k)))
  <2>1. /\ AddServer(s, x, s, k) /\ Transmit(s, {k}, out, J)
        /\ status' = [j \in Conn |->
             IF j \in J THEN [status[j] EXCEPT ![s] = "closed"]
             ELSE IF j = k THEN [status[j] EXCEPT ![s] = "server"]
             ELSE status[j]]
    BY <1>6 DEF Establish, Greeting
  <2>2. \A j \in Conn, t \in Server : status'[j][t] =
          IF t = s /\ j \in J THEN "closed"
          ELSE IF t = s /\ j = k THEN "server" ELSE status[j][t]
    <3> HIDE DEF J, out
    <3> QED BY <1>1, <2>1 DEF TypeOK
  <2>3. Greeting(s, k) \in Seq(Msg) /\ <<SidMsg(s, x)>> \in Seq(Msg)
    BY <1>1, <1>3, GreetingMsg, InMsg DEF StrongInv
  <2>4. \A q \in Seq(Msg) : q \o <<>> = q /\ <<>> \o q = q
    OBVIOUS
  <2>5. ASSUME NEW j \in Conn, j # k
        PROVE  out[j] = IF status[j][s] = "server" THEN <<SidMsg(s, x)>> ELSE <<>>
    <3>1. out[j] = (IF status[j][s] = "server" THEN <<SidMsg(s, x)>> ELSE <<>>) \o <<>>
      BY <2>5 DEF Both, ToServers, ToOne, Established
    <3>2. <<>> \in Seq(Msg)
      OBVIOUS
    <3> HIDE DEF out
    <3> QED BY <2>3, <2>4, <3>1, <3>2
  <2>6. out[k] = Greeting(s, k)
    <3>1. k \notin Established(s)
      BY <1>2 DEF Established
    <3>2. out[k] = <<>> \o Greeting(s, k)
      BY <3>1 DEF Both, ToServers, ToOne
    <3> HIDE DEF out
    <3> QED BY <2>3, <2>4, <3>2
  <2>7. ~Knows(s, x)
    BY <1>6 DEF Exists
  <2> HIDE DEF out, x
  <2> QED BY <1>1, <1>2, <1>3, <2>1, <2>2, <2>5, <2>6, <2>7, AddServerTold
<1> QED BY <1>5, <1>6 DEF MrServer

LEMMA DropsTold ==
    ASSUME ToldInv, StrongInv', NEW s \in Server, NEW k \in Conn,
           UnknownPrefix(s, k) \/ WrongDirection(s, k) \/ SquitUnknown(s, k)
    PROVE  ToldInv'
<1>1. StrongInv /\ WireInv /\ LocalInv(s)
  BY DEF ToldInv, StrongInv
<1>2. PICK out : /\ Transmit(s, {k}, out, {})
                 /\ \/ UnknownPrefix(s, k) /\ out = ToOne(k, <<SquitMsg(Head1(k, s).up)>>)
                    \/ (WrongDirection(s, k) \/ SquitUnknown(s, k)) /\ out = Nothing
  BY DEF UnknownPrefix, WrongDirection, SquitUnknown
<1>3. /\ Parses(s, k, {"SID", "SQUIT"})
      /\ UNCHANGED <<ends, status, global_serv_list>>
  BY DEF UnknownPrefix, WrongDirection, SquitUnknown, Parses
<1>4. Head1(k, s) \in Msg
  BY <1>1, <1>3, HeadRead
<1>5. \A j \in Conn \ {k} : out[j] = <<>>
  BY <1>2 DEF ToOne, Nothing
<1>6. UnknownPrefix(s, k) \/ WrongDirection(s, k) => Head1(k, s).type = "SID"
  BY DEF UnknownPrefix, WrongDirection, Parses
<1>7. CASE UnknownPrefix(s, k) /\ out = ToOne(k, <<SquitMsg(Head1(k, s).up)>>)
  <2> DEFINE y == Head1(k, s).up
  <2>1. Head1(k, s) = SidMsg(y, Head1(k, s).name) /\ y \in Server /\ Head1(k, s).name \in Server
    BY <1>4, <1>6, <1>7, MsgKinds
  <2>2. ~Knows(s, y) /\ ~KnownBy(s, k, y) /\ out[k] = <<SquitMsg(y)>>
    BY <1>7 DEF UnknownPrefix, Knows, KnownBy, ToOne
  <2> HIDE DEF y
  <2>3. \E z \in Server : ~Knows(s, z) /\ out[k] = <<SquitMsg(z)>>
    BY <2>1, <2>2
  <2>4. \E z \in Server, v \in Server : ~KnownBy(s, k, z) /\ Head1(k, s) = SidMsg(z, v)
    BY <2>1, <2>2
  <2> QED BY <1>2, <1>3, <1>5, <2>3, <2>4, DropTold
<1>8. CASE WrongDirection(s, k) /\ out = Nothing
  <2>1. /\ Head1(k, s) = SidMsg(Head1(k, s).up, Head1(k, s).name)
        /\ Head1(k, s).up \in Server /\ Head1(k, s).name \in Server
    BY <1>4, <1>6, <1>8, MsgKinds
  <2>2. ~KnownBy(s, k, Head1(k, s).up)
    BY <1>8 DEF WrongDirection
  <2>3. \E z \in Server, v \in Server : ~KnownBy(s, k, z) /\ Head1(k, s) = SidMsg(z, v)
    BY <2>1, <2>2
  <2>4. out[k] = <<>>
    BY <1>8 DEF Nothing
  <2> QED BY <1>2, <1>3, <1>5, <2>3, <2>4, DropTold
<1>9. CASE SquitUnknown(s, k) /\ out = Nothing
  <2>1. Head1(k, s) = SquitMsg(Head1(k, s).name) /\ Head1(k, s).name \in Server
    <3>1. Head1(k, s).type = "SQUIT"
      BY <1>9 DEF SquitUnknown, Parses
    <3> QED BY <1>4, <3>1, MsgKinds
  <2>2. Head1(k, s).name \notin NamesOf(global_serv_list[s])
    BY <1>1, <1>9 DEF SquitUnknown, Knows, NamesOf, LocalInv, KnownOnce
  <2>3. \E z \in Server : z \notin NamesOf(global_serv_list[s]) /\ Head1(k, s) = SquitMsg(z)
    BY <2>1, <2>2
  <2>4. out[k] = <<>>
    BY <1>9 DEF Nothing
  <2> QED BY <1>2, <1>3, <1>5, <2>3, <2>4, DropTold
<1> QED BY <1>2, <1>7, <1>8, <1>9

LEMMA IntroductionTold ==
    ASSUME ToldInv, StrongInv', NEW s \in Server, NEW k \in Conn,
           SidExists(s, k) \/ SidMasked(s, k) \/ SidAccepted(s, k)
    PROVE  ToldInv'
<1> DEFINE up == Head1(k, s).up
<1>1. StrongInv /\ WireInv /\ TypeOK /\ LocalInv(s)
  BY DEF ToldInv, StrongInv
<1>2. PICK x \in Server : Introduces(s, k, x) /\
        \/ ExitServer(s, Peer(k, s), k, {k}, {}, {})
        \/ ExitServer(s, IF <<s, Peer(k, s), x>> \in conf.hubMask THEN Peer(k, s) ELSE up,
                      k, {k}, {}, Overridden(s, x, k))
        \/ /\ ~Exists(s, x)
           /\ SetStatus(s, Overridden(s, x, k), "closed")
           /\ AddServer(s, x, up, k)
           /\ Transmit(s, {k}, ToServers(s, {k}, <<SidMsg(up, x)>>), Overridden(s, x, k))
  BY DEF SidExists, SidMasked, SidAccepted
<1>3. KnownBy(s, k, up) /\ ends' = ends
  BY <1>2 DEF Introduces
<1>4. /\ Open(k, s) /\ wire[k][s] # <<>> /\ status[k][s] = "server"
      /\ wire[k][s][1] = SidMsg(up, x) /\ up \in Server
  <2>1. Parses(s, k, {"SID"}) /\ Head1(k, s).name = x
    BY <1>2 DEF Introduces
  <2>2. /\ Open(k, s) /\ wire[k][s] # <<>>
        /\ Head1(k, s) = wire[k][s][1] /\ Head1(k, s) \in Msg /\ Head1(k, s).type \in {"SID"}
        /\ Head1(k, s).type \in {"SID", "SQUIT"} => status[k][s] = "server"
    BY <1>1, <2>1, HeadRead
  <2>3. Head1(k, s) = SidMsg(up, x) /\ up \in Server
    BY <2>1, <2>2, MsgKinds
  <2> QED BY <2>2, <2>3
<1>5. KnownBy(s, k, Peer(k, s)) /\ Peer(k, s) \in Server
  BY <1>1, <1>4, NeighbourKnown
<1>6. /\ Overridden(s, x, k) \in SUBSET Conn
      /\ \A j \in Overridden(s, x, k) : status[j][s] = "handshake" /\ j # k
  BY OverriddenType
<1> HIDE DEF up
<1>7. ASSUME NEW y \in Server, KnownBy(s, k, y), y \in {Peer(k, s), up},
             NEW tossed \in SUBSET Conn, \A j \in tossed : status[j][s] = "handshake",
             ExitServer(s, y, k, {k}, {}, tossed)
      PROVE  ToldInv'
  <2>1. \A j \in {k} : /\ status[j][s] = "server" /\ wire[j][s] # <<>>
                       /\ \/ j = k /\ Peer(k, s) = y
                          \/ wire[j][s][1] = SquitMsg(y)
                          \/ j \notin {} /\ \E v : wire[j][s][1] = SidMsg(y, v)
    BY <1>4, <1>7
  <2>3. {k} \in SUBSET Conn
    OBVIOUS
  <2> DEFINE K == {k}
             none == {}
  <2>4. /\ FiredBy(s, y, k, K, none)
        /\ K \in SUBSET Conn /\ ExitServer(s, y, k, K, none, tossed)
    BY <1>7, <2>1, <2>3 DEF FiredBy
  <2> HIDE DEF K, none
  <2> QED BY <1>3, <1>7, <2>4, ExitServerTold
<1>8. CASE ExitServer(s, Peer(k, s), k, {k}, {}, {})
  <2>1. {} \in SUBSET Conn
    OBVIOUS
  <2> QED BY <1>5, <1>7, <1>8, <2>1
<1>9. CASE ExitServer(s, IF <<s, Peer(k, s), x>> \in conf.hubMask THEN Peer(k, s) ELSE up,
                      k, {k}, {}, Overridden(s, x, k))
  <2> DEFINE y == IF <<s, Peer(k, s), x>> \in conf.hubMask THEN Peer(k, s) ELSE up
  <2>1. y \in Server /\ KnownBy(s, k, y) /\ y \in {Peer(k, s), up}
    BY <1>3, <1>4, <1>5
  <2> HIDE DEF y
  <2>2. ExitServer(s, y, k, {k}, {}, Overridden(s, x, k))
    BY <1>9 DEF y
  <2> QED BY <1>6, <1>7, <2>1, <2>2
<1>10. CASE /\ ~Exists(s, x)
            /\ SetStatus(s, Overridden(s, x, k), "closed")
            /\ AddServer(s, x, up, k)
            /\ Transmit(s, {k}, ToServers(s, {k}, <<SidMsg(up, x)>>), Overridden(s, x, k))
  <2>1. ~Knows(s, x) /\ x # s
    BY <1>10 DEF Exists, Knows
  <2>2. \A j \in Conn, t \in Server : status'[j][t] =
          IF t = s /\ j \in Overridden(s, x, k) THEN "closed"
          ELSE IF t = s /\ j = k THEN "server" ELSE status[j][t]
    BY <1>1, <1>4, <1>6, <1>10 DEF TypeOK, SetStatus
  <2> DEFINE out == ToServers(s, {k}, <<SidMsg(up, x)>>)
  <2>3. \A j \in Conn : j # k =>
          out[j] = IF status[j][s] = "server" THEN <<SidMsg(up, x)>> ELSE <<>>
    BY DEF ToServers, Established
  <2>4. out[k] = <<>> /\ Transmit(s, {k}, out, Overridden(s, x, k))
    BY <1>10 DEF ToServers
  <2> HIDE DEF out
  <2> QED BY <1>3, <1>4, <1>10, <2>1, <2>2, <2>3, <2>4, AddServerTold
<1> QED BY <1>2, <1>8, <1>9, <1>10

LEMMA SquitsTold ==
    ASSUME ToldInv, StrongInv', NEW s \in Server,
           MoSquit(s) \/ \E k \in Conn : MsSquit(s, k)
    PROVE  ToldInv'
<1>1. StrongInv /\ WireInv
  BY DEF ToldInv
<1>2. \A e \in global_serv_list[s] :
        e.name \in Server /\ e.from \in Conn /\ KnownBy(s, e.from, e.name)
  BY <1>1 DEF StrongInv, TypeOK, Entry, KnownBy
<1>3. {} \in SUBSET Conn
  OBVIOUS
<1>4. CASE MoSquit(s)
  <2>1. PICK e \in global_serv_list[s] : ExitServer(s, e.name, e.from, {}, {}, {})
    BY <1>4 DEF MoSquit
  <2>2. ends' = ends
    BY <1>4 DEF MoSquit
  <2> DEFINE x == e.name
             j == e.from
             none == {}
  <2>3. /\ FiredBy(s, x, j, none, none) /\ \A k \in none : status[k][s] = "handshake"
        /\ none \in SUBSET Conn /\ ExitServer(s, x, j, none, none, none)
        /\ x \in Server /\ j \in Conn /\ KnownBy(s, j, x)
    BY <1>2, <1>3, <2>1 DEF FiredBy
  <2> HIDE DEF x, j, none
  <2> QED BY <2>2, <2>3, ExitServerTold
<1>5. ASSUME NEW k \in Conn, MsSquit(s, k)
      PROVE  ToldInv'
  <2>1. PICK e \in global_serv_list[s] :
          e.name = Head1(k, s).name /\ ExitServer(s, e.name, e.from, {k}, {k}, {})
    BY <1>5 DEF MsSquit
  <2>2. Parses(s, k, {"SQUIT"}) /\ ends' = ends
    BY <1>5 DEF MsSquit
  <2>3. /\ wire[k][s] # <<>> /\ Head1(k, s) = wire[k][s][1] /\ Head1(k, s) \in Msg
        /\ Head1(k, s).type \in {"SQUIT"}
        /\ Head1(k, s).type \in {"SID", "SQUIT"} => status[k][s] = "server"
    BY <1>1, <2>2, HeadRead
  <2>4. wire[k][s][1] = SquitMsg(e.name) /\ status[k][s] = "server"
    BY <2>1, <2>3, MsgKinds
  <2>5. {k} \in SUBSET Conn
    OBVIOUS
  <2>6. \A j \in {k} : /\ status[j][s] = "server" /\ wire[j][s] # <<>>
                       /\ wire[j][s][1] = SquitMsg(e.name)
    BY <2>3, <2>4
  <2> DEFINE x == e.name
             j == e.from
             K == {k}
             none == {}
  <2>7. /\ FiredBy(s, x, j, K, K) /\ \A i \in none : status[i][s] = "handshake"
        /\ K \in SUBSET Conn /\ none \in SUBSET Conn /\ ExitServer(s, x, j, K, K, none)
        /\ x \in Server /\ j \in Conn /\ KnownBy(s, j, x)
    BY <1>2, <1>3, <2>1, <2>5, <2>6 DEF FiredBy
  <2> HIDE DEF x, j, K, none
  <2> QED BY <2>2, <2>7, ExitServerTold
<1> QED BY <1>4, <1>5

LEMMA ReadCloseTold ==
    ASSUME ToldInv, StrongInv', NEW s \in Server, NEW k \in Conn, ReadClose(s, k)
    PROVE  ToldInv'
<1>1. StrongInv /\ WireInv /\ ends' = ends /\ Open(k, s) /\ wire[k][s] # <<>>
  BY DEF ToldInv, ReadClose, Parses
<1>2. {k} \in SUBSET Conn /\ {} \in SUBSET Conn
  OBVIOUS
<1>3. CASE status[k][s] = "server"
  <2>1. KnownBy(s, k, Peer(k, s)) /\ Peer(k, s) \in Server
    BY <1>1, <1>3, NeighbourKnown
  <2>2. ExitServer(s, Peer(k, s), k, {k}, {}, {})
    BY <1>3 DEF ReadClose
  <2>3. \A j \in {k} : /\ status[j][s] = "server" /\ wire[j][s] # <<>>
                       /\ j = k /\ Peer(k, s) = Peer(k, s)
    BY <1>1, <1>3
  <2> DEFINE y == Peer(k, s)
  <2> HIDE DEF y
  <2>4. y \in Server /\ KnownBy(s, k, y) /\ ExitServer(s, y, k, {k}, {}, {}) /\ Peer(k, s) = y
    BY <2>1, <2>2 DEF y
  <2> DEFINE K == {k}
             none == {}
  <2>5. /\ FiredBy(s, y, k, K, none) /\ \A j \in none : status[j][s] = "handshake"
        /\ K \in SUBSET Conn /\ none \in SUBSET Conn /\ ExitServer(s, y, k, K, none, none)
    BY <1>2, <2>3, <2>4 DEF FiredBy
  <2> HIDE DEF K, none
  <2> QED BY <1>1, <2>4, <2>5, ExitServerTold
<1>4. CASE status[k][s] # "server"
  <2>1. \A j \in {k} : status[j][s] \in {"unknown", "handshake"}
    BY <1>1, <1>4 DEF Open
  <2>2. ExitUnknown(s, {k}, {k})
    BY <1>4 DEF ReadClose
  <2> QED BY <1>1, <1>2, <2>1, <2>2, ExitUnknownTold
<1> QED BY <1>3, <1>4

-----------------------------------------------------------------------------
(* The handshake and the loss of a link.                                   *)

LEMMA InitTold == Init => ToldInv
<1> SUFFICES ASSUME Init
             PROVE  ToldInv
  OBVIOUS
<1>1. StrongInv /\ TypeOK
  BY InitStrong DEF StrongInv
<1>2. /\ \A k \in Conn, s \in Server :
           /\ wire[k][s] = <<>>
           /\ status[k][s] = IF s \in Range(ends[k]) THEN "server" ELSE "none"
      /\ wire \in [Conn -> [Server -> Seq(Msg)]]
  <2>1. <<>> \in Seq(Msg)
    OBVIOUS
  <2> QED BY <2>1 DEF Init
<1>3. \A s \in Server : \A e \in global_serv_list[s] : e.from = 1
  BY DEF Init
<1>4. \A k \in Conn : ends[k] # <<>> => /\ k = 1 /\ ends[k][1] \in Server /\ ends[k][2] \in Server
                                        /\ Range(ends[k]) = {ends[k][1], ends[k][2]}
  <2> SUFFICES ASSUME NEW k \in Conn, ends[k] # <<>>
               PROVE  /\ k = 1 /\ ends[k][1] \in Server /\ ends[k][2] \in Server
                      /\ Range(ends[k]) = {ends[k][1], ends[k][2]}
    OBVIOUS
  <2>1. k = 1
    BY DEF Init
  <2>2. PICK a \in Server, b \in Server : ends[k] = <<a, b>>
    BY <1>1, TreeAssumption DEF TypeOK, Config
  <2> QED BY <2>1, <2>2 DEF Range
<1>5. \A k \in Conn : ends[k] = <<>> => \A s \in Server : status[k][s] = "none"
  BY <1>1 DEF StrongInv, Unmade
<1>6. Shape
  BY <1>2, <1>4 DEF Shape
<1>7. ASSUME NEW k \in Conn, NEW s \in Server, Open(k, s)
      PROVE  k = 1 /\ Peer(k, s) \in Server /\ status[k][s] = "server"
  <2>1. status[k][s] = "server" /\ ends[k] # <<>>
    BY <1>2, <1>5, <1>7 DEF Open
  <2> QED BY <1>1, <1>4, <2>1, PeerType
<1>8. \A k \in Conn, s \in Server : Closes(k, s) /\ Handshake(k, s)
  BY <1>2, <1>7 DEF Closes, Handshake
<1>9. ASSUME NEW k \in Conn, NEW t \in Server, status[k][t] = "server"
      PROVE  Good(wire[k][Peer(k, t)], global_serv_list[Peer(k, t)], k,
                  wire[k][t], global_serv_list[t])
  <2>1. k = 1
    BY <1>7, <1>9 DEF Open
  <2> QED BY <1>3, <2>1 DEF Good
<1> QED BY <1>1, <1>2, <1>6, <1>8, <1>9 DEF ToldInv, WireInv, Complete

\* What a step that concerns a connection k0 alone leaves as it was.
LEMMA OthersKeep ==
    ASSUME WireInv, NEW k0, global_serv_list' = global_serv_list,
           \A k \in Conn : k # k0 => /\ ends'[k] = ends[k] /\ status'[k] = status[k]
                                     /\ wire'[k] = wire[k],
           NEW k \in Conn, k # k0, NEW s \in Server
    PROVE  /\ Closes(k, s)' /\ Handshake(k, s)'
           /\ Complete(k, s) => Complete(k, s)'
<1>1. /\ Peer(k, s)' = Peer(k, s)
      /\ \A u : /\ status'[k][u] = status[k][u] /\ wire'[k][u] = wire[k][u]
                /\ Open(k, u)' <=> Open(k, u)
  BY DEF Peer, Open
<1>2. Closes(k, s) /\ Handshake(k, s)
  BY DEF WireInv
<1>3. Closes(k, s)'
  BY <1>1, <1>2 DEF Closes
<1>4. Handshake(k, s)'
  BY <1>1, <1>2 DEF Handshake
<1>5. ASSUME Complete(k, s)
      PROVE  Complete(k, s)'
  <2> DEFINE r == Peer(k, s)
             r2 == Peer(k, s)'
  <2>1. r2 = r
    BY <1>1
  <2>2. /\ status'[k][s] = status[k][s] /\ wire'[k][r] = wire[k][r] /\ wire'[k][s] = wire[k][s]
        /\ (status'[k][r] \in {"unknown", "handshake", "server"} <=> Open(k, r))
    BY <1>1 DEF Open
  <2> HIDE DEF r, r2
  <2> SUFFICES ASSUME status'[k][s] = "server",
                      status'[k][r] \in {"unknown", "handshake", "server"},
                      ~Has(wire'[k][r], CloseMsg)
               PROVE  Good(wire'[k][r], global_serv_list'[r], k, wire'[k][s], global_serv_list'[s])
    BY <2>1 DEF Complete, Open, r2
  <2> QED BY <1>5, <2>2 DEF Complete, r
<1> QED BY <1>3, <1>4, <1>5

LEMMA StutterTold ==
    ASSUME ToldInv, StrongInv', UNCHANGED vars
    PROVE  ToldInv'
<1>1. WireInv /\ UNCHANGED <<ends, status, wire, global_serv_list>>
  BY DEF ToldInv, vars
<1>2. Shape'
  BY <1>1 DEF WireInv, Shape
<1>3. ASSUME NEW k \in Conn, NEW s \in Server
      PROVE  Closes(k, s)' /\ Handshake(k, s)' /\ Complete(k, s)'
  <2>1. k # 0
    BY DEF Conn
  <2> QED BY <1>1, <2>1, OthersKeep DEF ToldInv
<1> QED BY <1>1, <1>2, <1>3 DEF ToldInv, WireInv

LEMMA ServConnectTold ==
    ASSUME ToldInv, StrongInv', NEW s \in Server, NEW t \in Server, NEW k0 \in Conn,
           ServConnect(s, t, k0)
    PROVE  ToldInv'
<1>1. StrongInv /\ WireInv /\ TypeOK /\ Unmade /\ ends[k0] = <<>> /\ <<s, t>> \in conf.connects
  BY TreeAssumption DEF ToldInv, StrongInv, ServConnect, TypeOK
<1>2. s # t
  BY <1>1, TreeAssumption DEF TypeOK
<1>3. /\ ends'[k0] = <<s, t>>
      /\ \A u \in Server : /\ status'[k0][u] = IF u = t THEN "unknown"
                                               ELSE IF u = s THEN "handshake" ELSE "none"
                           /\ wire'[k0][u] = IF u = t THEN <<ServerMsg>> ELSE <<>>
      /\ \A k \in Conn : k # k0 => /\ ends'[k] = ends[k] /\ status'[k] = status[k]
                                   /\ wire'[k] = wire[k]
      /\ global_serv_list' = global_serv_list
  <2>1. \A u \in Server : status[k0][u] = "none" /\ wire[k0][u] = <<>>
    BY <1>1 DEF Unmade, WireInv, Shape
  <2> QED BY <1>1, <1>2, <2>1 DEF ServConnect, TypeOK, WireInv
<1>4. wire' \in [Conn -> [Server -> Seq(Msg)]]
  <2>1. <<ServerMsg>> \in Seq(Msg)
    BY InMsg
  <2>2. wire \in [Conn -> [Server -> Seq(Msg)]] /\ wire' = [wire EXCEPT ![k0][t] = <<ServerMsg>>]
    BY <1>1 DEF ServConnect, WireInv
  <2> QED BY <2>1, <2>2
<1>5. Shape'
  <2>1. ASSUME NEW k \in Conn, ends'[k] # <<>>
        PROVE  /\ status'[k][ends'[k][1]] \in {"handshake", "server", "closed"}
               /\ status'[k][ends'[k][2]] \in {"unknown", "server", "closed"}
               /\ \A u \in Server : u \notin {ends'[k][1], ends'[k][2]} => status'[k][u] = "none"
    <3>1. CASE k = k0
      <4>1. ends'[k][1] = s /\ ends'[k][2] = t
        BY <1>3, <3>1
      <4> QED BY <1>2, <1>3, <3>1, <4>1
    <3>2. CASE k # k0
      <4>1. ends'[k] = ends[k] /\ status'[k] = status[k]
        BY <1>3, <3>2
      <4>2. /\ status[k][ends[k][1]] \in {"handshake", "server", "closed"}
            /\ status[k][ends[k][2]] \in {"unknown", "server", "closed"}
            /\ \A u \in Server : u \notin {ends[k][1], ends[k][2]} => status[k][u] = "none"
        BY <1>1, <2>1, <4>1 DEF WireInv, Shape
      <4> QED BY <4>1, <4>2
    <3> QED BY <3>1, <3>2
  <2>2. ASSUME NEW k \in Conn, NEW u \in Server, status'[k][u] \in {"none", "closed"}
        PROVE  wire'[k][u] = <<>>
    <3>1. CASE k = k0
      BY <1>3, <2>2, <3>1
    <3>2. CASE k # k0
      <4>1. wire'[k] = wire[k] /\ status'[k] = status[k]
        BY <1>3, <3>2
      <4>2. status[k][u] \in {"none", "closed"} => wire[k][u] = <<>>
        BY <1>1 DEF WireInv, Shape
      <4> QED BY <2>2, <4>1, <4>2
    <3> QED BY <3>1, <3>2
  <2> QED BY <2>1, <2>2 DEF Shape
<1>6. ASSUME NEW u \in Server
      PROVE  Closes(k0, u)' /\ Handshake(k0, u)' /\ Complete(k0, u)'
  <2> DEFINE p == Peer(k0, u)'
  <2>1. p = IF u = s THEN t ELSE s
    BY <1>3 DEF Peer
  <2>2. status'[k0][p] = IF u = s THEN "unknown" ELSE "handshake"
    BY <1>2, <1>3, <2>1
  <2>3. Open(k0, u)' => u \in {s, t}
    BY <1>3 DEF Open
  <2> HIDE DEF p
  <2>4. Closes(k0, u)'
    BY <2>2 DEF Closes, p
  <2>5. Handshake(k0, u)'
    <3>1. u = t => /\ wire'[k0][u] = <<ServerMsg>> /\ wire'[k0][u] # <<>>
                   /\ wire'[k0][u][1] = ServerMsg
      BY <1>3
    <3>2. u # t => wire'[k0][u] = <<>> /\ Len(wire'[k0][u]) = 0
      BY <1>3
    <3> QED BY <1>2, <2>2, <2>3, <3>1, <3>2 DEF Handshake, p
  <2>6. Complete(k0, u)'
    BY <1>3 DEF Complete
  <2> QED BY <2>4, <2>5, <2>6
<1>7. ASSUME NEW k \in Conn, NEW u \in Server
      PROVE  Closes(k, u)' /\ Handshake(k, u)' /\ Complete(k, u)'
  <2>1. CASE k = k0
    BY <1>6, <2>1
  <2>2. CASE k # k0
    BY <1>1, <1>3, <2>2, OthersKeep DEF ToldInv
  <2> QED BY <2>1, <2>2
<1> QED BY <1>4, <1>5, <1>7 DEF ToldInv, WireInv

\* What is left of a stream that breaks.
LEMMA CutStream ==
    ASSUME NEW q \in Seq(Msg), NEW n \in 0..Len(q)
    PROVE  LET p == Append(SubSeq(q, 1, n), CloseMsg)
           IN  /\ p \in Seq(Msg) /\ p # <<>> /\ Has(p, CloseMsg)
               /\ p[1] = CloseMsg \/ (q # <<>> /\ p[1] = q[1])
               /\ \A i \in 1..Len(p) : p[i] = CloseMsg \/ \E j \in 1..Len(q) : p[i] = q[j]
<1> DEFINE h == SubSeq(q, 1, n)
           p == Append(h, CloseMsg)
<1>1. h \in Seq(Msg) /\ Len(h) = n /\ \A i \in 1..n : h[i] = q[i]
  OBVIOUS
<1>2. n \in Nat /\ Len(q) \in Nat /\ n <= Len(q)
  OBVIOUS
<1> HIDE DEF h
<1>3. /\ p \in Seq(Msg) /\ Len(p) = n + 1 /\ p[n + 1] = CloseMsg
      /\ \A i \in 1..n : p[i] = h[i]
  BY <1>1, <1>2, InMsg
<1> HIDE DEF p
<1>4. n + 1 \in 1..Len(p)
  BY <1>2, <1>3
<1>5. Has(p, CloseMsg)
  BY <1>3, <1>4 DEF Has
<1>6. p # <<>>
  BY <1>2, <1>3
<1>7. p[1] = CloseMsg \/ (q # <<>> /\ p[1] = q[1])
  <2>1. CASE n = 0
    BY <1>3, <2>1
  <2>2. CASE n # 0
    <3>1. 1 \in 1..n /\ q # <<>>
      BY <1>2, <2>2
    <3> QED BY <1>1, <1>3, <3>1
  <2> QED BY <2>1, <2>2
<1>8. ASSUME NEW i \in 1..Len(p)
      PROVE  p[i] = CloseMsg \/ \E j \in 1..Len(q) : p[i] = q[j]
  <2>1. i = n + 1 \/ i \in 1..n
    BY <1>2, <1>3
  <2>2. i \in 1..n => i \in 1..Len(q)
    BY <1>2
  <2> QED BY <1>1, <1>3, <2>1, <2>2
<1> QED BY <1>3, <1>5, <1>6, <1>7, <1>8 DEF p, h

LEMMA BreakTold ==
    ASSUME ToldInv, StrongInv', NEW k0 \in Conn, Break(k0)
    PROVE  ToldInv'
<1>1. StrongInv /\ WireInv /\ TypeOK /\ ends[k0] # <<>>
  BY DEF ToldInv, StrongInv, Break
<1>2. PICK a \in Server, b \in Server : ends[k0] = <<a, b>> /\ a # b
  BY <1>1, TreeAssumption DEF TypeOK, Config
<1>3. ends[k0][1] = a /\ ends[k0][2] = b /\ Range(ends[k0]) = {a, b}
  BY <1>2 DEF Range
<1>4. /\ Open(k0, a) /\ Open(k0, b)
      /\ UNCHANGED <<conf, ends, status, global_serv_list>>
  BY <1>3 DEF Break
<1>5. wire[k0][a] \in Seq(Msg) /\ wire[k0][b] \in Seq(Msg)
  BY <1>1 DEF WireInv
<1>6. PICK n \in 0..Len(wire[k0][a]), m \in 0..Len(wire[k0][b]) :
        wire' = [wire EXCEPT ![k0][a] = Append(SubSeq(@, 1, n), CloseMsg),
                             ![k0][b] = Append(SubSeq(@, 1, m), CloseMsg)]
  BY <1>3 DEF Break
<1>7. /\ \A k \in Conn : k # k0 => wire'[k] = wire[k]
      /\ \A u \in Server : u \notin {a, b} => wire'[k0][u] = wire[k0][u]
      /\ wire'[k0][a] = Append(SubSeq(wire[k0][a], 1, n), CloseMsg)
      /\ wire'[k0][b] = Append(SubSeq(wire[k0][b], 1, m), CloseMsg)
      /\ wire' = [k \in Conn |-> [u \in Server |-> wire'[k][u]]]
  BY <1>1, <1>2, <1>6 DEF WireInv
<1>8. \A u \in {a, b} :
        /\ wire'[k0][u] \in Seq(Msg) /\ wire'[k0][u] # <<>> /\ Has(wire'[k0][u], CloseMsg)
        /\ wire'[k0][u][1] = CloseMsg \/ (wire[k0][u] # <<>> /\ wire'[k0][u][1] = wire[k0][u][1])
        /\ \A i \in 1..Len(wire'[k0][u]) :
             wire'[k0][u][i] = CloseMsg \/ \E j \in 1..Len(wire[k0][u]) :
                                             wire'[k0][u][i] = wire[k0][u][j]
  <2>1. ASSUME NEW u \in {a, b}, NEW l \in 0..Len(wire[k0][u]),
               wire'[k0][u] = Append(SubSeq(wire[k0][u], 1, l), CloseMsg)
        PROVE  /\ wire'[k0][u] \in Seq(Msg) /\ wire'[k0][u] # <<>> /\ Has(wire'[k0][u], CloseMsg)
               /\ wire'[k0][u][1] = CloseMsg \/
                    (wire[k0][u] # <<>> /\ wire'[k0][u][1] = wire[k0][u][1])
               /\ \A i \in 1..Len(wire'[k0][u]) :
                    wire'[k0][u][i] = CloseMsg \/ \E j \in 1..Len(wire[k0][u]) :
                                                    wire'[k0][u][i] = wire[k0][u][j]
    <3>1. wire[k0][u] \in Seq(Msg)
      BY <1>5
    <3> DEFINE q == wire[k0][u]
               p == wire'[k0][u]
    <3> HIDE DEF q, p
    <3>2. q \in Seq(Msg) /\ l \in 0..Len(q) /\ p = Append(SubSeq(q, 1, l), CloseMsg)
      BY <2>1, <3>1 DEF q, p
    <3>3. /\ p \in Seq(Msg) /\ p # <<>> /\ Has(p, CloseMsg)
          /\ p[1] = CloseMsg \/ (q # <<>> /\ p[1] = q[1])
          /\ \A i \in 1..Len(p) : p[i] = CloseMsg \/ \E j \in 1..Len(q) : p[i] = q[j]
      BY <3>2, CutStream
    <3> QED BY <3>3 DEF q, p
  <2>2. n \in 0..Len(wire[k0][a]) /\ m \in 0..Len(wire[k0][b])
    BY <1>6
  <2>3. \A u \in {a, b} : \E l \in 0..Len(wire[k0][u]) :
          wire'[k0][u] = Append(SubSeq(wire[k0][u], 1, l), CloseMsg)
    BY <1>7, <2>2
  <2> TAKE u \in {a, b}
  <2>4. PICK l \in 0..Len(wire[k0][u]) :
          wire'[k0][u] = Append(SubSeq(wire[k0][u], 1, l), CloseMsg)
    BY <2>3
  <2> QED BY <2>1, <2>4
<1>9. wire' \in [Conn -> [Server -> Seq(Msg)]]
  <2>1. ASSUME NEW k \in Conn, NEW u \in Server
        PROVE  wire'[k][u] \in Seq(Msg)
    <3>1. wire[k][u] \in Seq(Msg)
      BY <1>1 DEF WireInv
    <3> QED BY <1>7, <1>8, <3>1
  <2> QED BY <1>7, <2>1
<1>10. Shape'
  <2>1. ASSUME NEW k \in Conn, NEW u \in Server, status[k][u] \in {"none", "closed"}
        PROVE  wire'[k][u] = <<>>
    <3>1. wire[k][u] = <<>>
      BY <1>1, <2>1 DEF WireInv, Shape
    <3> QED BY <1>4, <1>7, <2>1, <3>1 DEF Open
  <2>2. Shape
    BY <1>1 DEF WireInv
  <2> QED BY <1>4, <2>1, <2>2 DEF Shape
<1>11. ASSUME NEW u \in Server
       PROVE  Closes(k0, u)' /\ Handshake(k0, u)' /\ Complete(k0, u)'
  <2>1. u \in {a, b} => Peer(k0, u) \in {a, b}
    BY <1>2, <1>3 DEF Peer
  <2>2. Peer(k0, u)' = Peer(k0, u) /\ (Open(k0, u)' <=> Open(k0, u))
    BY <1>4 DEF Peer, Open
  <2>3. u \notin {a, b} => status[k0][u] = "none"
    BY <1>1, <1>3 DEF WireInv, Shape
  <2>4. Closes(k0, u)'
    BY <1>8, <2>2, <2>3 DEF Closes, Open
  <2>5. Handshake(k0, u)'
    <3>1. Handshake(k0, u)
      BY <1>1 DEF WireInv
    <3> QED BY <1>4, <1>8, <2>2, <2>3, <3>1 DEF Handshake, Open
  <2>6. Complete(k0, u)'
    <3>1. status'[k0][u] = "server" => u \in {a, b}
      BY <1>4, <2>3
    <3>2. status'[k0][u] = "server" => Has(wire'[k0][Peer(k0, u)'], CloseMsg)
      BY <1>8, <2>1, <2>2, <3>1
    <3> QED BY <3>2 DEF Complete
  <2> QED BY <2>4, <2>5, <2>6
<1>12. ASSUME NEW k \in Conn, NEW u \in Server
       PROVE  Closes(k, u)' /\ Handshake(k, u)' /\ Complete(k, u)'
  <2>1. CASE k = k0
    BY <1>11, <2>1
  <2>2. CASE k # k0
    BY <1>1, <1>4, <1>7, <2>2, OthersKeep DEF ToldInv
  <2> QED BY <2>1, <2>2
<1> QED BY <1>9, <1>10, <1>12 DEF ToldInv, WireInv

LEMMA NextTold == ToldInv /\ [Next]_vars => ToldInv'
<1> SUFFICES ASSUME ToldInv, [Next]_vars
             PROVE  ToldInv'
  OBVIOUS
<1>1. StrongInv'
  BY NextStrong DEF ToldInv
<1>2. CASE UNCHANGED vars
  BY <1>1, <1>2, StutterTold
<1>3. ASSUME NEW s \in Server, NEW k \in Conn, Receive(s, k)
      PROVE  ToldInv'
  <2>1. CASE MrServer(s, k)
    BY <1>1, <2>1, MrServerTold
  <2>2. CASE UnknownPrefix(s, k) \/ WrongDirection(s, k) \/ SquitUnknown(s, k)
    BY <1>1, <2>2, DropsTold
  <2>3. CASE SidExists(s, k) \/ SidMasked(s, k) \/ SidAccepted(s, k)
    BY <1>1, <2>3, IntroductionTold
  <2>4. CASE MsSquit(s, k)
    BY <1>1, <2>4, SquitsTold
  <2>5. CASE ReadClose(s, k)
    BY <1>1, <2>5, ReadCloseTold
  <2> QED BY <1>3, <2>1, <2>2, <2>3, <2>4, <2>5 DEF Receive
<1>4. ASSUME NEW s \in Server, NEW t \in Server, NEW k \in Conn, ServConnect(s, t, k)
      PROVE  ToldInv'
  BY <1>1, <1>4, ServConnectTold
<1>5. ASSUME NEW s \in Server, MoSquit(s)
      PROVE  ToldInv'
  BY <1>1, <1>5, SquitsTold
<1>6. ASSUME NEW k \in Conn, Break(k)
      PROVE  ToldInv'
  BY <1>1, <1>6, BreakTold
<1> QED BY <1>2, <1>3, <1>4, <1>5, <1>6 DEF Next

\* On every link each end holds what the other knows of the servers behind it, or
\* the lines on their way make it so; whoever closes has told the other end; a
\* handshake starts with SERVER (server_estab, ms_sid, ms_squit, exit_client).
THEOREM ToldAlways == Spec => []ToldInv
BY InitTold, NextTold, PTL DEF Spec

-----------------------------------------------------------------------------
(* At rest.                                                                *)

\* At rest both ends of a link have it.
LEMMA EndsAgree ==
    ASSUME ToldInv, Quiet, NEW k \in Conn, NEW s \in Server, status[k][s] = "server"
    PROVE  /\ Peer(k, s) \in Server /\ Peer(k, s) # s /\ Peer(k, Peer(k, s)) = s
           /\ status[k][Peer(k, s)] = "server"
<1>1. StrongInv /\ WireInv /\ TypeOK
  BY DEF ToldInv, StrongInv
<1>2. /\ Peer(k, s) \in Server /\ Peer(k, s) # s /\ Peer(k, Peer(k, s)) = s
      /\ status[k][Peer(k, s)] # "none"
  BY <1>1, TwoEnds DEF StrongInv, WireInv
<1>3. status[k][Peer(k, s)] # "closed"
  <2>1. Closes(k, s) /\ Open(k, s) /\ wire[k][s] = <<>>
    BY <1>1 DEF WireInv, Open, Quiet
  <2> QED BY <2>1 DEF Closes, Has
<1>4. status[k][Peer(k, s)] \in {"none", "unknown", "handshake", "server", "closed"}
  BY <1>1, <1>2 DEF TypeOK
<1> QED BY <1>2, <1>3, <1>4 DEF Quiet

\* At rest a server has told its neighbours of all that others told it.
LEMMA ToldAtRest ==
    ASSUME ToldInv, Quiet, NEW k \in Conn, NEW t \in Server, status[k][t] = "server",
           NEW j, j # k, NEW y, KnownBy(t, j, y)
    PROVE  KnownBy(Peer(k, t), k, y)
<1> DEFINE r == Peer(k, t)
<1>1. r \in Server /\ status[k][r] = "server"
  BY EndsAgree
<1>2. wire[k][r] = <<>> /\ wire[k][t] = <<>>
  BY <1>1 DEF Quiet
<1>3. \A m : ~Has(<<>>, m)
  BY DEF Has
<1>4. Good(<<>>, global_serv_list[r], k, <<>>, global_serv_list[t])
  BY <1>1, <1>2, <1>3 DEF ToldInv, Complete, Open
<1>5. PICK e \in global_serv_list[t] : e.name = y /\ e.from = j
  BY DEF KnownBy
<1>6. ToldBy(<<>>, global_serv_list[r], k, e)
  BY <1>4, <1>5 DEF Good, UndoneBy
<1>7. Held(global_serv_list[r], k, e)
  BY <1>6 DEF ToldBy
<1> QED BY <1>5, <1>7 DEF Held, KnownBy

\* Whoever is reached but x itself is reached by a last step.
LEMMA LastStep ==
    ASSUME NEW x \in Server, NEW R, \A p \in R : p[2] \in Server, NEW y \in Reach(x, R), y # x
    PROVE  \E u \in Reach(x, R) : \E p \in R : p[1] = u /\ p[2] = y
<1> SUFFICES ASSUME \A u \in Reach(x, R) : \A p \in R : ~(p[1] = u /\ p[2] = y)
             PROVE  FALSE
  OBVIOUS
<1> DEFINE S == {z \in Server : z # y /\ \A Z \in SUBSET Server :
                   x \in Z /\ (\A p \in R : p[1] \in Z => p[2] \in Z) => z \in Z}
<1>1. S = Reach(x, R) \ {y}
  BY DEF Reach
<1>2. x \in S /\ S \in SUBSET Server
  BY <1>1, ReachStart DEF Reach
<1>3. ASSUME NEW p \in R, p[1] \in S
      PROVE  p[2] \in S
  <2>1. p[1] \in Reach(x, R)
    BY <1>1, <1>3
  <2>2. p[2] # y
    BY <2>1
  <2>3. \A Z \in SUBSET Server : x \in Z /\ (\A q \in R : q[1] \in Z => q[2] \in Z) => p[2] \in Z
    BY <2>1 DEF Reach
  <2> QED BY <2>2, <2>3
<1>4. y \in S
  <2> HIDE DEF S
  <2> QED BY <1>2, <1>3 DEF Reach
<1> QED BY <1>4

\* At rest all servers that links of K lead to from y know y through K.
LEMMA KnownThrough ==
    ASSUME ToldInv, Quiet, NEW K \in SUBSET Conn, NEW y \in Server, NEW v \in Reach(y, Up(K))
    PROVE  v = y \/ \E j \in K : KnownBy(v, j, y)
<1> DEFINE F == {p \in Server \X Server :
                   \E j \in K : /\ status[j][p[2]] = "server" /\ KnownBy(p[2], j, y)
                                /\ Peer(j, p[2]) = p[1]}
           T == Reach(y, F)
<1>1. StrongInv
  BY DEF ToldInv
<1>2. y \in T /\ T \in SUBSET Server
  BY ReachStart DEF Reach
<1>3. ASSUME NEW u \in T, u # y
      PROVE  \E j \in K : /\ status[j][u] = "server" /\ KnownBy(u, j, y) /\ Peer(j, u) \in T
  <2>0. \A p \in F : p[2] \in Server
    OBVIOUS
  <2> HIDE DEF F
  <2>1. PICK w \in T : \E p \in F : p[1] = w /\ p[2] = u
    BY <1>3, <2>0, LastStep
  <2> USE DEF F
  <2>2. PICK p \in F : p[1] = w /\ p[2] = u
    BY <2>1
  <2> HIDE DEF T
  <2> QED BY <2>1, <2>2
<1>4. ASSUME NEW p \in Up(K), p[1] \in T
      PROVE  p[2] \in T
  <2>1. PICK k \in K : status[k][p[1]] = "server" /\ status[k][p[2]] = "server"
    BY <1>4 DEF Up
  <2> DEFINE u == p[1]
             w == p[2]
  <2>2. u \in Server /\ w \in Server /\ u # w /\ k \in Conn
    BY <1>4, <2>1 DEF Up
  <2>3. Peer(k, u) = w /\ Peer(k, w) = u
    <3>1. \A z \in Server : z \notin {u, Peer(k, u)} => status[k][z] = "none"
      BY <1>1, <2>1, <2>2, TwoEnds DEF StrongInv, ToldInv, WireInv
    <3> QED BY <2>1, <2>2, <3>1, EndsAgree
  <2>4. ASSUME KnownBy(w, k, y)
        PROVE  w \in T
    <3>1. <<u, w>> \in F
      BY <2>1, <2>2, <2>3, <2>4
    <3> HIDE DEF F
    <3> QED BY <1>4, <2>2, <3>1, ReachStep
  <2>5. CASE u = y
    <3>1. KnownBy(w, k, y)
      BY <1>1, <2>1, <2>2, <2>3, <2>5, NeighbourKnown
    <3> QED BY <2>4, <3>1
  <2>6. CASE u # y
    <3>1. PICK j \in K : status[j][u] = "server" /\ KnownBy(u, j, y) /\ Peer(j, u) \in T
      BY <1>3, <1>4, <2>6
    <3>2. CASE j = k
      BY <2>3, <3>1, <3>2
    <3>3. CASE j # k
      <4>1. KnownBy(Peer(k, u), k, y)
        BY <2>1, <2>2, <3>1, <3>3, ToldAtRest
      <4> QED BY <2>3, <2>4, <4>1
    <3> QED BY <3>2, <3>3
  <2> QED BY <2>5, <2>6
<1>5. v \in T
  <2> HIDE DEF T
  <2> QED BY <1>2, <1>4 DEF Reach
<1> QED BY <1>3, <1>5

\* A link that is up is one both ways.
LEMMA UpSymmetric ==
    ASSUME NEW K, NEW x \in Server, NEW y \in Reach(x, Up(K))
    PROVE  x \in Reach(y, Up(K))
<1> DEFINE S == {z \in Server : x \in Reach(z, Up(K))}
<1>1. x \in S
  BY ReachStart
<1>2. ASSUME NEW p \in Up(K), p[1] \in S
      PROVE  p[2] \in S
  <2>1. p[1] \in Server /\ p[2] \in Server /\ <<p[2], p[1]>> \in Up(K)
    BY DEF Up
  <2>2. p[2] \in Reach(p[2], Up(K))
    BY <2>1, ReachStart
  <2>3. p[1] \in Reach(p[2], Up(K))
    BY <2>1, <2>2, ReachStep
  <2>4. x \in Reach(p[1], Up(K))
    BY <1>2
  <2>5. x \in Reach(p[2], Up(K))
    BY <2>3, <2>4, ReachTrans
  <2> QED BY <2>1, <2>5
<1>3. y \in S
  <2> HIDE DEF S
  <2>1. S \in SUBSET Server
    BY DEF S
  <2> QED BY <1>1, <1>2, <2>1 DEF Reach
<1> QED BY <1>3

LEMMA TreeAtRest == ToldInv => OneTree
<1> SUFFICES ASSUME ToldInv, Quiet
             PROVE  /\ \A k \in Conn : ends[k] # <<>> =>
                         /\ status[k][ends[k][1]] = status[k][ends[k][2]]
                         /\ status[k][ends[k][1]] = "server" =>
                              ends[k][2] \notin Reach(ends[k][1], Up(Conn \ {k}))
                    /\ \A s \in Server : Reach(s, Up(Conn)) \subseteq Known(s)
  BY DEF OneTree
<1>1. StrongInv /\ WireInv /\ TypeOK
  BY DEF ToldInv, StrongInv
<1>2. ASSUME NEW k \in Conn, ends[k] # <<>>
      PROVE  /\ status[k][ends[k][1]] = status[k][ends[k][2]]
             /\ status[k][ends[k][1]] = "server" =>
                  ends[k][2] \notin Reach(ends[k][1], Up(Conn \ {k}))
  <2>1. PICK a \in Server, b \in Server : ends[k] = <<a, b>> /\ a # b
    BY <1>1, <1>2, TreeAssumption DEF TypeOK, Config
  <2>2. ends[k][1] = a /\ ends[k][2] = b /\ Peer(k, a) = b /\ Peer(k, b) = a
    BY <2>1 DEF Peer
  <2>3. status[k][a] \in {"server", "closed"} /\ status[k][b] \in {"server", "closed"}
    BY <1>1, <1>2, <2>2 DEF WireInv, Shape, Quiet
  <2>4. status[k][a] = status[k][b]
    <3>1. status[k][a] = "server" => status[k][b] = "server"
      BY <2>2, EndsAgree
    <3>2. status[k][b] = "server" => status[k][a] = "server"
      BY <2>2, EndsAgree
    <3> QED BY <2>3, <3>1, <3>2
  <2>5. ASSUME status[k][a] = "server", b \in Reach(a, Up(Conn \ {k}))
        PROVE  FALSE
    <3>1. \E j \in Conn \ {k} : KnownBy(b, j, a)
      <4>1. Conn \ {k} \in SUBSET Conn
        OBVIOUS
      <4> QED BY <2>1, <2>5, <4>1, KnownThrough
    <3>2. KnownBy(b, k, a)
      <4>1. status[k][b] = "server"
        BY <2>4, <2>5
      <4>2. KnownBy(b, k, Peer(k, b))
        BY <1>1, <4>1, NeighbourKnown
      <4> QED BY <2>2, <4>2
    <3>3. \A f, g \in global_serv_list[b] : f.name = g.name => f = g
      BY <1>1 DEF StrongInv, LocalInv, KnownOnce
    <3> QED BY <3>1, <3>2, <3>3 DEF KnownBy
  <2> QED BY <2>2, <2>4, <2>5
<1>3. ASSUME NEW s \in Server, NEW y \in Reach(s, Up(Conn))
      PROVE  y \in Known(s)
  <2>1. y \in Server /\ s \in Reach(y, Up(Conn))
    BY UpSymmetric DEF Reach
  <2>2. s = y \/ \E j \in Conn : KnownBy(s, j, y)
    BY <2>1, KnownThrough
  <2> QED BY <2>2 DEF Known, KnownBy
<1> QED BY <1>2, <1>3

\* Whatever rings are tried and whatever crosses: once all is quiet both ends of a
\* connection agree on it, the links form a forest, and every server knows all
\* servers of its tree (mr_server, server_estab, ms_sid, ms_squit, exit_client).
THEOREM OneTreeAlways == Spec => []OneTree
BY ToldAlways, TreeAtRest, PTL
=============================================================================
