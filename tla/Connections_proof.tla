------------------------- MODULE Connections_proof -------------------------
(***************************************************************************)
(* Proofs about Connections, for every finite set of clients and listeners *)
(* and every client limit.                                                 *)
(***************************************************************************)
EXTENDS Connections, FiniteSetTheorems, SequenceTheorems, TLAPS

-----------------------------------------------------------------------------
(* The failed writes of a handler.                                          *)

\* The failed writes of a handler are distinct clients among those it wrote to.
LEMMA FailedWritesType ==
    ASSUME NEW S \in SUBSET Client, NEW s \in FailedWrites(S)
    PROVE  /\ s \in Seq(Client)
           /\ Range(s) \subseteq S
           /\ \A i, j \in DOMAIN s : s[i] = s[j] => i = j
  <1>1. PICK F \in SUBSET S : s \in SetToSeqs(F)
    BY DEF FailedWrites, SetToAllKPermutations
  <1>2. IsFiniteSet(F)
    BY FS_Subset, ConnAssumption
  <1>3. Cardinality(F) \in Nat
    BY <1>2, FS_CardinalityType
  <1>4. s \in [1..Cardinality(F) -> F] /\ \A i, j \in 1..Cardinality(F) : i # j => s[i] # s[j]
    BY <1>1 DEF SetToSeqs
  <1>5. s \in Seq(Client)
    BY <1>3, <1>4
  <1> QED
    BY <1>4, <1>5 DEF Range

\* Queueing the failed writes behind what is left of abort_list keeps the
\* queue's invariant in the phases that are not freeing memory.
LEMMA QueueAppend ==
    ASSUME NEW list \in Seq(Client), NEW next,
           next = IF list = <<>> THEN NULL ELSE Head(list),
           \A i, j \in DOMAIN list : list[i] = list[j] => i = j,
           Range(list) \subseteq dead, dead \subseteq Range(list) \cup closing',
           NEW S \in SUBSET (Client \ dead), NEW s \in FailedWrites(S),
           QueueAborts(list, next, s), phase' \in {"run", "abort"},
           dead \cup Range(s) \subseteq dead',
           dead' \subseteq dead \cup Range(s) \cup closing'
    PROVE  QueueInv' /\ abort_list' \in Seq(Client) /\ eac_next' \in Client \cup {NULL}
  <1>1. /\ s \in Seq(Client)
        /\ Range(s) \subseteq S
        /\ \A i, j \in DOMAIN s : s[i] = s[j] => i = j
    BY FailedWritesType
  <1>2. /\ abort_list' = list \o s
        /\ eac_next' = IF next = NULL /\ s # <<>> THEN s[1] ELSE next
    BY DEF QueueAborts
  <1>3. list \in Seq(Client) /\ abort_list' \in Seq(Client)
    BY <1>1, <1>2
  <1>4. /\ Len(abort_list') = Len(list) + Len(s)
        /\ \A i \in 1..Len(list) : abort_list'[i] = list[i]
        /\ \A i \in 1..Len(s) : abort_list'[i + Len(list)] = s[i]
    BY <1>1, <1>2, <1>3
  <1>5. Range(abort_list') = Range(list) \cup Range(s)
    <2>1. Range(abort_list') \subseteq Range(list) \cup Range(s)
      <3>1. ASSUME NEW i \in 1..Len(abort_list') PROVE abort_list'[i] \in Range(list) \cup Range(s)
        <4>1. CASE i \in 1..Len(list)
          BY <4>1, <1>3, <1>4 DEF Range
        <4>2. CASE i \notin 1..Len(list)
          <5>1. i - Len(list) \in 1..Len(s)
            BY <4>2, <1>1, <1>3, <1>4
          <5>2. i = (i - Len(list)) + Len(list)
            BY <1>3
          <5>3. abort_list'[i] = s[i - Len(list)]
            BY <5>1, <5>2, <1>4
          <5> QED BY <5>1, <5>3, <1>1 DEF Range
        <4> QED BY <4>1, <4>2
      <3> QED BY <3>1, <1>3 DEF Range
    <2>2. Range(list) \subseteq Range(abort_list')
      BY <1>1, <1>3, <1>4 DEF Range
    <2>3. Range(s) \subseteq Range(abort_list')
      <3>1. ASSUME NEW i \in 1..Len(s) PROVE s[i] \in Range(abort_list')
        <4>1. i + Len(list) \in 1..Len(abort_list')
          BY <1>1, <1>3, <1>4
        <4> QED BY <4>1, <1>3, <1>4 DEF Range
      <3> QED BY <3>1, <1>1 DEF Range
    <2> QED BY <2>1, <2>2, <2>3
  <1>6. QueuedOnce'
    <2>1. \A i \in 1..Len(list), j \in 1..Len(s) : list[i] # s[j]
      BY <1>1, <1>3 DEF Range
    <2>2. SUFFICES ASSUME NEW i \in 1..Len(abort_list'), NEW j \in 1..Len(abort_list'),
                          abort_list'[i] = abort_list'[j]
                   PROVE  i = j
      BY <1>3 DEF QueuedOnce
    <2>3. \A k \in 1..Len(abort_list') :
             \/ k \in 1..Len(list) /\ abort_list'[k] = list[k]
             \/ k - Len(list) \in 1..Len(s) /\ abort_list'[k] = s[k - Len(list)]
      <3>1. ASSUME NEW k \in 1..Len(abort_list'), k \notin 1..Len(list)
            PROVE  k - Len(list) \in 1..Len(s) /\ abort_list'[k] = s[k - Len(list)]
        <4>1. k - Len(list) \in 1..Len(s)
          BY <3>1, <1>1, <1>3, <1>4
        <4>2. k = (k - Len(list)) + Len(list)
          BY <1>3
        <4> QED BY <4>1, <4>2, <1>4
      <3> QED BY <3>1, <1>4
    <2>4. \A a, b \in 1..Len(list) : list[a] = list[b] => a = b
      BY <1>3
    <2>5. CASE i \in 1..Len(list) /\ abort_list'[i] = list[i]
      BY <2>1, <2>2, <2>3, <2>4, <2>5
    <2>6. CASE i - Len(list) \in 1..Len(s) /\ abort_list'[i] = s[i - Len(list)]
      <3>1. CASE j \in 1..Len(list) /\ abort_list'[j] = list[j]
        BY <2>1, <2>2, <2>6, <3>1
      <3>2. CASE j - Len(list) \in 1..Len(s) /\ abort_list'[j] = s[j - Len(list)]
        <4>1. \A a, b \in 1..Len(s) : s[a] = s[b] => a = b
          BY <1>1
        <4>2. s[i - Len(list)] = s[j - Len(list)]
          BY <2>2, <2>6, <3>2
        <4>3. i - Len(list) = j - Len(list)
          BY <2>6, <3>2, <4>1, <4>2
        <4> QED BY <4>3, <1>3
      <3> QED BY <2>3, <3>1, <3>2
    <2> QED
      BY <2>3, <2>5, <2>6
  <1>7. eac_next' = IF abort_list' = <<>> THEN NULL ELSE Head(abort_list')
    BY <1>1, <1>2, <1>3, <1>4, ConnAssumption
  <1>8. eac_next' \in Client \cup {NULL}
    BY <1>3, <1>7
  <1>9. Range(abort_list') \subseteq dead' /\ dead' \subseteq Range(abort_list') \cup closing'
    BY <1>5
  <1> QED
    BY <1>3, <1>6, <1>7, <1>8, <1>9 DEF QueueInv

\* The same for a handler, which appends to abort_list as it stands.
LEMMA QueueWrite ==
    ASSUME TypeOK, QueueInv, phase' \in {"run", "abort"},
           NEW S \in SUBSET (Client \ dead), NEW s \in FailedWrites(S),
           DeadLinkOnWrite(s), closing \subseteq closing',
           dead \cup Range(s) \subseteq dead',
           dead' \subseteq dead \cup Range(s) \cup closing'
    PROVE  QueueInv' /\ abort_list' \in Seq(Client) /\ eac_next' \in Client \cup {NULL}
  <1>1. /\ abort_list \in Seq(Client)
        /\ eac_next = IF abort_list = <<>> THEN NULL ELSE Head(abort_list)
        /\ \A i, j \in DOMAIN abort_list : abort_list[i] = abort_list[j] => i = j
        /\ Range(abort_list) \subseteq dead
        /\ dead \subseteq Range(abort_list) \cup closing'
    BY DEF TypeOK, QueueInv, QueuedOnce
  <1> QED
    BY <1>1, QueueAppend DEF DeadLinkOnWrite

\* The clients a handler reaches are live, so their slots are allocated (or the
\* handler's own).
LEMMA ReachedType ==
    ASSUME NEW c
    PROVE  /\ Reached(c) \in SUBSET (Client \ dead)
           /\ \A d \in Reached(c) : d = c \/ status[d] # "none"
  BY DEF Reached, IsDefunct, IsRegistered

-----------------------------------------------------------------------------
(* exit_client keeps the invariant of every slot.                           *)

LEMMA ExitKeepsClients ==
    ASSUME ConnInv, NEW c \in Client, status[c] # "none",
           NEW s \in FailedWrites(Reached(c)), ExitClient(c, s)
    PROVE  /\ \A d \in Client : ClientInv(d)'
           /\ closing' \subseteq Client /\ dead' \subseteq Client
           /\ finished' \subseteq Client /\ auth' \subseteq Client
           /\ watch' \in [Client -> Watch]
           /\ Listed' \subseteq Client /\ oper_list' \subseteq Client
           /\ global_client_list' \subseteq Client
           /\ dead_list' \in [Client -> Nat] /\ Count_local' \in Nat /\ CountInv'
           /\ closing' = closing \cup {c}
           /\ dead' = dead \cup {c} \cup Range(s)
  <1>1. Range(s) \subseteq Reached(c)
    BY ReachedType, FailedWritesType
  <1>2. TypeOK /\ \A d \in Client : ClientInv(d)
    BY DEF ConnInv
  <1>3. CASE c \in closing
    <2>1. c \in dead /\ dead' = dead \cup Range(s)
      BY <1>2, <1>3 DEF ClientInv, ExitClient
    <2>2. UNCHANGED <<status, finished, closing, auth, watch, listVars, dead_list, Count_local>>
      BY <1>3 DEF ExitClient
    <2>3. \A d \in Client : ClientInv(d)'
      BY <1>1, <1>2, <1>3, <2>1, <2>2, ReachedType DEF ClientInv, Listed, listVars, IsRegistered
    <2>4. CountInv'
      BY <2>2 DEF ConnInv, CountInv, listVars
    <2> QED
      BY <1>1, <1>2, <1>3, <2>1, <2>2, <2>3, <2>4, ReachedType DEF TypeOK, Listed, listVars
  <1>4. CASE c \notin closing
    <2>1. /\ closing' = closing \cup {c}
          /\ dead' = dead \cup {c} \cup Range(s)
          /\ watch' = [watch EXCEPT ![c] = "none"]
          /\ dead_list' = [dead_list EXCEPT ![c] = @ + 1]
          /\ global_client_list' = global_client_list \ {c}
          /\ auth' = IF status[c] = "unknown" THEN auth \ {c} ELSE auth
          /\ UNCHANGED <<status, finished>>
      BY <1>4 DEF ExitClient, ExitOneClient, DeleteAuth, CloseConnection
    <2>2. /\ unknown_list' = IF IsRegistered(c) THEN unknown_list ELSE unknown_list \ {c}
          /\ local_client_list' = IF status[c] = "client" THEN local_client_list \ {c}
                                  ELSE local_client_list
          /\ oper_list' = IF status[c] = "client" THEN oper_list \ {c} ELSE oper_list
          /\ serv_list' = IF status[c] \in {"server", "connecting", "handshake"}
                          THEN serv_list \ {c} ELSE serv_list
          /\ Count_local' = IF status[c] = "client" THEN Count_local - 1 ELSE Count_local
      BY <1>4 DEF ExitClient, LeaveLists
    <2>3. ClientInv(c)'
      BY <1>2, <1>4, <2>1, <2>2 DEF ClientInv, Listed, IsRegistered, TypeOK, Status
    <2>4. ASSUME NEW d \in Client, d # c PROVE ClientInv(d)'
      BY <1>1, <1>2, <1>4, <2>1, <2>2, <2>4, ReachedType DEF ClientInv, Listed, IsRegistered, TypeOK
    <2>5. watch' \in [Client -> Watch] /\ dead_list' \in [Client -> Nat]
      BY <1>2, <2>1 DEF TypeOK, Watch
    <2>6. Count_local' \in Nat /\ CountInv'
      <3>1. CASE status[c] = "client"
        <4>1. IsFiniteSet(local_client_list) /\ c \in local_client_list
          BY <1>2, <1>4, <3>1, FS_Subset, ConnAssumption DEF TypeOK, ClientInv
        <4>2. /\ Cardinality(local_client_list \ {c}) = Cardinality(local_client_list) - 1
              /\ Cardinality(local_client_list \ {c}) \in Nat
          BY <4>1, FS_RemoveElement, FS_CardinalityType, FS_Subset
        <4>3. Count_local = Cardinality(local_client_list) /\ Count_local \in Nat
              /\ Count_local <= MaxLocal /\ MaxLocal \in Nat
          BY <1>2, ConnAssumption DEF ConnInv, CountInv, TypeOK
        <4>4. Count_local' = Count_local - 1 /\ local_client_list' = local_client_list \ {c}
          BY <2>2, <3>1
        <4> QED BY <4>2, <4>3, <4>4 DEF CountInv
      <3>2. CASE status[c] # "client"
        BY <1>2, <2>2, <3>2 DEF ConnInv, CountInv, TypeOK
      <3> QED BY <3>1, <3>2
    <2> QED
      BY <1>1, <1>2, <2>1, <2>2, <2>3, <2>4, <2>5, <2>6, ReachedType DEF TypeOK, Listed
  <1> QED
    BY <1>3, <1>4

\* exit_client from a handler keeps ConnInv.
LEMMA ExitInv ==
    ASSUME ConnInv, NEW c \in Client, status[c] # "none", Exit(c)
    PROVE  ConnInv'
  <1>1. PICK s \in FailedWrites(Reached(c)) : DeadLinkOnWrite(s) /\ ExitClient(c, s)
    BY DEF Exit
  <1>2. /\ \A d \in Client : ClientInv(d)'
        /\ closing' \subseteq Client /\ dead' \subseteq Client
        /\ finished' \subseteq Client /\ auth' \subseteq Client
        /\ watch' \in [Client -> Watch]
        /\ Listed' \subseteq Client /\ oper_list' \subseteq Client
        /\ global_client_list' \subseteq Client
        /\ dead_list' \in [Client -> Nat] /\ Count_local' \in Nat /\ CountInv'
        /\ closing' = closing \cup {c}
        /\ dead' = dead \cup {c} \cup Range(s)
    BY <1>1, ExitKeepsClients
  <1>3. phase = "run" /\ phase' = "run" /\ UNCHANGED <<status, listenerVars>>
    BY <1>1 DEF Exit, ExitClient
  <1>4. QueueInv' /\ abort_list' \in Seq(Client) /\ eac_next' \in Client \cup {NULL}
    BY <1>1, <1>2, <1>3, QueueWrite, ReachedType DEF ConnInv
  <1>5. TypeOK'
    BY <1>2, <1>3, <1>4 DEF ConnInv, TypeOK, Listed, listenerVars
  <1> QED
    BY <1>2, <1>4, <1>5 DEF ConnInv

\* A plain connection enters auth.
LEMMA AcceptToAuthInv ==
    ASSUME ConnInv, NEW l \in Listener, NEW c \in Client, AcceptToAuth(l, c)
    PROVE  ConnInv'
  <1> USE DEF AcceptToAuth, NewConnection
  <1>1. PICK s \in FailedWrites(Reached(c)) :
          /\ DeadLinkOnWrite(s) /\ dead' = dead \cup Range(s)
          /\ TRUE
    BY DEF Write
  <1>2. Range(s) \subseteq Reached(c)
    BY ReachedType, FailedWritesType
  <1>3. QueueInv' /\ abort_list' \in Seq(Client) /\ eac_next' \in Client \cup {NULL}
    BY <1>1, QueueWrite, ReachedType DEF ConnInv, CanParse
  <1>4. TypeOK'
    BY <1>1, <1>2, <1>3, ReachedType DEF ConnInv, TypeOK, Status, Watch, listVars, exitVars, listenerVars, flagVars
  <1>5. ASSUME NEW d \in Client PROVE ClientInv(d)'
    BY <1>1, <1>2, ReachedType
    DEF ConnInv, TypeOK, ClientInv, Listed, IsRegistered, CanParse, IsDefunct, Status, Watch, listVars, exitVars,
        listenerVars, flagVars
  <1>6. CountInv'
    BY DEF ConnInv, CountInv, listVars, exitVars, CanParse
  <1> QED
    BY <1>3, <1>4, <1>5, <1>6 DEF ConnInv

\* A connection whose TLS session cannot be made.
LEMMA AcceptFailsInv ==
    ASSUME ConnInv, NEW l \in Listener, NEW c \in Client, AcceptFails(l, c)
    PROVE  ConnInv'
  <1> USE DEF AcceptFails, NewConnection
  <1>1. PICK s \in FailedWrites(Reached(c) \ {c}) :
          /\ DeadLinkOnWrite(s) /\ dead' = dead \cup {c} \cup Range(s)
          /\ TRUE
    BY DEF Write
  <1>2. Range(s) \subseteq Reached(c) \ {c}
    BY ReachedType, FailedWritesType
  <1>3. QueueInv' /\ abort_list' \in Seq(Client) /\ eac_next' \in Client \cup {NULL}
    BY <1>1, QueueWrite, ReachedType DEF ConnInv, CanParse
  <1>4. TypeOK'
    BY <1>1, <1>2, <1>3, ReachedType DEF ConnInv, TypeOK, Status, Watch, listVars, exitVars, listenerVars, flagVars
  <1>5. ASSUME NEW d \in Client PROVE ClientInv(d)'
    BY <1>1, <1>2, ReachedType
    DEF ConnInv, TypeOK, ClientInv, Listed, IsRegistered, CanParse, IsDefunct, Status, Watch, listVars, exitVars,
        listenerVars, flagVars
  <1>6. CountInv'
    BY DEF ConnInv, CountInv, listVars, exitVars, CanParse
  <1> QED
    BY <1>3, <1>4, <1>5, <1>6 DEF ConnInv

\* TLS done: auth begins.
LEMMA SslDoneInv ==
    ASSUME ConnInv, NEW c \in Client, SslDone(c)
    PROVE  ConnInv'
  <1> USE DEF SslDone
  <1>1. PICK s \in FailedWrites(Reached(c)) :
          /\ DeadLinkOnWrite(s) /\ dead' = dead \cup Range(s)
          /\ TRUE
    BY DEF Write
  <1>2. Range(s) \subseteq Reached(c)
    BY ReachedType, FailedWritesType
  <1>3. QueueInv' /\ abort_list' \in Seq(Client) /\ eac_next' \in Client \cup {NULL}
    BY <1>1, QueueWrite, ReachedType DEF ConnInv, CanParse
  <1>4. TypeOK'
    BY <1>1, <1>2, <1>3, ReachedType DEF ConnInv, TypeOK, Status, Watch, listVars, exitVars, listenerVars, flagVars
  <1>5. ASSUME NEW d \in Client PROVE ClientInv(d)'
    BY <1>1, <1>2, ReachedType
    DEF ConnInv, TypeOK, ClientInv, Listed, IsRegistered, CanParse, IsDefunct, Status, Watch, listVars, exitVars,
        listenerVars, flagVars
  <1>6. CountInv'
    BY DEF ConnInv, CountInv, listVars, exitVars, CanParse
  <1> QED
    BY <1>3, <1>4, <1>5, <1>6 DEF ConnInv

\* Auth ends and the client is read from.
LEMMA ReleaseAuthClientInv ==
    ASSUME ConnInv, NEW c \in Client, ReleaseAuthClient(c)
    PROVE  ConnInv'
  <1> USE DEF ReleaseAuthClient
  <1>1. PICK s \in FailedWrites(Reached(c)) :
          /\ DeadLinkOnWrite(s) /\ dead' = dead \cup Range(s)
          /\ watch' = IF c \in dead' THEN watch ELSE [watch EXCEPT ![c] = "read"]
    BY DEF Write
  <1>2. Range(s) \subseteq Reached(c)
    BY ReachedType, FailedWritesType
  <1>3. QueueInv' /\ abort_list' \in Seq(Client) /\ eac_next' \in Client \cup {NULL}
    BY <1>1, QueueWrite, ReachedType DEF ConnInv, CanParse
  <1>4. TypeOK'
    BY <1>1, <1>2, <1>3, ReachedType DEF ConnInv, TypeOK, Status, Watch, listVars, exitVars, listenerVars, flagVars
  <1>5. ASSUME NEW d \in Client PROVE ClientInv(d)'
    BY <1>1, <1>2, ReachedType
    DEF ConnInv, TypeOK, ClientInv, Listed, IsRegistered, CanParse, IsDefunct, Status, Watch, listVars, exitVars,
        listenerVars, flagVars
  <1>6. CountInv'
    BY DEF ConnInv, CountInv, listVars, exitVars, CanParse
  <1> QED
    BY <1>3, <1>4, <1>5, <1>6 DEF ConnInv

\* A command that only sends.
LEMMA SendMessagesInv ==
    ASSUME ConnInv, NEW c \in Client, SendMessages(c)
    PROVE  ConnInv'
  <1> USE DEF SendMessages
  <1>1. PICK s \in FailedWrites(Reached(c)) :
          /\ DeadLinkOnWrite(s) /\ dead' = dead \cup Range(s)
          /\ TRUE
    BY DEF Write
  <1>2. Range(s) \subseteq Reached(c)
    BY ReachedType, FailedWritesType
  <1>3. QueueInv' /\ abort_list' \in Seq(Client) /\ eac_next' \in Client \cup {NULL}
    BY <1>1, QueueWrite, ReachedType DEF ConnInv, CanParse
  <1>4. TypeOK'
    BY <1>1, <1>2, <1>3, ReachedType DEF ConnInv, TypeOK, Status, Watch, listVars, exitVars, listenerVars, flagVars
  <1>5. ASSUME NEW d \in Client PROVE ClientInv(d)'
    BY <1>1, <1>2, ReachedType
    DEF ConnInv, TypeOK, ClientInv, Listed, IsRegistered, CanParse, IsDefunct, Status, Watch, listVars, exitVars,
        listenerVars, flagVars
  <1>6. CountInv'
    BY DEF ConnInv, CountInv, listVars, exitVars, CanParse
  <1> QED
    BY <1>3, <1>4, <1>5, <1>6 DEF ConnInv

\* Registration as a user.
LEMMA RegisterLocalUserInv ==
    ASSUME ConnInv, NEW c \in Client, RegisterLocalUser(c)
    PROVE  ConnInv'
  <1> USE DEF RegisterLocalUser
  <1>1. PICK s \in FailedWrites(Reached(c)) :
          /\ DeadLinkOnWrite(s) /\ dead' = dead \cup Range(s)
          /\ TRUE
    BY DEF Write
  <1>2. Range(s) \subseteq Reached(c)
    BY ReachedType, FailedWritesType
  <1>3. QueueInv' /\ abort_list' \in Seq(Client) /\ eac_next' \in Client \cup {NULL}
    BY <1>1, QueueWrite, ReachedType DEF ConnInv, CanParse
  <1>4. TypeOK'
    BY <1>1, <1>2, <1>3, ReachedType DEF ConnInv, TypeOK, Status, Watch, listVars, exitVars, listenerVars, flagVars
  <1>5. ASSUME NEW d \in Client PROVE ClientInv(d)'
    BY <1>1, <1>2, ReachedType
    DEF ConnInv, TypeOK, ClientInv, Listed, IsRegistered, CanParse, IsDefunct, Status, Watch, listVars, exitVars,
        listenerVars, flagVars
  <1>6. CountInv'
    <2>1. IsFiniteSet(local_client_list) /\ c \notin local_client_list
      BY FS_Subset, ConnAssumption DEF ConnInv, TypeOK, ClientInv, Listed, CanParse
    <2>2. Cardinality(local_client_list \cup {c}) = Cardinality(local_client_list) + 1
      BY <2>1, FS_AddElement
    <2>3. Count_local \in Nat /\ Count_local < MaxLocal /\ MaxLocal \in Nat
      BY ConnAssumption DEF ConnInv, TypeOK
    <2> QED BY <2>2, <2>3 DEF ConnInv, CountInv
  <1> QED
    BY <1>3, <1>4, <1>5, <1>6 DEF ConnInv

\* Registration as a server.
LEMMA ServerEstabInv ==
    ASSUME ConnInv, NEW c \in Client, ServerEstab(c)
    PROVE  ConnInv'
  <1> USE DEF ServerEstab
  <1>1. PICK s \in FailedWrites(Reached(c)) :
          /\ DeadLinkOnWrite(s) /\ dead' = dead \cup Range(s)
          /\ TRUE
    BY DEF Write
  <1>2. Range(s) \subseteq Reached(c)
    BY ReachedType, FailedWritesType
  <1>3. QueueInv' /\ abort_list' \in Seq(Client) /\ eac_next' \in Client \cup {NULL}
    BY <1>1, QueueWrite, ReachedType DEF ConnInv, CanParse
  <1>4. TypeOK'
    BY <1>1, <1>2, <1>3, ReachedType DEF ConnInv, TypeOK, Status, Watch, listVars, exitVars, listenerVars, flagVars
  <1>5. ASSUME NEW d \in Client PROVE ClientInv(d)'
    BY <1>1, <1>2, ReachedType
    DEF ConnInv, TypeOK, ClientInv, Listed, IsRegistered, CanParse, IsDefunct, Status, Watch, listVars, exitVars,
        listenerVars, flagVars
  <1>6. CountInv'
    BY DEF ConnInv, CountInv, listVars, exitVars, CanParse
  <1> QED
    BY <1>3, <1>4, <1>5, <1>6 DEF ConnInv

\* OPER.
LEMMA OperUpInv ==
    ASSUME ConnInv, NEW c \in Client, OperUp(c)
    PROVE  ConnInv'
  <1> USE DEF OperUp
  <1>1. PICK s \in FailedWrites(Reached(c)) :
          /\ DeadLinkOnWrite(s) /\ dead' = dead \cup Range(s)
          /\ TRUE
    BY DEF Write
  <1>2. Range(s) \subseteq Reached(c)
    BY ReachedType, FailedWritesType
  <1>3. QueueInv' /\ abort_list' \in Seq(Client) /\ eac_next' \in Client \cup {NULL}
    BY <1>1, QueueWrite, ReachedType DEF ConnInv, CanParse
  <1>4. TypeOK'
    BY <1>1, <1>2, <1>3, ReachedType DEF ConnInv, TypeOK, Status, Watch, listVars, exitVars, listenerVars, flagVars
  <1>5. ASSUME NEW d \in Client PROVE ClientInv(d)'
    BY <1>1, <1>2, ReachedType
    DEF ConnInv, TypeOK, ClientInv, Listed, IsRegistered, CanParse, IsDefunct, Status, Watch, listVars, exitVars,
        listenerVars, flagVars
  <1>6. CountInv'
    BY DEF ConnInv, CountInv, listVars, exitVars, CanParse
  <1> QED
    BY <1>3, <1>4, <1>5, <1>6 DEF ConnInv

\* An outgoing connection that cannot be started.
LEMMA ServConnectFailsInv ==
    ASSUME ConnInv, NEW c \in Client, ServConnectFails(c)
    PROVE  ConnInv'
  <1> USE DEF ServConnectFails
  <1>1. PICK s \in FailedWrites(Reached(c) \ {c}) :
          /\ DeadLinkOnWrite(s) /\ dead' = dead \cup {c} \cup Range(s)
          /\ TRUE
    BY DEF Write
  <1>2. Range(s) \subseteq Reached(c) \ {c}
    BY ReachedType, FailedWritesType
  <1>3. QueueInv' /\ abort_list' \in Seq(Client) /\ eac_next' \in Client \cup {NULL}
    BY <1>1, QueueWrite, ReachedType DEF ConnInv, CanParse
  <1>4. TypeOK'
    BY <1>1, <1>2, <1>3, ReachedType DEF ConnInv, TypeOK, Status, Watch, listVars, exitVars, listenerVars, flagVars
  <1>5. ASSUME NEW d \in Client PROVE ClientInv(d)'
    BY <1>1, <1>2, ReachedType
    DEF ConnInv, TypeOK, ClientInv, Listed, IsRegistered, CanParse, IsDefunct, Status, Watch, listVars, exitVars,
        listenerVars, flagVars
  <1>6. CountInv'
    BY DEF ConnInv, CountInv, listVars, exitVars, CanParse
  <1> QED
    BY <1>3, <1>4, <1>5, <1>6 DEF ConnInv

\* An outgoing connection is up.
LEMMA ServConnectOkInv ==
    ASSUME ConnInv, NEW c \in Client, ServConnectOk(c)
    PROVE  ConnInv'
  <1> USE DEF ServConnectOk
  <1>1. PICK s \in FailedWrites(Reached(c)) :
          /\ DeadLinkOnWrite(s) /\ dead' = dead \cup Range(s)
          /\ watch' = [watch EXCEPT ![c] = IF c \in dead' THEN "none" ELSE "read"]
    BY DEF Write
  <1>2. Range(s) \subseteq Reached(c)
    BY ReachedType, FailedWritesType
  <1>3. QueueInv' /\ abort_list' \in Seq(Client) /\ eac_next' \in Client \cup {NULL}
    BY <1>1, QueueWrite, ReachedType DEF ConnInv, CanParse
  <1>4. TypeOK'
    BY <1>1, <1>2, <1>3, ReachedType DEF ConnInv, TypeOK, Status, Watch, listVars, exitVars, listenerVars, flagVars
  <1>5. ASSUME NEW d \in Client PROVE ClientInv(d)'
    BY <1>1, <1>2, ReachedType
    DEF ConnInv, TypeOK, ClientInv, Listed, IsRegistered, CanParse, IsDefunct, Status, Watch, listVars, exitVars,
        listenerVars, flagVars
  <1>6. CountInv'
    BY DEF ConnInv, CountInv, listVars, exitVars, CanParse
  <1> QED
    BY <1>3, <1>4, <1>5, <1>6 DEF ConnInv

\* An outgoing connection is refused or times out.
LEMMA ServConnectErrorInv ==
    ASSUME ConnInv, NEW c \in Client, ServConnectError(c)
    PROVE  ConnInv'
  <1> USE DEF ServConnectError
  <1>1. PICK s \in FailedWrites(Reached(c)) :
          /\ DeadLinkOnWrite(s) /\ dead' = dead \cup Range(s)
          /\ TRUE
    BY DEF Write
  <1>2. Range(s) \subseteq Reached(c)
    BY ReachedType, FailedWritesType
  <1>3. QueueInv' /\ abort_list' \in Seq(Client) /\ eac_next' \in Client \cup {NULL}
    BY <1>1, QueueWrite, ReachedType DEF ConnInv, CanParse
  <1>4. TypeOK'
    BY <1>1, <1>2, <1>3, ReachedType DEF ConnInv, TypeOK, Status, Watch, listVars, exitVars, listenerVars, flagVars
  <1>5. ASSUME NEW d \in Client PROVE ClientInv(d)'
    BY <1>1, <1>2, ReachedType
    DEF ConnInv, TypeOK, ClientInv, Listed, IsRegistered, CanParse, IsDefunct, Status, Watch, listVars, exitVars,
        listenerVars, flagVars
  <1>6. CountInv'
    BY DEF ConnInv, CountInv, listVars, exitVars, CanParse
  <1> QED
    BY <1>3, <1>4, <1>5, <1>6 DEF ConnInv

\* A TLS connection waits for its handshake.
LEMMA AcceptToSslInv ==
    ASSUME ConnInv, NEW l \in Listener, NEW c \in Client, AcceptToSsl(l, c)
    PROVE  ConnInv'
  <1> USE DEF AcceptToSsl, NewConnection
  <1>1. QueueInv'
    BY DEF ConnInv, QueueInv, QueuedOnce, CanParse, flagVars, exitVars
  <1>2. TypeOK'
    BY DEF ConnInv, TypeOK, Status, Watch, CanParse, listVars, exitVars, listenerVars, flagVars
  <1>3. ASSUME NEW d \in Client PROVE ClientInv(d)'
    BY DEF ConnInv, TypeOK, ClientInv, Listed, IsRegistered, CanParse, IsDefunct, Status, Watch,
        listVars, exitVars, listenerVars, flagVars
  <1>4. CountInv'
    BY DEF ConnInv, CountInv, listVars, exitVars, CanParse
  <1> QED
    BY <1>1, <1>2, <1>3, <1>4 DEF ConnInv

\* The read handler of a dead client.
LEMMA ReadDefunctInv ==
    ASSUME ConnInv, NEW c \in Client, ReadDefunct(c)
    PROVE  ConnInv'
  <1> USE DEF ReadDefunct
  <1>1. QueueInv'
    BY DEF ConnInv, QueueInv, QueuedOnce, CanParse, flagVars, exitVars
  <1>2. TypeOK'
    BY DEF ConnInv, TypeOK, Status, Watch, CanParse, listVars, exitVars, listenerVars, flagVars
  <1>3. ASSUME NEW d \in Client PROVE ClientInv(d)'
    BY DEF ConnInv, TypeOK, ClientInv, Listed, IsRegistered, CanParse, IsDefunct, Status, Watch,
        listVars, exitVars, listenerVars, flagVars
  <1>4. CountInv'
    BY DEF ConnInv, CountInv, listVars, exitVars, CanParse
  <1> QED
    BY <1>1, <1>2, <1>3, <1>4 DEF ConnInv

\* MODE -o.
LEMMA OperDownInv ==
    ASSUME ConnInv, NEW c \in Client, OperDown(c)
    PROVE  ConnInv'
  <1> USE DEF OperDown
  <1>1. QueueInv'
    BY DEF ConnInv, QueueInv, QueuedOnce, CanParse, flagVars, exitVars
  <1>2. TypeOK'
    BY DEF ConnInv, TypeOK, Status, Watch, CanParse, listVars, exitVars, listenerVars, flagVars
  <1>3. ASSUME NEW d \in Client PROVE ClientInv(d)'
    BY DEF ConnInv, TypeOK, ClientInv, Listed, IsRegistered, CanParse, IsDefunct, Status, Watch,
        listVars, exitVars, listenerVars, flagVars
  <1>4. CountInv'
    BY DEF ConnInv, CountInv, listVars, exitVars, CanParse
  <1> QED
    BY <1>1, <1>2, <1>3, <1>4 DEF ConnInv

\* An outgoing connection is started.
LEMMA ServConnectInv ==
    ASSUME ConnInv, NEW c \in Client, ServConnect(c)
    PROVE  ConnInv'
  <1> USE DEF ServConnect
  <1>1. QueueInv'
    BY DEF ConnInv, QueueInv, QueuedOnce, CanParse, flagVars, exitVars
  <1>2. TypeOK'
    BY DEF ConnInv, TypeOK, Status, Watch, CanParse, listVars, exitVars, listenerVars, flagVars
  <1>3. ASSUME NEW d \in Client PROVE ClientInv(d)'
    BY DEF ConnInv, TypeOK, ClientInv, Listed, IsRegistered, CanParse, IsDefunct, Status, Watch,
        listVars, exitVars, listenerVars, flagVars
  <1>4. CountInv'
    BY DEF ConnInv, CountInv, listVars, exitVars, CanParse
  <1> QED
    BY <1>1, <1>2, <1>3, <1>4 DEF ConnInv

\* A rehash changes listeners only.
LEMMA RehashInv ==
    ASSUME ConnInv, NEW O \in SUBSET Listener, Rehash(O)
    PROVE  ConnInv'
  <1> USE DEF Rehash
  <1>1. QueueInv'
    BY DEF ConnInv, QueueInv, QueuedOnce, CanParse, flagVars, exitVars
  <1>2. TypeOK'
    BY DEF ConnInv, TypeOK, Status, Watch, CanParse, listVars, exitVars, listenerVars, flagVars
  <1>3. ASSUME NEW d \in Client PROVE ClientInv(d)'
    BY DEF ConnInv, TypeOK, ClientInv, Listed, IsRegistered, CanParse, IsDefunct, Status, Watch,
        listVars, exitVars, listenerVars, flagVars
  <1>4. CountInv'
    BY DEF ConnInv, CountInv, listVars, exitVars, CanParse
  <1> QED
    BY <1>1, <1>2, <1>3, <1>4 DEF ConnInv

\* Every exit a command, a timer or a ban makes is of an allocated client.
LEMMA ExitsInv ==
    ASSUME ConnInv, NEW c \in Client, NEW o \in Client,
           \/ SslFails(c) \/ ReadExits(c) \/ ServConnectLostConf(c)
           \/ MoClose(o, c) \/ MoKill(o, c) \/ MoSquit(o, c)
           \/ CheckPings(c) \/ CheckUnknowns(c) \/ CheckConfKlines(c)
    PROVE  ConnInv'
  <1>1. Exit(c)
    BY DEF SslFails, ReadExits, ServConnectLostConf, MoClose, MoKill, MoSquit,
           CheckPings, CheckUnknowns, CheckConfKlines
  <1>2. \/ watch[c] # "none"
        \/ c \in Listed
        \/ status[c] # "none"
    BY DEF SslFails, ReadExits, ServConnectLostConf, MoClose, MoKill, MoSquit, Listed,
           CheckPings, CheckUnknowns, CheckConfKlines, CanParse
  <1>3. ClientInv(c)
    BY DEF ConnInv
  <1>4. status[c] # "none"
    BY <1>2, <1>3 DEF ClientInv
  <1> QED
    BY <1>1, <1>4, ExitInv

-----------------------------------------------------------------------------
(* The tail of io_loop.                                                     *)

\* A lap of exit_aborted_clients.
LEMMA AbortLapInv ==
    ASSUME ConnInv, AbortLap
    PROVE  ConnInv'
  <1> DEFINE c    == Head(abort_list)
             list == Tail(abort_list)
             next == IF Len(abort_list) = 1 THEN NULL ELSE abort_list[2]
  <1>1. PICK s \in FailedWrites(Reached(c)) : QueueAborts(list, next, s) /\ ExitClient(c, s)
    BY DEF AbortLap, LapClient
  <1>2. phase = "abort" /\ phase' = "abort" /\ abort_list # <<>> /\ abort_list \in Seq(Client)
    BY DEF AbortLap, ConnInv, QueueInv, TypeOK
  <1>3. c \in Client /\ c \in dead
    BY <1>2 DEF ConnInv, QueueInv, Range
  <1>4. status[c] # "none"
    BY <1>3 DEF ConnInv, ClientInv
  <1> HIDE DEF c
  <1>5. /\ \A d \in Client : ClientInv(d)'
        /\ closing' \subseteq Client /\ dead' \subseteq Client
        /\ finished' \subseteq Client /\ auth' \subseteq Client
        /\ watch' \in [Client -> Watch]
        /\ Listed' \subseteq Client /\ oper_list' \subseteq Client
        /\ global_client_list' \subseteq Client
        /\ dead_list' \in [Client -> Nat] /\ Count_local' \in Nat /\ CountInv'
        /\ closing' = closing \cup {c}
        /\ dead' = dead \cup {c} \cup Range(s)
    BY <1>1, <1>3, <1>4, ExitKeepsClients
  <1>6. /\ list \in Seq(Client)
        /\ next = IF list = <<>> THEN NULL ELSE Head(list)
        /\ \A i \in 1..Len(list) : list[i] = abort_list[i + 1] /\ i + 1 \in 1..Len(abort_list)
        /\ Len(list) = Len(abort_list) - 1
        /\ DOMAIN list = 1..Len(list)
    <2>1. list \in Seq(Client) /\ Len(list) = Len(abort_list) - 1 /\ DOMAIN list = 1..Len(list)
      BY <1>2
    <2>2. \A i \in 1..Len(list) : list[i] = abort_list[i + 1] /\ i + 1 \in 1..Len(abort_list)
      BY <1>2, <2>1
    <2>3. CASE Len(abort_list) = 1
      <3>1. Len(list) = 0
        BY <2>1, <2>3
      <3>2. list = <<>>
        BY <2>1, <3>1, EmptySeq
      <3> QED BY <2>1, <2>2, <2>3, <3>2
    <2>4. CASE Len(abort_list) # 1
      <3>1. list # <<>> /\ Head(list) = list[1] /\ 1 \in 1..Len(list)
        BY <1>2, <2>1, <2>4
      <3>2. Head(list) = abort_list[2]
        BY <2>2, <3>1
      <3> QED BY <2>1, <2>2, <2>4, <3>1, <3>2
    <2> QED BY <2>1, <2>2, <2>3, <2>4
  <1>7. \A i, j \in DOMAIN list : list[i] = list[j] => i = j
    <2>1. SUFFICES ASSUME NEW i \in 1..Len(list), NEW j \in 1..Len(list), list[i] = list[j]
                   PROVE  i = j
      BY <1>6
    <2>2. i + 1 = j + 1
      BY <1>2, <1>6, <2>1 DEF ConnInv, QueueInv, QueuedOnce
    <2> QED BY <2>2
  <1>8. Range(list) \subseteq dead
    BY <1>2, <1>6 DEF ConnInv, QueueInv, Range
  <1>9. dead \subseteq Range(list) \cup closing'
    <2>1. SUFFICES ASSUME NEW d \in dead, d \notin closing, d # c PROVE d \in Range(list)
      BY <1>5
    <2>2. PICK i \in 1..Len(abort_list) : abort_list[i] = d
      BY <1>2, <2>1 DEF ConnInv, QueueInv, Range
    <2>3. i # 1
      BY <1>2, <2>1, <2>2 DEF c
    <2>4. i - 1 \in 1..Len(list) /\ list[i - 1] = d
      BY <1>2, <1>6, <2>2, <2>3
    <2> QED BY <1>6, <2>4 DEF Range
  <1> HIDE DEF list, next
  <1>10. QueueInv' /\ abort_list' \in Seq(Client) /\ eac_next' \in Client \cup {NULL}
    BY <1>1, <1>2, <1>5, <1>6, <1>7, <1>8, <1>9, QueueAppend, ReachedType
  <1>11. TypeOK'
    BY <1>1, <1>2, <1>5, <1>10 DEF ConnInv, TypeOK, ExitClient, Listed, listenerVars
  <1> QED
    BY <1>5, <1>10, <1>11 DEF ConnInv

\* exit_aborted_clients starts and ends; the queue is empty when it ended.
LEMMA AbortBoundsInv ==
    ASSUME ConnInv, BeginAbort \/ EndAbort
    PROVE  ConnInv'
  <1> USE DEF BeginAbort, EndAbort
  <1>1. abort_list \in Seq(Client) /\ abort_list' = abort_list
    BY DEF ConnInv, TypeOK, exitVars
  <1>2. EndAbort => abort_list = <<>>
    BY <1>1, ConnAssumption DEF ConnInv, QueueInv
  <1>3. eac_next' = IF abort_list = <<>> THEN NULL ELSE Head(abort_list)
    BY DEF ConnInv, QueueInv, exitVars
  <1>4. QueueInv'
    BY <1>1, <1>2, <1>3 DEF ConnInv, QueueInv, QueuedOnce, flagVars
  <1>5. eac_next' \in Client \cup {NULL}
    BY <1>1, <1>3
  <1>6. TypeOK'
    BY <1>5 DEF ConnInv, TypeOK, listVars, exitVars, listenerVars, flagVars
  <1>7. ASSUME NEW d \in Client PROVE ClientInv(d)'
    BY DEF ConnInv, ClientInv, Listed, IsRegistered, listVars, exitVars, listenerVars, flagVars
  <1>8. CountInv'
    BY DEF ConnInv, CountInv, listVars, exitVars
  <1> QED
    BY <1>4, <1>6, <1>7, <1>8 DEF ConnInv

\* free_exited_clients: the freed slots are those that exited, and nothing
\* refers to them.
LEMMA FreeExitedClientsInv ==
    ASSUME ConnInv, FreeExitedClients
    PROVE  ConnInv'
  <1> USE DEF FreeExitedClients
  <1>1. TypeOK /\ QueueInv /\ \A d \in Client : ClientInv(d)
    BY DEF ConnInv
  <1>2. Freed = closing
    BY <1>1 DEF Freed, ClientInv, TypeOK
  <1>3. \A S \in SUBSET Client : Cardinality(S) \in Nat
    BY FS_Subset, FS_CardinalityType, ConnAssumption
  <1>4. \A l \in Listener : Cardinality({c \in Freed : listener_of[c] = l}) \in Nat
    BY <1>3 DEF Freed
  <1>5. ref_count' \in [Listener -> Int]
    <2>1. ref_count' = [l \in Listener |->
                           ref_count[l] - Cardinality({c \in Freed : listener_of[c] = l})]
      OBVIOUS
    <2>2. \A l \in Listener : ref_count[l] \in Int
      BY <1>1 DEF TypeOK
    <2> DEFINE card(l) == Cardinality({c \in Freed : listener_of[c] = l})
    <2>3. \A l \in Listener : card(l) \in Nat
      BY <1>4
    <2>4. ref_count' = [l \in Listener |-> ref_count[l] - card(l)]
      BY <2>1
    <2> HIDE DEF card
    <2> QED BY <2>2, <2>3, <2>4
  <1>6. TypeOK'
    BY <1>1, <1>5 DEF TypeOK, Status, listVars
  <1>7. QueueInv'
    BY <1>1, <1>2 DEF QueueInv, QueuedOnce, TypeOK, Range
  <1>8. ASSUME NEW d \in Client PROVE ClientInv(d)'
    BY <1>1, <1>2 DEF ClientInv, TypeOK, Listed, IsRegistered, listVars
  <1>9. CountInv'
    BY DEF ConnInv, CountInv, listVars
  <1> QED
    BY <1>6, <1>7, <1>8, <1>9 DEF ConnInv

\* send_queued_all.
LEMMA SendQueuedAllInv ==
    ASSUME ConnInv, SendQueuedAll
    PROVE  ConnInv'
  <1> USE DEF SendQueuedAll
  <1> DEFINE S == {c \in unknown_list \cup local_client_list \cup serv_list : ~IsDefunct(c)}
  <1>1. PICK s \in FailedWrites(S) : DeadLinkOnWrite(s) /\ dead' = dead \cup Range(s)
    BY DEF Write
  <1>2. S \in SUBSET (Client \ dead) /\ \A d \in S : status[d] # "none"
    BY DEF ConnInv, TypeOK, ClientInv, Listed, IsDefunct
  <1>3. Range(s) \subseteq S
    BY <1>2, FailedWritesType
  <1>4. QueueInv' /\ abort_list' \in Seq(Client) /\ eac_next' \in Client \cup {NULL}
    BY <1>1, <1>2, QueueWrite DEF ConnInv
  <1> HIDE DEF S
  <1>5. TypeOK'
    BY <1>1, <1>2, <1>3, <1>4 DEF ConnInv, TypeOK, listVars, listenerVars
  <1>6. ASSUME NEW d \in Client PROVE ClientInv(d)'
    BY <1>1, <1>2, <1>3 DEF ConnInv, TypeOK, ClientInv, Listed, IsRegistered, listVars
  <1>7. CountInv'
    BY DEF ConnInv, CountInv, listVars
  <1> QED
    BY <1>4, <1>5, <1>6, <1>7 DEF ConnInv

-----------------------------------------------------------------------------
(* The theorems.                                                            *)

\* ConnInv is inductive.
THEOREM ConnInvInductive == ConnInv /\ [Next]_vars => ConnInv'
  <1> SUFFICES ASSUME ConnInv, [Next]_vars PROVE ConnInv'
    OBVIOUS
  <1>1. CASE UNCHANGED vars
    <2> USE <1>1 DEF vars, flagVars, listVars, exitVars, listenerVars
    <2>1. TypeOK' /\ QueueInv'
      BY DEF ConnInv, TypeOK, QueueInv, QueuedOnce
    <2>2. ASSUME NEW d \in Client PROVE ClientInv(d)'
      BY DEF ConnInv, ClientInv, Listed, IsRegistered
    <2>3. CountInv'
      BY DEF ConnInv, CountInv
    <2> QED BY <2>1, <2>2, <2>3 DEF ConnInv
  <1>2. ASSUME NEW c \in Client, ClientNext(c) PROVE ConnInv'
    <2>1. CASE \E l \in Listener : AcceptToAuth(l, c) \/ AcceptToSsl(l, c) \/ AcceptFails(l, c)
      BY <2>1, AcceptToAuthInv, AcceptToSslInv, AcceptFailsInv
    <2>2. CASE SslDone(c) \/ ReleaseAuthClient(c) \/ ReadDefunct(c) \/ SendMessages(c)
      BY <2>2, SslDoneInv, ReleaseAuthClientInv, ReadDefunctInv, SendMessagesInv
    <2>3. CASE RegisterLocalUser(c) \/ ServerEstab(c) \/ OperUp(c) \/ OperDown(c)
      BY <2>3, RegisterLocalUserInv, ServerEstabInv, OperUpInv, OperDownInv
    <2>4. CASE ServConnect(c) \/ ServConnectFails(c) \/ ServConnectOk(c) \/ ServConnectError(c)
      BY <2>4, ServConnectInv, ServConnectFailsInv, ServConnectOkInv, ServConnectErrorInv
    <2>5. CASE \/ SslFails(c) \/ ReadExits(c) \/ ServConnectLostConf(c)
               \/ \E o \in Client : MoClose(o, c) \/ MoKill(o, c) \/ MoSquit(o, c)
               \/ CheckPings(c) \/ CheckUnknowns(c) \/ CheckConfKlines(c)
      BY <2>5, ExitsInv
    <2> QED
      BY <1>2, <2>1, <2>2, <2>3, <2>4, <2>5 DEF ClientNext
  <1>3. CASE \E O \in SUBSET Listener : Rehash(O)
    BY <1>3, RehashInv
  <1>4. CASE LoopNext
    BY <1>4, AbortLapInv, AbortBoundsInv, FreeExitedClientsInv, SendQueuedAllInv DEF LoopNext
  <1> QED
    BY <1>1, <1>2, <1>3, <1>4 DEF Next

\* Every reachable state of the connection machinery satisfies ConnInv.
THEOREM Invariance == Spec => []ConnInv
  <1>1. Init => ConnInv
    <2> SUFFICES ASSUME Init PROVE ConnInv
      OBVIOUS
    <2>1. TypeOK
      BY DEF Init, TypeOK, Status, Watch
    <2>2. QueueInv
      BY DEF Init, QueueInv, QueuedOnce, Range
    <2>3. \A c \in Client : ClientInv(c)
      BY DEF Init, ClientInv, Listed
    <2>4. CountInv
      BY FS_EmptySet, ConnAssumption DEF Init, CountInv
    <2> QED BY <2>1, <2>2, <2>3, <2>4 DEF ConnInv
  <1> QED
    BY <1>1, ConnInvInductive, PTL DEF Spec

\* TypeOK holds always.
THEOREM TypeCorrect == Spec => []TypeOK
  <1>1. ConnInv => TypeOK
    BY DEF ConnInv
  <1> QED BY <1>1, Invariance, PTL

\* No list, queue, handler or AuthRequest ever refers to a freed client.
THEOREM NoDangling == Spec => []NoDanglingClient
  <1>1. ConnInv => NoDanglingClient
    <2> SUFFICES ASSUME ConnInv PROVE NoDanglingClient
      OBVIOUS
    <2>1. \A c \in Client : ClientInv(c)
      BY DEF ConnInv
    <2>2. Range(abort_list) \subseteq Allocated
      BY <2>1 DEF ConnInv, QueueInv, ClientInv, Allocated, TypeOK
    <2>3. eac_next # NULL => eac_next \in Range(abort_list)
      BY DEF ConnInv, QueueInv, TypeOK, Range
    <2> QED
      BY <2>1, <2>2, <2>3 DEF ConnInv, NoDanglingClient, ClientInv, Allocated, Listed, TypeOK
  <1> QED BY <1>1, Invariance, PTL

\* exit_client takes effect once per client, and takes it off everything.
THEOREM ExitsOnce == Spec => []ExitedOnce
  <1>1. ConnInv => ExitedOnce
    BY DEF ConnInv, ExitedOnce, ClientInv, Listed
  <1> QED BY <1>1, Invariance, PTL

\* Memory is freed only when every aborted client has exited.
THEOREM Drained == Spec => []AbortsDrained
  <1>1. ConnInv => AbortsDrained
    <2> SUFFICES ASSUME ConnInv, phase = "free" PROVE abort_list = <<>> /\ dead = closing
      BY DEF AbortsDrained
    <2>1. abort_list = <<>> /\ Range(abort_list) = {}
      BY DEF ConnInv, QueueInv, Range
    <2>2. closing \subseteq dead
      BY DEF ConnInv, ClientInv, TypeOK
    <2> QED BY <2>1, <2>2 DEF ConnInv, QueueInv
  <1> QED BY <1>1, Invariance, PTL

\* Auth releases a client at most once.
THEOREM ReleasesOnce == Spec => []ReleasedOnce
  <1>1. ConnInv => ReleasedOnce
    BY DEF ConnInv, ClientInv, ReleasedOnce, TypeOK
  <1> QED BY <1>1, Invariance, PTL

\* A live client is on the one list its status says, and Count.local counts
\* the users, never above the limit.
THEOREM OneHomeEach == Spec => []OneHome
  <1>1. ConnInv => OneHome
    BY DEF ConnInv, ClientInv, OneHome, Allocated
  <1> QED BY <1>1, Invariance, PTL

-----------------------------------------------------------------------------
(* List walks.                                                              *)

\* exit_client takes no client but its own off the lists, whichever other
\* clients its notices fail on.
LEMMA ExitTakesOne ==
    ASSUME NEW c, NEW s, ExitClient(c, s)
    PROVE  Listed \ Listed' \subseteq {c}
  BY DEF ExitClient, LeaveLists, Listed, listVars

\* A step takes at most one client off unknown_list, local_client_list and
\* serv_list: the next node a list walk saved stays linked.
LEMMA StepTakesOne ==
    ASSUME [Next]_vars
    PROVE  \A c, d \in Listed \ Listed' : c = d
  <1>1. CASE UNCHANGED vars
    BY <1>1 DEF vars, listVars, Listed
  <1>2. ASSUME NEW c \in Client, ClientNext(c) PROVE Listed \ Listed' \subseteq {c}
    <2>1. CASE Exit(c)
      BY <2>1, ExitTakesOne DEF Exit
    <2>2. CASE \E l \in Listener : AcceptToAuth(l, c) \/ AcceptToSsl(l, c) \/ AcceptFails(l, c)
      BY <2>2 DEF AcceptToAuth, AcceptToSsl, AcceptFails, Listed, listVars
    <2>3. CASE SslDone(c) \/ ReleaseAuthClient(c) \/ ReadDefunct(c) \/ SendMessages(c) \/ OperDown(c)
      BY <2>3 DEF SslDone, ReleaseAuthClient, ReadDefunct, SendMessages, OperDown, Listed, listVars
    <2>4. CASE RegisterLocalUser(c) \/ ServerEstab(c) \/ OperUp(c)
      BY <2>4 DEF RegisterLocalUser, ServerEstab, OperUp, Listed, listVars
    <2>5. CASE ServConnect(c) \/ ServConnectFails(c) \/ ServConnectOk(c) \/ ServConnectError(c)
      BY <2>5 DEF ServConnect, ServConnectFails, ServConnectOk, ServConnectError, Listed, listVars
    <2> QED
      BY <1>2, <2>1, <2>2, <2>3, <2>4, <2>5 DEF ClientNext, SslFails, ReadExits,
         ServConnectLostConf, MoClose, MoKill, MoSquit, CheckPings, CheckUnknowns, CheckConfKlines
  <1>3. CASE \E O \in SUBSET Listener : Rehash(O)
    BY <1>3 DEF Rehash, Listed, listVars
  <1>4. CASE AbortLap
    BY <1>4, ExitTakesOne DEF AbortLap
  <1>5. CASE BeginAbort \/ EndAbort \/ FreeExitedClients \/ SendQueuedAll
    BY <1>5 DEF BeginAbort, EndAbort, FreeExitedClients, SendQueuedAll, Listed, listVars
  <1> QED
    BY <1>1, <1>2, <1>3, <1>4, <1>5 DEF Next, LoopNext

\* The walks of check_pings, check_unknowns_list, check_conf_klines and mo_close
\* over the client lists never follow a freed next pointer.
THEOREM WalksAreSafe == Spec => WalkSafe
  <1>1. [Next]_vars => [\A c, d \in Listed \ Listed' : c = d]_vars
    BY StepTakesOne
  <1> QED BY <1>1, PTL DEF Spec, WalkSafe

-----------------------------------------------------------------------------
(* The promise of the auth system, seen from the connections.               *)

\* exit_client is a departure, or nothing.
LEMMA ExitDeparts ==
    ASSUME ConnInv, NEW c \in Client, NEW s, ExitClient(c, s)
    PROVE  [Service!Next]_(Service!serviceVars)
  <1>1. ClientInv(c) /\ auth \subseteq Client
    BY DEF ConnInv, TypeOK
  <1>2. CASE c \in closing
    BY <1>2 DEF ExitClient, Service!serviceVars
  <1>3. CASE c \notin closing
    <2>1. auth' = auth \ {c}
      BY <1>1, <1>3 DEF ExitClient, DeleteAuth, ClientInv
    <2>2. (finished \ closing)' = (finished \ closing) \ {c}
      BY <1>3 DEF ExitClient
    <2> QED BY <2>1, <2>2 DEF Service!Next, Service!Depart
  <1> QED BY <1>2, <1>3

\* A step of the connection machinery is a step of AuthService, or none.
LEMMA ServiceNext ==
    ASSUME ConnInv, [Next]_vars
    PROVE  [Service!Next]_(Service!serviceVars)
  <1> USE DEF Service!serviceVars
  <1>1. ASSUME NEW c \in Client, Exit(c) PROVE [Service!Next]_(Service!serviceVars)
    BY <1>1, ExitDeparts DEF Exit
  <1>2. ASSUME NEW c \in Client, ClientNext(c) PROVE [Service!Next]_(Service!serviceVars)
    <2>1. ClientInv(c)
      BY DEF ConnInv
    <2>2. CASE Exit(c)
      BY <2>2, <1>1
    <2>3. CASE \E l \in Listener : AcceptToAuth(l, c)
      BY <2>1, <2>3 DEF AcceptToAuth, NewConnection, ClientInv, Service!Next, Service!Start
    <2>4. CASE SslDone(c)
      BY <2>1, <2>4 DEF SslDone, ClientInv, Service!Next, Service!Start
    <2>5. CASE \E l \in Listener : AcceptToSsl(l, c) \/ AcceptFails(l, c)
      BY <2>1, <2>5 DEF AcceptToSsl, AcceptFails, NewConnection, ClientInv
    <2>6. CASE ReleaseAuthClient(c)
      BY <2>1, <2>6 DEF ReleaseAuthClient, ClientInv, Service!Next, Service!Release
    <2>7. CASE ReadDefunct(c) \/ SendMessages(c) \/ RegisterLocalUser(c) \/ ServerEstab(c)
      BY <2>7 DEF ReadDefunct, SendMessages, RegisterLocalUser, ServerEstab, flagVars
    <2>8. CASE OperUp(c) \/ OperDown(c)
      BY <2>8 DEF OperUp, OperDown, flagVars
    <2>9. CASE ServConnect(c) \/ ServConnectFails(c) \/ ServConnectOk(c) \/ ServConnectError(c)
      BY <2>1, <2>9 DEF ServConnect, ServConnectFails, ServConnectOk, ServConnectError, ClientInv
    <2> QED
      BY <1>2, <2>2, <2>3, <2>4, <2>5, <2>6, <2>7, <2>8, <2>9 DEF ClientNext, SslFails, ReadExits,
         ServConnectLostConf, MoClose, MoKill, MoSquit, CheckPings, CheckUnknowns, CheckConfKlines
  <1>3. CASE \E O \in SUBSET Listener : Rehash(O)
    BY <1>3 DEF Rehash, flagVars
  <1>4. CASE AbortLap
    <2>1. abort_list # <<>> /\ abort_list \in Seq(Client)
      BY <1>4 DEF AbortLap, ConnInv, QueueInv, TypeOK
    <2>2. Head(abort_list) \in Client
      BY <2>1
    <2> QED BY <1>4, <2>2, ExitDeparts DEF AbortLap, LapClient
  <1>5. CASE FreeExitedClients
    <2>1. \A c \in Client : c \in Freed <=> c \in closing
      BY DEF ConnInv, ClientInv, Freed
    <2>2. (finished \ closing)' = finished \ closing
      BY <1>5, <2>1 DEF FreeExitedClients, ConnInv, TypeOK
    <2> QED BY <1>5, <2>2 DEF FreeExitedClients
  <1>6. CASE BeginAbort \/ EndAbort \/ SendQueuedAll \/ UNCHANGED vars
    BY <1>6 DEF BeginAbort, EndAbort, SendQueuedAll, flagVars, vars
  <1> QED
    BY <1>2, <1>3, <1>4, <1>5, <1>6 DEF Next, LoopNext

\* Whatever kills a connection whenever, auth is begun once for it, and it is
\* released at most once and only while it is there.
THEOREM ServiceImplemented == Spec => ServiceSpec
  <1>1. Init => Service!Init
    BY DEF Init, Service!Init
  <1> QED
    BY <1>1, ServiceNext, Invariance, PTL DEF Spec, ServiceSpec, Service!Spec

-----------------------------------------------------------------------------
(* Listeners.                                                               *)

Holders(l) == {c \in Client : listener_of[c] = l}

\* Inductive with ConnInv: only an allocated client holds a listener.
ListenerInd ==
    ListenerRefs /\ \A c \in Client : status[c] = "none" => listener_of[c] = NULL

LEMMA HoldersFinite ==
    ASSUME TypeOK, NEW l
    PROVE  IsFiniteSet(Holders(l)) /\ Cardinality(Holders(l)) \in Nat
BY FS_Subset, FS_CardinalityType, ConnAssumption DEF Holders

\* Exits leave listeners to free_client.
LEMMA ExitKeepsListeners ==
    ASSUME ListenerInd, NEW c, NEW s, ExitClient(c, s)
    PROVE  ListenerInd'
BY DEF ExitClient, ListenerInd, ListenerRefs, listenerVars

\* add_connection: the client takes one reference to a listener with a socket.
LEMMA NewConnectionRefs ==
    ASSUME TypeOK, ListenerInd, NEW l \in Listener, NEW c \in Client, NewConnection(l, c)
    PROVE  ListenerInd'
<1>1. listener_of[c] = NULL /\ NULL \notin Listener /\ l \in ListenerPollList
  BY ConnAssumption DEF NewConnection, ListenerInd, ListenerRefs
<1>2. /\ listener_of' = [listener_of EXCEPT ![c] = l]
      /\ ref_count' = [ref_count EXCEPT ![l] = @ + 1]
      /\ status' = [status EXCEPT ![c] = "unknown"]
      /\ ListenerPollList' = ListenerPollList /\ active' = active
  BY DEF NewConnection
<1>3. ASSUME NEW k \in Listener
      PROVE  ref_count'[k] = Cardinality(Holders(k)')
  <2>1. ref_count[k] = Cardinality(Holders(k)) /\ IsFiniteSet(Holders(k))
    BY HoldersFinite DEF ListenerInd, ListenerRefs, Holders
  <2>2. CASE k = l
    <3>1. Holders(k)' = Holders(k) \cup {c} /\ c \notin Holders(k)
      BY <1>1, <1>2, <2>2 DEF Holders, TypeOK
    <3>2. Cardinality(Holders(k)') = Cardinality(Holders(k)) + 1
      BY <2>1, <3>1, FS_AddElement
    <3> QED
      BY <1>2, <2>1, <2>2, <3>2 DEF TypeOK
  <2>3. CASE k # l
    <3>1. Holders(k)' = Holders(k)
      BY <1>1, <1>2, <2>3 DEF Holders, TypeOK
    <3> QED
      BY <1>2, <2>1, <2>3, <3>1 DEF TypeOK
  <2> QED
    BY <2>2, <2>3
<1>4. \A d \in Client : listener_of'[d] # NULL => listener_of'[d] \in ListenerPollList'
  BY <1>1, <1>2 DEF TypeOK, ListenerInd, ListenerRefs
<1>5. \A d \in Client : status'[d] = "none" => listener_of'[d] = NULL
  BY <1>2 DEF TypeOK, ListenerInd
<1> QED
  BY <1>2, <1>3, <1>4, <1>5 DEF ListenerInd, ListenerRefs, Holders

\* free_client: the freed clients give their references back, and a listener
\* without a socket goes when the last of them does.
LEMMA FreeExitedClientsRefs ==
    ASSUME ConnInv, ListenerInd, FreeExitedClients
    PROVE  ListenerInd'
<1>1. TypeOK /\ ConnInv'
  BY FreeExitedClientsInv DEF ConnInv
<1>2. ASSUME NEW l \in Listener
      PROVE  /\ Holders(l)' = Holders(l) \ Freed
             /\ ref_count'[l] = Cardinality(Holders(l)')
             /\ IsFiniteSet(Holders(l)')
  <2>1. ref_count[l] = Cardinality(Holders(l)) /\ IsFiniteSet(Holders(l))
    BY <1>1, HoldersFinite DEF ListenerInd, ListenerRefs, Holders
  <2>2. Holders(l)' = Holders(l) \ Freed
    BY <1>1, ConnAssumption DEF FreeExitedClients, Holders, TypeOK
  <2>3. {c \in Freed : listener_of[c] = l} = Holders(l) \cap Freed
    BY DEF Holders, Freed
  <2>4. ref_count'[l] = ref_count[l] - Cardinality(Holders(l) \cap Freed)
    BY <2>3 DEF FreeExitedClients
  <2>5. /\ Cardinality(Holders(l) \ Freed) = Cardinality(Holders(l)) - Cardinality(Holders(l) \cap Freed)
        /\ IsFiniteSet(Holders(l) \ Freed)
    BY <2>1, FS_Difference
  <2> QED
    BY <2>1, <2>2, <2>4, <2>5
<1>3. ASSUME NEW c \in Client, listener_of'[c] # NULL
      PROVE  listener_of'[c] \in ListenerPollList'
  <2> DEFINE l == listener_of[c]
  <2>1. listener_of'[c] = l /\ l \in Listener /\ c \notin Freed
    BY <1>1, <1>3 DEF FreeExitedClients, TypeOK
  <2>2. l \in ListenerPollList
    BY <1>3, <2>1 DEF ListenerInd, ListenerRefs
  <2>3. c \in Holders(l)'
    BY <2>1 DEF Holders
  <2>4. ref_count'[l] # 0
    BY <1>2, <2>1, <2>3, FS_EmptySet
  <2>5. ListenerPollList' = {k \in ListenerPollList : k \in active \/ ref_count'[k] # 0 \/ ref_count[k] = 0}
    BY <1>1 DEF FreeExitedClients, TypeOK
  <2> QED
    BY <2>1, <2>2, <2>4, <2>5
<1>4. active' \subseteq ListenerPollList'
  BY DEF FreeExitedClients, ListenerInd, ListenerRefs
<1>5. \A c \in Client : status'[c] = "none" => listener_of'[c] = NULL
  BY DEF FreeExitedClients, ListenerInd
<1> QED
  BY <1>2, <1>3, <1>4, <1>5 DEF ListenerInd, ListenerRefs, Holders

\* rehash: the listeners in use stay, and those of the new file come.
LEMMA RehashRefs ==
    ASSUME TypeOK, ListenerInd, NEW O \in SUBSET Listener, Rehash(O)
    PROVE  ListenerInd'
<1>1. /\ active' = O /\ listener_of' = listener_of /\ ref_count' = ref_count /\ status' = status
      /\ ListenerPollList' = O \cup {l \in ListenerPollList : ref_count[l] # 0}
  BY DEF Rehash, flagVars
<1>2. ASSUME NEW c \in Client, listener_of[c] # NULL
      PROVE  ref_count[listener_of[c]] # 0
  <2>1. c \in Holders(listener_of[c]) /\ listener_of[c] \in Listener
    BY <1>2 DEF Holders, TypeOK
  <2>2. IsFiniteSet(Holders(listener_of[c]))
    BY HoldersFinite
  <2>3. Cardinality(Holders(listener_of[c])) # 0
    BY <2>1, <2>2, FS_EmptySet
  <2> QED
    BY <2>1, <2>3 DEF ListenerInd, ListenerRefs, Holders
<1> QED
  BY <1>1, <1>2 DEF ListenerInd, ListenerRefs

LEMMA ListenerIndInductive == ConnInv /\ ListenerInd /\ [Next]_vars => ListenerInd'
<1> SUFFICES ASSUME ConnInv, ListenerInd, [Next]_vars PROVE ListenerInd'
  OBVIOUS
<1>1. TypeOK
  BY DEF ConnInv
<1>2. ASSUME NEW c \in Client, ClientNext(c) PROVE ListenerInd'
  <2>1. CASE \E l \in Listener : AcceptToAuth(l, c) \/ AcceptToSsl(l, c) \/ AcceptFails(l, c)
    BY <1>1, <2>1, NewConnectionRefs DEF AcceptToAuth, AcceptToSsl, AcceptFails
  <2>2. ASSUME NEW d \in Client, Exit(d) PROVE ListenerInd'
    BY <2>2, ExitKeepsListeners DEF Exit
  <2>3. CASE SslDone(c) \/ ReleaseAuthClient(c) \/ ReadDefunct(c) \/ SendMessages(c)
             \/ OperUp(c) \/ OperDown(c) \/ ServConnectError(c)
    BY <2>3 DEF SslDone, ReleaseAuthClient, ReadDefunct, SendMessages, OperUp, OperDown,
       ServConnectError, ListenerInd, ListenerRefs, flagVars, listenerVars
  <2>4. CASE RegisterLocalUser(c) \/ ServerEstab(c) \/ ServConnect(c) \/ ServConnectFails(c)
    <3>1. /\ UNCHANGED listenerVars
          /\ \A d \in Client : status'[d] = "none" => status[d] = "none"
      BY <1>1, <2>4 DEF RegisterLocalUser, ServerEstab, ServConnect, ServConnectFails, TypeOK
    <3> QED
      BY <3>1 DEF ListenerInd, ListenerRefs, listenerVars
  <2>5. CASE ServConnectOk(c)
    BY <1>1, <2>5 DEF ServConnectOk, TypeOK, ListenerInd, ListenerRefs, listenerVars
  <2> QED
    BY <1>2, <2>1, <2>2, <2>3, <2>4, <2>5 DEF ClientNext, SslFails, ReadExits,
       ServConnectLostConf, MoClose, MoKill, MoSquit, CheckPings, CheckUnknowns, CheckConfKlines
<1>3. CASE \E O \in SUBSET Listener : Rehash(O)
  BY <1>1, <1>3, RehashRefs
<1>4. CASE AbortLap
  BY <1>4, ExitKeepsListeners DEF AbortLap
<1>5. CASE FreeExitedClients
  BY <1>5, FreeExitedClientsRefs
<1>6. CASE BeginAbort \/ EndAbort \/ SendQueuedAll \/ UNCHANGED vars
  BY <1>6 DEF BeginAbort, EndAbort, SendQueuedAll, ListenerInd, ListenerRefs, flagVars,
     listenerVars, vars
<1> QED
  BY <1>2, <1>3, <1>4, <1>5, <1>6 DEF Next, LoopNext

\* Whoever comes, dies and is freed between however many REHASHes: ref_count is
\* the number of clients that hold the listener, and none is freed under one.
THEOREM ListenersAreHeld == Spec => []ListenerRefs
<1>1. Init => ListenerInd
  <2>1. ASSUME Init PROVE ListenerInd
    <3>1. \A l \in Listener : {c \in Client : listener_of[c] = l} = {}
      BY <2>1, ConnAssumption DEF Init
    <3> QED
      BY <2>1, <3>1, FS_EmptySet DEF Init, ListenerInd, ListenerRefs
  <2> QED
    BY <2>1
<1>2. ListenerInd => ListenerRefs
  BY DEF ListenerInd
<1> QED
  BY <1>1, <1>2, ListenerIndInductive, Invariance, PTL DEF Spec
=============================================================================
