------------------------- MODULE AuthResolver_proof -------------------------
(***************************************************************************)
(* Proofs about AuthResolver, for every finite set of clients, every       *)
(* number of retries, and whatever restart_resolver and the commands of a  *)
(* released client do.                                                     *)
(***************************************************************************)
EXTENDS AuthResolver, TLAPS

\* What AuthInv says of the requests of one client.
LEMMA RequestFacts ==
    /\ \A c \in Client : <<c, "ptr">> \in Request /\ <<c, "fwd">> \in Request
    /\ \A r \in Request : r[1] \in Client /\ (r = <<r[1], "ptr">> \/ r = <<r[1], "fwd">>)
    /\ \A c, d \in Client : /\ <<c, "ptr">> = <<d, "ptr">> <=> c = d
                          /\ <<c, "fwd">> = <<d, "fwd">> <=> c = d
                          /\ <<c, "ptr">> # <<d, "fwd">>
                          /\ <<c, "ptr">>[1] = c /\ <<c, "fwd">>[1] = c
                          /\ <<c, "ptr">>[2] = "ptr" /\ <<c, "fwd">>[2] = "fwd"
    /\ NULL \notin Request /\ NULL \notin Client
    /\ Retries \in Nat \ {0}
  BY AuthAssumption DEF Request

\* start_auth begins.
LEMMA StartAuthInv ==
    ASSUME AuthInv, NEW c \in Client, NEW ident \in BOOLEAN, StartAuth(c, ident)
    PROVE  AuthInv'
  <1> USE RequestFacts DEF StartAuth, Idle, clientVars, authVars, identVars, dnsVars, requestVars, stackVars
  <1>1. TypeOK'
    BY DEF AuthInv, TypeOK, AuthShape, OneLookup, NoLimbo, RemovedOnce, StackInv, Requests
  <1>2. AuthShape'
    BY DEF AuthInv, TypeOK, AuthShape, OneLookup, NoLimbo, RemovedOnce, StackInv, Requests
  <1>3. OneLookup'
    BY DEF AuthInv, TypeOK, AuthShape, OneLookup, NoLimbo, RemovedOnce, StackInv, Requests
  <1>4. NoLimbo'
    BY DEF AuthInv, TypeOK, AuthShape, OneLookup, NoLimbo, RemovedOnce, StackInv, Requests
  <1>5. RemovedOnce'
    BY DEF AuthInv, TypeOK, AuthShape, OneLookup, NoLimbo, RemovedOnce, StackInv, Requests
  <1>6. StackInv'
    BY DEF AuthInv, TypeOK, AuthShape, OneLookup, NoLimbo, RemovedOnce, StackInv, Requests
  <1> QED
    BY <1>1, <1>2, <1>3, <1>4, <1>5, <1>6 DEF AuthInv

\* start_auth ends.
LEMMA StartDnsInv ==
    ASSUME AuthInv, NEW c \in Client, StartDns(c)
    PROVE  AuthInv'
  <1> USE RequestFacts DEF StartDns, clientVars, authVars, identVars, dnsVars, requestVars, stackVars
  <1>a. {<<c, "ptr">>} \subseteq Request
    BY DEF Request
  <1>b. /\ request_list' = (request_list \cup {<<c, "ptr">>}) \ {}
        /\ request_list' \subseteq Request /\ fellback' \subseteq Request
        /\ fellback' = fellback \ ({<<c, "ptr">>} \cup {})
        /\ retries' \in [Request -> 0..Retries]
        /\ \A r \in Request : r \notin {<<c, "ptr">>} /\ r \notin {} => retries'[r] = retries[r]
        /\ \A r \in {<<c, "ptr">>} : r \notin {} => retries'[r] = Retries
    BY <1>a DEF ChangeRequests, AuthInv, TypeOK
  <1>1. TypeOK'
    BY <1>b DEF AuthInv, TypeOK, AuthShape, OneLookup, NoLimbo, RemovedOnce, StackInv, Requests
  <1>2. AuthShape'
    BY DEF AuthInv, TypeOK, AuthShape, OneLookup, NoLimbo, RemovedOnce, StackInv, Requests
  <1>3. OneLookup'
    <2>1. SUFFICES ASSUME NEW d \in Client
                 PROVE  LET open == request_list' \ {answered'} IN
                        IF d \in auth_doing_dns_list'
                        THEN <<d, "ptr">> \in open <=> <<d, "fwd">> \notin open
                        ELSE <<d, "ptr">> \notin open /\ <<d, "fwd">> \notin open
      BY DEF OneLookup
    <2>2. CASE d = c
      BY <2>2, <1>b DEF AuthInv, TypeOK, AuthShape, OneLookup, NoLimbo, RemovedOnce, StackInv, Requests
    <2>3. CASE d # c
      BY <2>3, <1>b DEF AuthInv, TypeOK, AuthShape, OneLookup, NoLimbo, RemovedOnce, StackInv, Requests
    <2> QED BY <2>2, <2>3 DEF AuthInv, TypeOK, AuthShape, OneLookup, NoLimbo, RemovedOnce, StackInv, Requests
  <1>4. NoLimbo'
    BY DEF AuthInv, TypeOK, AuthShape, OneLookup, NoLimbo, RemovedOnce, StackInv, Requests
  <1>5. RemovedOnce'
    BY DEF AuthInv, TypeOK, AuthShape, OneLookup, NoLimbo, RemovedOnce, StackInv, Requests
  <1>6. StackInv'
    BY DEF AuthInv, TypeOK, AuthShape, OneLookup, NoLimbo, RemovedOnce, StackInv, Requests
  <1> QED
    BY <1>1, <1>2, <1>3, <1>4, <1>5, <1>6 DEF AuthInv

\* Ident fails.
LEMMA AuthErrorInv ==
    ASSUME AuthInv, NEW c \in Client, AuthError(c)
    PROVE  AuthInv'
  <1> USE RequestFacts DEF AuthError, MayConnect, Idle, EndIdent, IsLastIdent, ReleaseAuthClient, clientVars, authVars, identVars, dnsVars, requestVars, stackVars
  <1>1. TypeOK'
    BY DEF AuthInv, TypeOK, AuthShape, OneLookup, NoLimbo, RemovedOnce, StackInv, Requests
  <1>2. AuthShape'
    BY DEF AuthInv, TypeOK, AuthShape, OneLookup, NoLimbo, RemovedOnce, StackInv, Requests
  <1>3. OneLookup'
    BY DEF AuthInv, TypeOK, AuthShape, OneLookup, NoLimbo, RemovedOnce, StackInv, Requests
  <1>4. NoLimbo'
    BY DEF AuthInv, TypeOK, AuthShape, OneLookup, NoLimbo, RemovedOnce, StackInv, Requests
  <1>5. RemovedOnce'
    BY DEF AuthInv, TypeOK, AuthShape, OneLookup, NoLimbo, RemovedOnce, StackInv, Requests
  <1>6. StackInv'
    BY DEF AuthInv, TypeOK, AuthShape, OneLookup, NoLimbo, RemovedOnce, StackInv, Requests
  <1> QED
    BY <1>1, <1>2, <1>3, <1>4, <1>5, <1>6 DEF AuthInv

\* Ident is connected.
LEMMA AuthConnectCallbackInv ==
    ASSUME AuthInv, NEW c \in Client, AuthConnectCallback(c)
    PROVE  AuthInv'
  <1> USE RequestFacts DEF AuthConnectCallback, MayConnect, Idle, clientVars, authVars, identVars, dnsVars, requestVars, stackVars
  <1>1. TypeOK'
    BY DEF AuthInv, TypeOK, AuthShape, OneLookup, NoLimbo, RemovedOnce, StackInv, Requests
  <1>2. AuthShape'
    BY DEF AuthInv, TypeOK, AuthShape, OneLookup, NoLimbo, RemovedOnce, StackInv, Requests
  <1>3. OneLookup'
    BY DEF AuthInv, TypeOK, AuthShape, OneLookup, NoLimbo, RemovedOnce, StackInv, Requests
  <1>4. NoLimbo'
    BY DEF AuthInv, TypeOK, AuthShape, OneLookup, NoLimbo, RemovedOnce, StackInv, Requests
  <1>5. RemovedOnce'
    BY DEF AuthInv, TypeOK, AuthShape, OneLookup, NoLimbo, RemovedOnce, StackInv, Requests
  <1>6. StackInv'
    BY DEF AuthInv, TypeOK, AuthShape, OneLookup, NoLimbo, RemovedOnce, StackInv, Requests
  <1> QED
    BY <1>1, <1>2, <1>3, <1>4, <1>5, <1>6 DEF AuthInv

\* Ident answers.
LEMMA ReadAuthReplyInv ==
    ASSUME AuthInv, NEW c \in Client, ReadAuthReply(c)
    PROVE  AuthInv'
  <1> USE RequestFacts DEF ReadAuthReply, Idle, EndIdent, IsLastIdent, ReleaseAuthClient, clientVars, authVars, identVars, dnsVars, requestVars, stackVars
  <1>1. TypeOK'
    BY DEF AuthInv, TypeOK, AuthShape, OneLookup, NoLimbo, RemovedOnce, StackInv, Requests
  <1>2. AuthShape'
    BY DEF AuthInv, TypeOK, AuthShape, OneLookup, NoLimbo, RemovedOnce, StackInv, Requests
  <1>3. OneLookup'
    BY DEF AuthInv, TypeOK, AuthShape, OneLookup, NoLimbo, RemovedOnce, StackInv, Requests
  <1>4. NoLimbo'
    BY DEF AuthInv, TypeOK, AuthShape, OneLookup, NoLimbo, RemovedOnce, StackInv, Requests
  <1>5. RemovedOnce'
    BY DEF AuthInv, TypeOK, AuthShape, OneLookup, NoLimbo, RemovedOnce, StackInv, Requests
  <1>6. StackInv'
    BY DEF AuthInv, TypeOK, AuthShape, OneLookup, NoLimbo, RemovedOnce, StackInv, Requests
  <1> QED
    BY <1>1, <1>2, <1>3, <1>4, <1>5, <1>6 DEF AuthInv

\* A request whose callback ran is removed.
LEMMA RemRequestInv ==
    ASSUME AuthInv, RemRequest
    PROVE  AuthInv'
  <1> USE RequestFacts DEF RemRequest, clientVars, authVars, identVars, dnsVars, requestVars, stackVars
  <1>a. {answered} \subseteq Request
    BY DEF AuthInv, TypeOK
  <1>b. /\ request_list' = (request_list \cup {}) \ {answered}
        /\ request_list' \subseteq Request /\ fellback' \subseteq Request
        /\ fellback' = fellback \ ({} \cup {answered})
        /\ retries' \in [Request -> 0..Retries]
        /\ \A r \in Request : r \notin {} /\ r \notin {answered} => retries'[r] = retries[r]
        /\ \A r \in {} : r \notin {answered} => retries'[r] = Retries
    BY <1>a DEF ChangeRequests, AuthInv, TypeOK
  <1>1. TypeOK'
    BY <1>b DEF AuthInv, TypeOK, AuthShape, OneLookup, NoLimbo, RemovedOnce, StackInv, Requests
  <1>2. AuthShape'
    BY DEF AuthInv, TypeOK, AuthShape, OneLookup, NoLimbo, RemovedOnce, StackInv, Requests
  <1>3. OneLookup'
    <2>1. SUFFICES ASSUME NEW d \in Client
                 PROVE  LET open == request_list' \ {answered'} IN
                        IF d \in auth_doing_dns_list'
                        THEN <<d, "ptr">> \in open <=> <<d, "fwd">> \notin open
                        ELSE <<d, "ptr">> \notin open /\ <<d, "fwd">> \notin open
      BY DEF OneLookup
    <2>2. CASE d = answered[1]
      BY <2>2, <1>b DEF AuthInv, TypeOK, AuthShape, OneLookup, NoLimbo, RemovedOnce, StackInv, Requests
    <2>3. CASE d # answered[1]
      BY <2>3, <1>b DEF AuthInv, TypeOK, AuthShape, OneLookup, NoLimbo, RemovedOnce, StackInv, Requests
    <2> QED BY <2>2, <2>3 DEF AuthInv, TypeOK, AuthShape, OneLookup, NoLimbo, RemovedOnce, StackInv, Requests
  <1>4. NoLimbo'
    BY DEF AuthInv, TypeOK, AuthShape, OneLookup, NoLimbo, RemovedOnce, StackInv, Requests
  <1>5. RemovedOnce'
    BY <1>b DEF AuthInv, TypeOK, AuthShape, OneLookup, NoLimbo, RemovedOnce, StackInv, Requests
  <1>6. StackInv'
    BY DEF AuthInv, TypeOK, AuthShape, OneLookup, NoLimbo, RemovedOnce, StackInv, Requests
  <1> QED
    BY <1>1, <1>2, <1>3, <1>4, <1>5, <1>6 DEF AuthInv

\* The resolver is answered.
LEMMA ReplyEndsInv ==
    ASSUME AuthInv, NEW r \in Request, ReplyEnds(r)
    PROVE  AuthInv'
  <1> USE RequestFacts DEF ReplyEnds, Replied, Idle, AuthDnsCallback, ReleaseAuthClient, clientVars, authVars, identVars, dnsVars, requestVars, stackVars
  <1>a. r \in request_list \ {answered} /\ r \in Request
    BY DEF AuthInv, TypeOK
  <1>b. r[1] \in Client /\ (r = <<r[1], "ptr">> \/ r = <<r[1], "fwd">>)
    BY <1>a
  <1>c. r[1] \in auth_doing_dns_list
    <2>1. r[1] \notin auth_doing_dns_list =>
             /\ <<r[1], "ptr">> \notin request_list \ {answered}
             /\ <<r[1], "fwd">> \notin request_list \ {answered}
      BY <1>b DEF AuthInv, OneLookup
    <2> QED BY <2>1, <1>a, <1>b
  <1>r. /\ r \in request_list /\ r[1] \in Client
        /\ r = <<r[1], "ptr">> \/ r = <<r[1], "fwd">>
        /\ r[1] \in auth_doing_dns_list
    BY <1>a, <1>b, <1>c
  <1>1. TypeOK'
    BY DEF AuthInv, TypeOK, AuthShape, OneLookup, NoLimbo, RemovedOnce, StackInv, Requests
  <1>2. AuthShape'
    BY <1>r DEF AuthInv, TypeOK, AuthShape, OneLookup, NoLimbo, RemovedOnce, StackInv, Requests
  <1>3. OneLookup'
    <2>1. SUFFICES ASSUME NEW d \in Client
                 PROVE  LET open == request_list' \ {answered'} IN
                        IF d \in auth_doing_dns_list'
                        THEN <<d, "ptr">> \in open <=> <<d, "fwd">> \notin open
                        ELSE <<d, "ptr">> \notin open /\ <<d, "fwd">> \notin open
      BY DEF OneLookup
    <2>2. CASE d = r[1]
      BY <2>2, <1>r DEF AuthInv, TypeOK, AuthShape, OneLookup, NoLimbo, RemovedOnce, StackInv, Requests
    <2>3. CASE d # r[1]
      BY <2>3, <1>r DEF AuthInv, TypeOK, AuthShape, OneLookup, NoLimbo, RemovedOnce, StackInv, Requests
    <2> QED BY <2>2, <2>3 DEF AuthInv, TypeOK, AuthShape, OneLookup, NoLimbo, RemovedOnce, StackInv, Requests
  <1>4. NoLimbo'
    BY <1>r DEF AuthInv, TypeOK, AuthShape, OneLookup, NoLimbo, RemovedOnce, StackInv, Requests
  <1>5. RemovedOnce'
    BY DEF AuthInv, TypeOK, AuthShape, OneLookup, NoLimbo, RemovedOnce, StackInv, Requests
  <1>6. StackInv'
    BY <1>r DEF AuthInv, TypeOK, AuthShape, OneLookup, NoLimbo, RemovedOnce, StackInv, Requests
  <1> QED
    BY <1>1, <1>2, <1>3, <1>4, <1>5, <1>6 DEF AuthInv

\* The resolver learns a name.
LEMMA ReplyNameInv ==
    ASSUME AuthInv, NEW c \in Client, ReplyName(c)
    PROVE  AuthInv'
  <1> USE RequestFacts DEF ReplyName, Replied, Idle, clientVars, authVars, identVars, dnsVars, requestVars, stackVars
  <1>a. {<<c, "fwd">>} \subseteq Request /\ {<<c, "ptr">>} \subseteq Request
    BY DEF AuthInv, TypeOK
  <1>b. /\ request_list' = (request_list \cup {<<c, "fwd">>}) \ {<<c, "ptr">>}
        /\ request_list' \subseteq Request /\ fellback' \subseteq Request
        /\ fellback' = fellback \ ({<<c, "fwd">>} \cup {<<c, "ptr">>})
        /\ retries' \in [Request -> 0..Retries]
        /\ \A r \in Request : r \notin {<<c, "fwd">>} /\ r \notin {<<c, "ptr">>} => retries'[r] = retries[r]
        /\ \A r \in {<<c, "fwd">>} : r \notin {<<c, "ptr">>} => retries'[r] = Retries
    BY <1>a DEF ChangeRequests, AuthInv, TypeOK
  <1>1. TypeOK'
    BY <1>b DEF AuthInv, TypeOK, AuthShape, OneLookup, NoLimbo, RemovedOnce, StackInv, Requests
  <1>2. AuthShape'
    BY DEF AuthInv, TypeOK, AuthShape, OneLookup, NoLimbo, RemovedOnce, StackInv, Requests
  <1>3. OneLookup'
    <2>1. SUFFICES ASSUME NEW d \in Client
                 PROVE  LET open == request_list' \ {answered'} IN
                        IF d \in auth_doing_dns_list'
                        THEN <<d, "ptr">> \in open <=> <<d, "fwd">> \notin open
                        ELSE <<d, "ptr">> \notin open /\ <<d, "fwd">> \notin open
      BY DEF OneLookup
    <2>2. CASE d = c
      BY <2>2, <1>b DEF AuthInv, TypeOK, AuthShape, OneLookup, NoLimbo, RemovedOnce, StackInv, Requests
    <2>3. CASE d # c
      BY <2>3, <1>b DEF AuthInv, TypeOK, AuthShape, OneLookup, NoLimbo, RemovedOnce, StackInv, Requests
    <2> QED BY <2>2, <2>3 DEF AuthInv, TypeOK, AuthShape, OneLookup, NoLimbo, RemovedOnce, StackInv, Requests
  <1>4. NoLimbo'
    BY DEF AuthInv, TypeOK, AuthShape, OneLookup, NoLimbo, RemovedOnce, StackInv, Requests
  <1>5. RemovedOnce'
    BY <1>b DEF AuthInv, TypeOK, AuthShape, OneLookup, NoLimbo, RemovedOnce, StackInv, Requests
  <1>6. StackInv'
    BY DEF AuthInv, TypeOK, AuthShape, OneLookup, NoLimbo, RemovedOnce, StackInv, Requests
  <1> QED
    BY <1>1, <1>2, <1>3, <1>4, <1>5, <1>6 DEF AuthInv

\* An IPv6 lookup falls back.
LEMMA ReplyFallsBackInv ==
    ASSUME AuthInv, NEW r \in Request, ReplyFallsBack(r)
    PROVE  AuthInv'
  <1> USE RequestFacts DEF ReplyFallsBack, Replied, Idle, OneLess, clientVars, authVars, identVars, dnsVars, requestVars, stackVars
  <1>1. TypeOK'
    BY DEF AuthInv, TypeOK, AuthShape, OneLookup, NoLimbo, RemovedOnce, StackInv, Requests
  <1>2. AuthShape'
    BY DEF AuthInv, TypeOK, AuthShape, OneLookup, NoLimbo, RemovedOnce, StackInv, Requests
  <1>3. OneLookup'
    BY DEF AuthInv, TypeOK, AuthShape, OneLookup, NoLimbo, RemovedOnce, StackInv, Requests
  <1>4. NoLimbo'
    BY DEF AuthInv, TypeOK, AuthShape, OneLookup, NoLimbo, RemovedOnce, StackInv, Requests
  <1>5. RemovedOnce'
    BY DEF AuthInv, TypeOK, AuthShape, OneLookup, NoLimbo, RemovedOnce, StackInv, Requests
  <1>6. StackInv'
    BY DEF AuthInv, TypeOK, AuthShape, OneLookup, NoLimbo, RemovedOnce, StackInv, Requests
  <1> QED
    BY <1>1, <1>2, <1>3, <1>4, <1>5, <1>6 DEF AuthInv

\* A lookup forgets its fallback.
LEMMA ReplyCnameInv ==
    ASSUME AuthInv, NEW c \in Client, ReplyCname(c)
    PROVE  AuthInv'
  <1> USE RequestFacts DEF ReplyCname, Replied, Idle, clientVars, authVars, identVars, dnsVars, requestVars, stackVars
  <1>1. TypeOK'
    BY DEF AuthInv, TypeOK, AuthShape, OneLookup, NoLimbo, RemovedOnce, StackInv, Requests
  <1>2. AuthShape'
    BY DEF AuthInv, TypeOK, AuthShape, OneLookup, NoLimbo, RemovedOnce, StackInv, Requests
  <1>3. OneLookup'
    BY DEF AuthInv, TypeOK, AuthShape, OneLookup, NoLimbo, RemovedOnce, StackInv, Requests
  <1>4. NoLimbo'
    BY DEF AuthInv, TypeOK, AuthShape, OneLookup, NoLimbo, RemovedOnce, StackInv, Requests
  <1>5. RemovedOnce'
    BY DEF AuthInv, TypeOK, AuthShape, OneLookup, NoLimbo, RemovedOnce, StackInv, Requests
  <1>6. StackInv'
    BY DEF AuthInv, TypeOK, AuthShape, OneLookup, NoLimbo, RemovedOnce, StackInv, Requests
  <1> QED
    BY <1>1, <1>2, <1>3, <1>4, <1>5, <1>6 DEF AuthInv

\* The resolver is restarted.
LEMMA RestartResolverInv ==
    ASSUME AuthInv, NEW opened \in BOOLEAN, RestartResolver(opened)
    PROVE  AuthInv'
  <1> USE RequestFacts DEF RestartResolver, Idle, clientVars, authVars, identVars, dnsVars, requestVars, stackVars
  <1>1. TypeOK'
    BY DEF AuthInv, TypeOK, AuthShape, OneLookup, NoLimbo, RemovedOnce, StackInv, Requests
  <1>2. AuthShape'
    BY DEF AuthInv, TypeOK, AuthShape, OneLookup, NoLimbo, RemovedOnce, StackInv, Requests
  <1>3. OneLookup'
    BY DEF AuthInv, TypeOK, AuthShape, OneLookup, NoLimbo, RemovedOnce, StackInv, Requests
  <1>4. NoLimbo'
    BY DEF AuthInv, TypeOK, AuthShape, OneLookup, NoLimbo, RemovedOnce, StackInv, Requests
  <1>5. RemovedOnce'
    BY DEF AuthInv, TypeOK, AuthShape, OneLookup, NoLimbo, RemovedOnce, StackInv, Requests
  <1>6. StackInv'
    BY DEF AuthInv, TypeOK, AuthShape, OneLookup, NoLimbo, RemovedOnce, StackInv, Requests
  <1> QED
    BY <1>1, <1>2, <1>3, <1>4, <1>5, <1>6 DEF AuthInv

\* Ident times out.
LEMMA TimeoutAuthInv ==
    ASSUME AuthInv, NEW c \in Client, TimeoutAuth(c)
    PROVE  AuthInv'
  <1> USE RequestFacts DEF TimeoutAuth, AtLap, Advance, Heads, IdentNodes, Node, IdentNode, ReleaseAuthClient, ChangeRequests, clientVars, authVars, identVars, dnsVars, requestVars, stackVars
  <1>1. TypeOK'
    BY DEF AuthInv, TypeOK, AuthShape, OneLookup, NoLimbo, RemovedOnce, StackInv, Requests
  <1>2. AuthShape'
    BY DEF AuthInv, TypeOK, AuthShape, OneLookup, NoLimbo, RemovedOnce, StackInv, Requests
  <1>3. OneLookup'
    <2>1. SUFFICES ASSUME NEW d \in Client
                 PROVE  LET open == request_list' \ {answered'} IN
                        IF d \in auth_doing_dns_list'
                        THEN <<d, "ptr">> \in open <=> <<d, "fwd">> \notin open
                        ELSE <<d, "ptr">> \notin open /\ <<d, "fwd">> \notin open
      BY DEF OneLookup
    <2>2. CASE d = c
      BY <2>2 DEF AuthInv, TypeOK, AuthShape, OneLookup, NoLimbo, RemovedOnce, StackInv, Requests
    <2>3. CASE d # c
      BY <2>3 DEF AuthInv, TypeOK, AuthShape, OneLookup, NoLimbo, RemovedOnce, StackInv, Requests
    <2> QED BY <2>2, <2>3 DEF AuthInv, TypeOK, AuthShape, OneLookup, NoLimbo, RemovedOnce, StackInv, Requests
  <1>4. NoLimbo'
    BY DEF AuthInv, TypeOK, AuthShape, OneLookup, NoLimbo, RemovedOnce, StackInv, Requests
  <1>5. RemovedOnce'
    BY DEF AuthInv, TypeOK, AuthShape, OneLookup, NoLimbo, RemovedOnce, StackInv, Requests
  <1>6. StackInv'
    BY DEF AuthInv, TypeOK, AuthShape, OneLookup, NoLimbo, RemovedOnce, StackInv, Requests
  <1> QED
    BY <1>1, <1>2, <1>3, <1>4, <1>5, <1>6 DEF AuthInv

\* DNS times out.
LEMMA GiveUpInv ==
    ASSUME AuthInv, NEW r \in Request, GiveUp(r)
    PROVE  AuthInv'
  <1> USE RequestFacts DEF GiveUp, AtLap, Advance, Heads, Node, AuthDnsCallback, ReleaseAuthClient, clientVars, authVars, identVars, dnsVars, requestVars, stackVars
  <1>a. r \in request_list \ {answered} /\ r \in Request
    BY DEF AuthInv, TypeOK
  <1>b. r[1] \in Client /\ (r = <<r[1], "ptr">> \/ r = <<r[1], "fwd">>)
    BY <1>a
  <1>c. r[1] \in auth_doing_dns_list
    <2>1. r[1] \notin auth_doing_dns_list =>
             /\ <<r[1], "ptr">> \notin request_list \ {answered}
             /\ <<r[1], "fwd">> \notin request_list \ {answered}
      BY <1>b DEF AuthInv, OneLookup
    <2> QED BY <2>1, <1>a, <1>b
  <1>r. /\ r \in request_list /\ r[1] \in Client
        /\ r = <<r[1], "ptr">> \/ r = <<r[1], "fwd">>
        /\ r[1] \in auth_doing_dns_list
    BY <1>a, <1>b, <1>c
  <1>1. TypeOK'
    BY DEF AuthInv, TypeOK, AuthShape, OneLookup, NoLimbo, RemovedOnce, StackInv, Requests
  <1>2. AuthShape'
    BY <1>r DEF AuthInv, TypeOK, AuthShape, OneLookup, NoLimbo, RemovedOnce, StackInv, Requests
  <1>3. OneLookup'
    <2>1. SUFFICES ASSUME NEW d \in Client
                 PROVE  LET open == request_list' \ {answered'} IN
                        IF d \in auth_doing_dns_list'
                        THEN <<d, "ptr">> \in open <=> <<d, "fwd">> \notin open
                        ELSE <<d, "ptr">> \notin open /\ <<d, "fwd">> \notin open
      BY DEF OneLookup
    <2>2. CASE d = r[1]
      BY <2>2, <1>r DEF AuthInv, TypeOK, AuthShape, OneLookup, NoLimbo, RemovedOnce, StackInv, Requests
    <2>3. CASE d # r[1]
      BY <2>3, <1>r DEF AuthInv, TypeOK, AuthShape, OneLookup, NoLimbo, RemovedOnce, StackInv, Requests
    <2> QED BY <2>2, <2>3 DEF AuthInv, TypeOK, AuthShape, OneLookup, NoLimbo, RemovedOnce, StackInv, Requests
  <1>4. NoLimbo'
    BY <1>r DEF AuthInv, TypeOK, AuthShape, OneLookup, NoLimbo, RemovedOnce, StackInv, Requests
  <1>5. RemovedOnce'
    BY DEF AuthInv, TypeOK, AuthShape, OneLookup, NoLimbo, RemovedOnce, StackInv, Requests
  <1>6. StackInv'
    BY <1>r DEF AuthInv, TypeOK, AuthShape, OneLookup, NoLimbo, RemovedOnce, StackInv, Requests
  <1> QED
    BY <1>1, <1>2, <1>3, <1>4, <1>5, <1>6 DEF AuthInv

\* DNS tries again.
LEMMA ResendInv ==
    ASSUME AuthInv, NEW r \in Request, Resend(r)
    PROVE  AuthInv'
  <1> USE RequestFacts DEF Resend, AtLap, Advance, Heads, Node, OneLess, clientVars, authVars, identVars, dnsVars, requestVars, stackVars
  <1>1. TypeOK'
    BY DEF AuthInv, TypeOK, AuthShape, OneLookup, NoLimbo, RemovedOnce, StackInv, Requests
  <1>2. AuthShape'
    BY DEF AuthInv, TypeOK, AuthShape, OneLookup, NoLimbo, RemovedOnce, StackInv, Requests
  <1>3. OneLookup'
    BY DEF AuthInv, TypeOK, AuthShape, OneLookup, NoLimbo, RemovedOnce, StackInv, Requests
  <1>4. NoLimbo'
    BY DEF AuthInv, TypeOK, AuthShape, OneLookup, NoLimbo, RemovedOnce, StackInv, Requests
  <1>5. RemovedOnce'
    BY DEF AuthInv, TypeOK, AuthShape, OneLookup, NoLimbo, RemovedOnce, StackInv, Requests
  <1>6. StackInv'
    BY DEF AuthInv, TypeOK, AuthShape, OneLookup, NoLimbo, RemovedOnce, StackInv, Requests
  <1> QED
    BY <1>1, <1>2, <1>3, <1>4, <1>5, <1>6 DEF AuthInv

\* A client exits.
LEMMA ExitClientInv ==
    ASSUME AuthInv, NEW c \in Client, ExitClient(c)
    PROVE  AuthInv'
  <1> USE RequestFacts DEF ExitClient, Idle, ExitClients, DeleteAuth, ChangeRequests, clientVars, authVars, identVars, dnsVars, requestVars, stackVars
  <1>1. TypeOK'
    BY DEF AuthInv, TypeOK, AuthShape, OneLookup, NoLimbo, RemovedOnce, StackInv, Requests
  <1>2. AuthShape'
    BY DEF AuthInv, TypeOK, AuthShape, OneLookup, NoLimbo, RemovedOnce, StackInv, Requests
  <1>3. OneLookup'
    BY DEF AuthInv, TypeOK, AuthShape, OneLookup, NoLimbo, RemovedOnce, StackInv, Requests
  <1>4. NoLimbo'
    BY DEF AuthInv, TypeOK, AuthShape, OneLookup, NoLimbo, RemovedOnce, StackInv, Requests
  <1>5. RemovedOnce'
    BY DEF AuthInv, TypeOK, AuthShape, OneLookup, NoLimbo, RemovedOnce, StackInv, Requests
  <1>6. StackInv'
    BY DEF AuthInv, TypeOK, AuthShape, OneLookup, NoLimbo, RemovedOnce, StackInv, Requests
  <1> QED
    BY <1>1, <1>2, <1>3, <1>4, <1>5, <1>6 DEF AuthInv

\* The commands of a released client.
LEMMA ReadPacketInv ==
    ASSUME AuthInv, NEW X \in SUBSET connected, ReadPacket(X)
    PROVE  AuthInv'
  <1> USE RequestFacts DEF ReadPacket, MayExit, ExitClients, DeleteAuth, ChangeRequests, clientVars, authVars, identVars, dnsVars, requestVars, stackVars
  <1>1. TypeOK'
    BY DEF AuthInv, TypeOK, AuthShape, OneLookup, NoLimbo, RemovedOnce, StackInv, Requests
  <1>2. AuthShape'
    BY DEF AuthInv, TypeOK, AuthShape, OneLookup, NoLimbo, RemovedOnce, StackInv, Requests
  <1>3. OneLookup'
    BY DEF AuthInv, TypeOK, AuthShape, OneLookup, NoLimbo, RemovedOnce, StackInv, Requests
  <1>4. NoLimbo'
    BY DEF AuthInv, TypeOK, AuthShape, OneLookup, NoLimbo, RemovedOnce, StackInv, Requests
  <1>5. RemovedOnce'
    BY DEF AuthInv, TypeOK, AuthShape, OneLookup, NoLimbo, RemovedOnce, StackInv, Requests
  <1>6. StackInv'
    BY DEF AuthInv, TypeOK, AuthShape, OneLookup, NoLimbo, RemovedOnce, StackInv, Requests
  <1> QED
    BY <1>1, <1>2, <1>3, <1>4, <1>5, <1>6 DEF AuthInv

\* A step of a timeout loop that leaves its node alone keeps AuthInv.
LEMMA WalkOnly ==
    ASSUME AuthInv,
           walk' \in {"none", "ident", "dns"}, next' \in Node \cup {NULL}, rest' \subseteq Node,
           starting = NULL,
           UNCHANGED <<clientVars, authVars, identVars, dnsVars, requestVars, resolver_up,
                       starting, reading, answered>>
    PROVE  AuthInv'
  <1> USE RequestFacts DEF clientVars, authVars, identVars, dnsVars, requestVars
  <1>1. TypeOK'
    BY DEF AuthInv, TypeOK
  <1>2. AuthShape' /\ OneLookup' /\ NoLimbo' /\ RemovedOnce'
    BY DEF AuthInv, AuthShape, OneLookup, NoLimbo, RemovedOnce
  <1>3. StackInv'
    BY DEF AuthInv, StackInv
  <1> QED
    BY <1>1, <1>2, <1>3 DEF AuthInv

\* A loop begins, passes a node by, or ends.
LEMMA WalksInv ==
    ASSUME AuthInv,
           \/ BeginAuthTimeouts \/ BeginResolverTimeouts \/ EndWalk
           \/ \E n \in IdentNode : NotTimedOutYet(n)
           \/ \E r \in Request : NotLateYet(r)
    PROVE  AuthInv'
  <1> USE RequestFacts DEF Skip, AuthInv, TypeOK, StackInv
  <1>1. IdentNodes \subseteq Node /\ request_list \subseteq Node
    BY DEF IdentNodes, Node, IdentNode
  <1>2. CASE BeginAuthTimeouts
    <2>1. next' \in IdentNodes /\ rest' \subseteq IdentNodes /\ walk' = "ident"
      BY <1>2 DEF BeginAuthTimeouts, Begin
    <2> QED BY <1>1, <1>2, <2>1, WalkOnly DEF BeginAuthTimeouts, Begin, Idle
  <1>3. CASE BeginResolverTimeouts
    <2>1. next' \in request_list /\ rest' \subseteq request_list /\ walk' = "dns"
      BY <1>3 DEF BeginResolverTimeouts, Begin
    <2> QED BY <1>1, <1>3, <2>1, WalkOnly DEF BeginResolverTimeouts, Begin, Idle
  <1>4. CASE EndWalk
    <2>1. starting = NULL
      BY <1>4 DEF EndWalk
    <2> QED BY <1>4, <2>1, WalkOnly DEF EndWalk
  <1>5. ASSUME NEW n \in IdentNode, NotTimedOutYet(n) PROVE AuthInv'
    <2>1. next' \in Node \cup {NULL} /\ rest' \subseteq Node /\ walk' = walk /\ starting = NULL
      BY <1>5 DEF NotTimedOutYet, AtLap, Advance, Heads
    <2> QED BY <1>5, <2>1, WalkOnly DEF NotTimedOutYet
  <1>6. ASSUME NEW r \in Request, NotLateYet(r) PROVE AuthInv'
    <2>1. next' \in Node \cup {NULL} /\ rest' \subseteq Node /\ walk' = walk /\ starting = NULL
      BY <1>6 DEF NotLateYet, AtLap, Advance, Heads
    <2> QED BY <1>6, <2>1, WalkOnly DEF NotLateYet
  <1> QED
    BY <1>2, <1>3, <1>4, <1>5, <1>6

-----------------------------------------------------------------------------
\* AuthInv holds when the ircd starts.
LEMMA InitInv == Init => AuthInv
  BY RequestFacts DEF Init, AuthInv, TypeOK, AuthShape, OneLookup, NoLimbo, RemovedOnce, StackInv

\* Every step keeps AuthInv.
LEMMA NextInv == AuthInv /\ [Next]_vars => AuthInv'
  <1> SUFFICES ASSUME AuthInv, [Next]_vars PROVE AuthInv'
    OBVIOUS
  <1>1. ASSUME NEW c \in Client, IdentNext(c) PROVE AuthInv'
    BY <1>1, StartAuthInv, StartDnsInv, AuthErrorInv, AuthConnectCallbackInv, ReadAuthReplyInv,
       ReplyNameInv, ReplyCnameInv, TimeoutAuthInv, ExitClientInv DEF IdentNext
  <1>2. ASSUME NEW r \in Request, RequestNext(r) PROVE AuthInv'
    BY <1>2, ReplyEndsInv, ReplyFallsBackInv, WalksInv, GiveUpInv, ResendInv DEF RequestNext
  <1>3. CASE LoopNext
    BY <1>3, RemRequestInv, WalksInv, RestartResolverInv, ReadPacketInv DEF LoopNext
  <1>4. CASE UNCHANGED vars
    BY <1>4 DEF vars, clientVars, authVars, identVars, dnsVars, requestVars, stackVars, AuthInv,
       TypeOK, AuthShape, OneLookup, NoLimbo, RemovedOnce, StackInv
  <1> QED
    BY <1>1, <1>2, <1>3, <1>4 DEF Next

\* The lists, flags, sockets and requests of the auth system agree whatever
\* the order of answers, errors, timeouts and exits.
THEOREM AuthInvariance == Spec => []AuthInv
  BY InitInv, NextInv, PTL DEF Spec

\* Every variable keeps its type; the retries of a lookup never go
\* below zero.
THEOREM TypeCorrect == Spec => []TypeOK
  <1>1. AuthInv => TypeOK BY DEF AuthInv
  <1> QED BY <1>1, AuthInvariance, PTL

\* An AuthRequest is where its flags say, and is freed with the last of them.
THEOREM ShapeHolds == Spec => []AuthShape
  <1>1. AuthInv => AuthShape BY DEF AuthInv
  <1> QED BY <1>1, AuthInvariance, PTL

\* Whenever res_readreply or timeout_query_list can call auth_dns_callback,
\* the AuthRequest it is given is there and waits for that request.
THEOREM CallbackFinds == Spec => []OneLookup
  <1>1. AuthInv => OneLookup BY DEF AuthInv
  <1> QED BY <1>1, AuthInvariance, PTL

\* A connection is waited for exactly until it is released.
THEOREM NobodyForgotten == Spec => []NoLimbo
  <1>1. AuthInv => NoLimbo BY DEF AuthInv
  <1> QED BY <1>1, AuthInvariance, PTL

\* rem_request after a callback finds the request still on request_list.
THEOREM RemovesOnce == Spec => []RemovedOnce
  <1>1. AuthInv => RemovedOnce BY DEF AuthInv
  <1> QED BY <1>1, AuthInvariance, PTL

-----------------------------------------------------------------------------
\* What a walk knows of its saved node, beyond NextLinked: the nodes behind it
\* are others, and it is not the one whose callback runs.
WalkInv ==
    /\ NextLinked
    /\ next \notin rest
    /\ walk = "dns" /\ answered # NULL => answered # next

\* Moving on to the next node keeps WalkInv's first two parts when the lists
\* lose at most the node worked on.
LEMMA AdvanceKeeps ==
    ASSUME TypeOK, next \notin rest, NEW n \in Node, NEW list \in SUBSET Node, Advance(n, list)
    PROVE  /\ next' \notin rest' /\ next' # n /\ walk' = walk
           /\ next' # NULL => next' \in list
  BY RequestFacts, AuthAssumption DEF TypeOK, Advance, Heads, Node, IdentNode, Request

\* When no walk is under way, a handler that begins none keeps WalkInv.
LEMMA NoWalk ==
    ASSUME WalkInv, walk = "none", UNCHANGED <<walk, next, rest>>
    PROVE  WalkInv'
  BY DEF WalkInv, NextLinked

\* NICK, KILL and QUIT run by a released client do not change the lists.
LEMMA ReadPacketKeeps ==
    ASSUME AuthInv, WalkInv, CloseOnRelease = FALSE, NEW X \in SUBSET connected, ReadPacket(X)
    PROVE  WalkInv'
  <1>1. X \cap auth_doing_ident_list = {} /\ X \cap auth_doing_dns_list = {}
    BY DEF ReadPacket, MayExit, AuthInv, NoLimbo
  <1>2. Requests(X \cap dns_query \cap auth_doing_dns_list) = {}
    BY <1>1 DEF Requests
  <1>3. request_list' = request_list /\ auth_doing_ident_list' = auth_doing_ident_list
    BY <1>1, <1>2 DEF ReadPacket, ExitClients, DeleteAuth, ChangeRequests
  <1> QED
    BY <1>3 DEF WalkInv, NextLinked, IdentNodes, ReadPacket

\* Unless the client just released may run CLOSE, WalkInv is inductive.
LEMMA WalkNext ==
    ASSUME AuthInv, WalkInv, CloseOnRelease = FALSE, [Next]_vars
    PROVE  WalkInv'
  <1> USE RequestFacts DEF AuthInv
  <1>1. ASSUME NEW c \in Client, NEW ident \in BOOLEAN, StartAuth(c, ident) PROVE WalkInv'
    BY <1>1, NoWalk DEF StartAuth, Idle
  <1>2. ASSUME NEW c \in Client, StartDns(c) PROVE WalkInv'
    BY <1>2, NoWalk DEF StartDns, StackInv
  <1>3. ASSUME NEW c \in Client, AuthError(c) \/ AuthConnectCallback(c) PROVE WalkInv'
    BY <1>3, NoWalk DEF AuthError, AuthConnectCallback, MayConnect, Idle, EndIdent, StackInv,
       stackVars
  <1>4. ASSUME NEW c \in Client, ReadAuthReply(c) PROVE WalkInv'
    BY <1>4, NoWalk DEF ReadAuthReply, Idle, EndIdent
  <1>5. ASSUME NEW c \in Client, ReplyName(c) \/ ReplyCname(c) PROVE WalkInv'
    BY <1>5, NoWalk DEF ReplyName, ReplyCname, Replied, Idle, stackVars
  <1>6. ASSUME NEW c \in Client, TimeoutAuth(c) PROVE WalkInv'
    <2>1. <<c, "ident">> \in Node /\ IdentNodes \in SUBSET Node
      BY DEF IdentNodes, Node, IdentNode, TypeOK
    <2>2. /\ next' \notin rest' /\ next' # <<c, "ident">> /\ walk' = "ident"
          /\ next' # NULL => next' \in IdentNodes
      BY <1>6, <2>1, AdvanceKeeps DEF TimeoutAuth, AtLap, WalkInv
    <2>3. IdentNodes' = IdentNodes \ {<<c, "ident">>}
      BY <1>6 DEF TimeoutAuth, IdentNodes
    <2> QED BY <2>2, <2>3 DEF WalkInv, NextLinked
  <1>7. ASSUME NEW c \in Client, ExitClient(c) PROVE WalkInv'
    BY <1>7, NoWalk DEF ExitClient, Idle, stackVars
  <1>8. ASSUME NEW r \in Request, ReplyEnds(r) \/ ReplyFallsBack(r) PROVE WalkInv'
    BY <1>8, NoWalk DEF ReplyEnds, ReplyFallsBack, Replied, Idle, stackVars
  <1>9. ASSUME NEW r \in Request, NotLateYet(r) \/ GiveUp(r) \/ Resend(r) PROVE WalkInv'
    <2>1. r \in Node /\ request_list \in SUBSET Node
      BY DEF Node, TypeOK
    <2>2. Advance(r, request_list) /\ walk = "dns" /\ next = r
      BY <1>9 DEF NotLateYet, GiveUp, Resend, AtLap, Advance
    <2>3. /\ next' \notin rest' /\ next' # r /\ walk' = "dns"
          /\ next' # NULL => next' \in request_list
      BY <2>1, <2>2, AdvanceKeeps DEF WalkInv
    <2>4. request_list' = request_list /\ (answered' = r \/ answered' = NULL)
      BY <1>9 DEF NotLateYet, GiveUp, Resend, AtLap, Skip, requestVars, AuthDnsCallback
    <2> QED BY <2>3, <2>4 DEF WalkInv, NextLinked
  <1>10. CASE RemRequest
    BY <1>10 DEF RemRequest, ChangeRequests, WalkInv, NextLinked, IdentNodes, identVars
  <1>11. CASE BeginAuthTimeouts \/ BeginResolverTimeouts
    BY <1>11 DEF BeginAuthTimeouts, BeginResolverTimeouts, Begin, Idle, WalkInv, NextLinked,
       IdentNodes, identVars, requestVars
  <1>12. CASE EndWalk
    BY <1>12 DEF EndWalk, WalkInv, NextLinked
  <1>13. ASSUME NEW n \in IdentNode, NotTimedOutYet(n) PROVE WalkInv'
    <2>1. n \in Node /\ IdentNodes \in SUBSET Node
      BY DEF IdentNodes, Node, IdentNode, TypeOK
    <2>2. /\ next' \notin rest' /\ walk' = "ident"
          /\ next' # NULL => next' \in IdentNodes
      BY <1>13, <2>1, AdvanceKeeps DEF NotTimedOutYet, AtLap, WalkInv
    <2>3. IdentNodes' = IdentNodes
      BY <1>13 DEF NotTimedOutYet, Skip, IdentNodes, identVars
    <2> QED BY <2>2, <2>3 DEF WalkInv, NextLinked
  <1>14. ASSUME NEW opened \in BOOLEAN, RestartResolver(opened) PROVE WalkInv'
    BY <1>14, NoWalk DEF RestartResolver, Idle, stackVars
  <1>15. ASSUME NEW X \in SUBSET connected, ReadPacket(X) PROVE WalkInv'
    BY <1>15, ReadPacketKeeps
  <1>16. CASE UNCHANGED vars
    BY <1>16 DEF vars, stackVars, requestVars, identVars, WalkInv, NextLinked, IdentNodes
  <1> QED
    BY <1>1, <1>2, <1>3, <1>4, <1>5, <1>6, <1>7, <1>8, <1>9, <1>10, <1>11, <1>12, <1>13, <1>14,
       <1>15, <1>16 DEF Next, IdentNext, RequestNext, LoopNext

\* The node DLINK_FOREACH_SAFE saved stays linked over the callbacks of both
\* timeout loops, as long as a client just released cannot run CLOSE.
THEOREM SavedNodeStays ==
    ASSUME CloseOnRelease = FALSE
    PROVE  Spec => []NextLinked
  <1>1. Init => WalkInv
    BY DEF Init, WalkInv, NextLinked
  <1>2. AuthInv /\ WalkInv /\ [Next]_vars => WalkInv'
    BY WalkNext
  <1>3. WalkInv => NextLinked
    BY DEF WalkInv
  <1> QED
    BY <1>1, <1>2, <1>3, AuthInvariance, PTL DEF Spec

-----------------------------------------------------------------------------
\* A lookup's end releases a connection that auth still has.
LEMMA EndIdentReleases ==
    ASSUME AuthInv, NEW c \in Client, c \in auth_doing_ident_list, EndIdent(c)
    PROVE  [Service!Next]_(Service!serviceVars)
  <1>1. c \in connected \ finished
    BY DEF AuthInv, NoLimbo
  <1>2. CASE IsLastIdent(c)
    BY <1>1, <1>2 DEF EndIdent, ReleaseAuthClient, Service!Next, Service!Release, AuthInv, NoLimbo
  <1>3. CASE ~IsLastIdent(c)
    BY <1>3 DEF EndIdent, Service!serviceVars
  <1> QED BY <1>2, <1>3

LEMMA AuthDnsCallbackReleases ==
    ASSUME AuthInv, NEW r \in Request, r \in request_list, answered = NULL, AuthDnsCallback(r),
           UNCHANGED connected
    PROVE  [Service!Next]_(Service!serviceVars)
  <1>1. r[1] \in Client /\ (r = <<r[1], "ptr">> \/ r = <<r[1], "fwd">>) /\ r # answered
    BY RequestFacts
  <1>2. r[1] \in auth_doing_dns_list
    <2>1. r[1] \notin auth_doing_dns_list =>
             /\ <<r[1], "ptr">> \notin request_list \ {answered}
             /\ <<r[1], "fwd">> \notin request_list \ {answered}
      BY <1>1 DEF AuthInv, OneLookup
    <2> QED BY <2>1, <1>1
  <1>3. r[1] \in connected \ finished
    BY <1>2 DEF AuthInv, NoLimbo
  <1> QED
    BY <1>1, <1>3 DEF AuthDnsCallback, ReleaseAuthClient, Service!Next, Service!Release,
       Service!serviceVars, AuthInv, NoLimbo

\* A step of the auth system is a step of AuthService, or none.
LEMMA ServiceNext ==
    ASSUME AuthInv, [Next]_vars
    PROVE  [Service!Next]_(Service!serviceVars)
  <1> USE DEF clientVars, Service!serviceVars
  <1>1. ASSUME NEW c \in Client, NEW ident \in BOOLEAN, StartAuth(c, ident)
        PROVE  [Service!Next]_(Service!serviceVars)
    BY <1>1 DEF StartAuth, AuthInv, NoLimbo, Service!Next, Service!Start
  <1>2. ASSUME NEW c \in Client, AuthError(c) \/ ReadAuthReply(c)
        PROVE  [Service!Next]_(Service!serviceVars)
    <2>1. c \in auth_doing_ident_list /\ EndIdent(c)
      BY <1>2 DEF AuthError, ReadAuthReply, MayConnect, AuthInv, AuthShape
    <2> QED BY <2>1, EndIdentReleases
  <1>3. ASSUME NEW c \in Client, TimeoutAuth(c)
        PROVE  [Service!Next]_(Service!serviceVars)
    <2>1. c \in auth_doing_ident_list
      BY <1>3 DEF TimeoutAuth, Advance, IdentNodes
    <2>2. c \in connected \ finished
      BY <2>1 DEF AuthInv, NoLimbo
    <2> QED
      BY <1>3, <2>2 DEF TimeoutAuth, ReleaseAuthClient, Service!Next, Service!Release, AuthInv,
         NoLimbo
  <1>4. ASSUME NEW r \in Request, ReplyEnds(r) \/ GiveUp(r)
        PROVE  [Service!Next]_(Service!serviceVars)
    BY <1>4, AuthDnsCallbackReleases DEF ReplyEnds, GiveUp, Replied, Idle, AtLap, Advance
  <1>5. ASSUME NEW X \in SUBSET connected, ExitClients(X)
        PROVE  [Service!Next]_(Service!serviceVars)
    BY <1>5 DEF ExitClients, AuthInv, TypeOK, Service!Next, Service!Depart
  <1>6. ASSUME UNCHANGED clientVars PROVE [Service!Next]_(Service!serviceVars)
    BY <1>6
  <1>7. ASSUME NEW c \in Client, ExitClient(c) PROVE [Service!Next]_(Service!serviceVars)
    BY <1>7, <1>5 DEF ExitClient
  <1>8. ASSUME NEW X \in SUBSET connected, ReadPacket(X)
        PROVE  [Service!Next]_(Service!serviceVars)
    BY <1>8, <1>5 DEF ReadPacket
  <1>9. ASSUME NEW c \in Client, StartDns(c) \/ AuthConnectCallback(c) \/ ReplyName(c)
                             \/ ReplyCname(c)
        PROVE  [Service!Next]_(Service!serviceVars)
    BY <1>9, <1>6 DEF StartDns, AuthConnectCallback, ReplyName, ReplyCname
  <1>10. ASSUME NEW r \in Request, ReplyFallsBack(r) \/ NotLateYet(r) \/ Resend(r)
        PROVE  [Service!Next]_(Service!serviceVars)
    BY <1>10, <1>6 DEF ReplyFallsBack, NotLateYet, Resend, Skip
  <1>11. ASSUME \/ RemRequest \/ BeginAuthTimeouts \/ BeginResolverTimeouts \/ EndWalk
                \/ \E n \in IdentNode : NotTimedOutYet(n)
                \/ \E opened \in BOOLEAN : RestartResolver(opened)
                \/ UNCHANGED vars
         PROVE  [Service!Next]_(Service!serviceVars)
    BY <1>11, <1>6 DEF RemRequest, BeginAuthTimeouts, BeginResolverTimeouts, Begin, EndWalk,
       NotTimedOutYet, Skip, RestartResolver, vars
  <1> QED
    BY <1>1, <1>2, <1>3, <1>4, <1>7, <1>8, <1>9, <1>10, <1>11
       DEF Next, IdentNext, RequestNext, LoopNext

\* The auth system keeps the promise of AuthService: every connection handed
\* to start_auth is released at most once, and only while it is there.
THEOREM ServiceImplemented == Spec => ServiceSpec
  <1>1. Init => Service!Init
    BY DEF Init, Service!Init
  <1> QED
    BY <1>1, ServiceNext, AuthInvariance, PTL DEF Spec, ServiceSpec, Service!Spec
=============================================================================
