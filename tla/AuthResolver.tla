---------------------------- MODULE AuthResolver ----------------------------
(***************************************************************************)
(* The auth system (src/s_auth.c) on top of the resolver (src/irc_res.c):  *)
(* an ident and a DNS lookup per connection, ended in any order by         *)
(* answers, errors, timeouts, or the exit of the client.                   *)
(*                                                                         *)
(* Handlers nest: release_auth_client runs read_packet, and with it the    *)
(* commands the client sent meanwhile, inside a lookup's callback, inside  *)
(* a loop over the auth or the resolver's list.  The stack is kept in      *)
(* walk/next/rest (the loop), answered (the request whose callback runs),  *)
(* starting (start_auth) and reading (release_auth_client); a step runs    *)
(* its top part.                                                           *)
(*                                                                         *)
(* A lookup is a pair <<client, kind>>.  Query ids are not modelled: a     *)
(* reply, late, repeated or wrong as it may be, either matches some        *)
(* request of request_list or is ignored.                                  *)
(***************************************************************************)
EXTENDS Integers, FiniteSets

CONSTANTS
    Client,          \* client slots
    V6,              \* the clients connected over IPv6
    CloseOnRelease,  \* may a client just released already run CLOSE?
    RestartMayFail,  \* may restart_resolver fail to open its socket?
    Retries,         \* how often a request is late before it is given up; 3
    NULL

ASSUME AuthAssumption ==
    /\ IsFiniteSet(Client)
    /\ V6 \subseteq Client
    /\ CloseOnRelease \in BOOLEAN
    /\ RestartMayFail \in BOOLEAN
    /\ Retries \in Nat \ {0}
    /\ NULL \notin Client
    /\ NULL \notin Client \X {"ident", "ptr", "fwd"}

VARIABLES
    connected,              \* clients that have not exited
    finished,               \* clients with FLAGS_FINISHED_AUTH
    AuthRequest,            \* clients with an allocated AuthRequest
    doing_auth,             \* AM_DOING_AUTH of the AuthRequest
    dns_pending,            \* AM_DNS_PENDING
    auth_doing_ident_list,
    auth_doing_dns_list,
    ident_fd,               \* auth->fd: closed, connecting or waiting for the reply
    dns_query,              \* clients whose localClient->dns_query is set
    request_list,           \* the resolver's outstanding lookups
    retries,                \* request->retries
    fellback,               \* AAAA lookups gone on to A, ip6.arpa ones to ip6.int
    resolver_up,            \* resolver socket open, timeout_resolver scheduled
    starting,               \* the client start_auth works on (AM_CRIT)
    reading,                \* the client release_auth_client lets run
    answered,               \* the request whose callback is running
    walk, next, rest        \* the list loop, its saved next node, those behind it

clientVars == <<connected, finished>>
authVars == <<AuthRequest, doing_auth, dns_pending>>
identVars == <<auth_doing_ident_list, ident_fd>>
dnsVars == <<auth_doing_dns_list, dns_query>>
requestVars == <<request_list, retries, fellback>>
stackVars == <<starting, reading, answered, walk, next, rest>>
vars == <<clientVars, authVars, identVars, dnsVars, requestVars, resolver_up, stackVars>>

Request == Client \X {"ptr", "fwd"}
IdentNode == Client \X {"ident"}
Node == Request \cup IdentNode

TypeOK ==
    /\ connected \subseteq Client
    /\ finished \subseteq Client
    /\ AuthRequest \subseteq Client
    /\ doing_auth \subseteq Client
    /\ dns_pending \subseteq Client
    /\ auth_doing_ident_list \subseteq Client
    /\ auth_doing_dns_list \subseteq Client
    /\ ident_fd \in [Client -> {"closed", "connect", "read"}]
    /\ dns_query \subseteq Client
    /\ request_list \subseteq Request
    /\ retries \in [Request -> 0..Retries]
    /\ fellback \subseteq Request
    /\ resolver_up \in BOOLEAN
    /\ starting \in Client \cup {NULL}
    /\ reading \in Client \cup {NULL}
    /\ answered \in Request \cup {NULL}
    /\ walk \in {"none", "ident", "dns"}
    /\ next \in Node \cup {NULL}
    /\ rest \subseteq Node

Init ==
    /\ connected = {} /\ finished = {}
    /\ AuthRequest = {} /\ doing_auth = {} /\ dns_pending = {}
    /\ auth_doing_ident_list = {} /\ auth_doing_dns_list = {}
    /\ ident_fd = [c \in Client |-> "closed"]
    /\ dns_query = {}
    /\ request_list = {} /\ fellback = {}
    /\ retries = [r \in Request |-> 0]
    /\ resolver_up = TRUE
    /\ starting = NULL /\ reading = NULL /\ answered = NULL
    /\ walk = "none" /\ next = NULL /\ rest = {}

\* No handler is running: io_loop may call the next one.
Idle == starting = NULL /\ reading = NULL /\ answered = NULL /\ walk = "none"

\* The loop is at its head: no callback is running.
AtLap(w) == walk = w /\ reading = NULL /\ answered = NULL

Requests(X) == {r \in request_list : r[1] \in X}

\* make_request for the lookups New, rem_request for the lookups Old.
ChangeRequests(New, Old) ==
    /\ request_list' = (request_list \cup New) \ Old
    /\ retries' = [r \in Request |-> IF r \in Old THEN 0
                                     ELSE IF r \in New THEN Retries ELSE retries[r]]
    /\ fellback' = fellback \ (New \cup Old)

-----------------------------------------------------------------------------
(* start_auth.                                                              *)

\* make_auth_request and start_auth_query; ident is FALSE when it is disabled
\* or no socket could be made for it.
StartAuth(c, ident) ==
    /\ Idle /\ c \notin connected
    /\ connected' = connected \cup {c}
    /\ AuthRequest' = AuthRequest \cup {c}
    /\ dns_query' = dns_query \cup {c}
    /\ starting' = c
    /\ doing_auth' = IF ident THEN doing_auth \cup {c} ELSE doing_auth
    /\ auth_doing_ident_list' =
          IF ident THEN auth_doing_ident_list \cup {c} ELSE auth_doing_ident_list
    /\ ident_fd' = IF ident THEN [ident_fd EXCEPT ![c] = "connect"] ELSE ident_fd
    /\ UNCHANGED <<finished, dns_pending, auth_doing_dns_list, requestVars, resolver_up,
                   reading, answered, walk, next, rest>>

\* The rest of start_auth: gethost_byaddr.
StartDns(c) ==
    /\ starting = c
    /\ starting' = NULL
    /\ dns_pending' = dns_pending \cup {c}
    /\ auth_doing_dns_list' = auth_doing_dns_list \cup {c}
    /\ ChangeRequests({<<c, "ptr">>}, {})
    /\ UNCHANGED <<clientVars, AuthRequest, doing_auth, identVars, dns_query, resolver_up,
                   reading, answered, walk, next, rest>>

-----------------------------------------------------------------------------
(* The end of a lookup.                                                     *)

\* Whether the end of ident is the end of auth.
IsLastIdent(c) == c \notin dns_pending /\ c # starting

\* release_auth_client up to read_packet; the AuthRequest is freed after it.
ReleaseAuthClient(c) == finished' = finished \cup {c} /\ reading' = c

\* What auth_error and read_auth_reply do when ident is over.
EndIdent(c) ==
    /\ auth_doing_ident_list' = auth_doing_ident_list \ {c}
    /\ ident_fd' = [ident_fd EXCEPT ![c] = "closed"]
    /\ doing_auth' = doing_auth \ {c}
    /\ IF IsLastIdent(c) THEN ReleaseAuthClient(c) ELSE UNCHANGED <<finished, reading>>
    /\ UNCHANGED <<connected, AuthRequest, dns_pending, dnsVars, requestVars, resolver_up,
                   starting, answered, walk, next, rest>>

\* comm_connect_tcp may call auth_connect_callback before it returns.
MayConnect(c) == ident_fd[c] = "connect" /\ (Idle \/ starting = c) /\ reading = NULL

\* Connect error or timeout, or the query cannot be sent: auth_error.
AuthError(c) == MayConnect(c) /\ EndIdent(c)

\* Connected, query sent, the reply not there yet.
AuthConnectCallback(c) ==
    /\ MayConnect(c)
    /\ ident_fd' = [ident_fd EXCEPT ![c] = "read"]
    /\ UNCHANGED <<clientVars, authVars, auth_doing_ident_list, dnsVars, requestVars,
                   resolver_up, stackVars>>

\* A reply, good or bad, EOF or an error.
ReadAuthReply(c) == Idle /\ ident_fd[c] = "read" /\ EndIdent(c)

\* Mutant: only the end of ident releases the client.
AuthDnsCallbackForgets(r) ==
    LET c == r[1] IN
    /\ answered' = r
    /\ auth_doing_dns_list' = auth_doing_dns_list \ {c}
    /\ dns_pending' = dns_pending \ {c}
    /\ dns_query' = dns_query \ {c}
    /\ AuthRequest' = IF c \in doing_auth THEN AuthRequest ELSE AuthRequest \ {c}
    /\ UNCHANGED <<finished, reading>>

\* auth_dns_callback, as called for request r; the resolver removes r when the
\* callback has returned (RemRequest).
AuthDnsCallback(r) ==
    LET c == r[1] IN
    /\ answered' = r
    /\ auth_doing_dns_list' = auth_doing_dns_list \ {c}
    /\ dns_pending' = dns_pending \ {c}
    /\ dns_query' = dns_query \ {c}
    /\ IF c \in doing_auth
       THEN UNCHANGED <<finished, reading, AuthRequest>>
       ELSE ReleaseAuthClient(c) /\ AuthRequest' = AuthRequest \ {c}

\* rem_request after the callback.
RemRequest ==
    /\ answered # NULL /\ reading = NULL
    /\ ChangeRequests({}, {answered})
    /\ answered' = NULL
    /\ UNCHANGED <<clientVars, authVars, identVars, dnsVars, resolver_up, starting, reading,
                   walk, next, rest>>

-----------------------------------------------------------------------------
(* res_readreply.                                                           *)

Replied(r) == Idle /\ resolver_up /\ r \in request_list

\* An error, or the address a forward lookup asked for.
ReplyEnds(r) ==
    /\ Replied(r)
    /\ AuthDnsCallback(r)
    /\ UNCHANGED <<connected, doing_auth, identVars, requestVars, resolver_up, starting, walk,
                   next, rest>>

\* Mutant: the PTR request stays.
ReplyNameKeeps(c) ==
    /\ Replied(<<c, "ptr">>)
    /\ ChangeRequests({<<c, "fwd">>}, {})
    /\ UNCHANGED <<clientVars, authVars, identVars, dnsVars, resolver_up, stackVars>>

\* The name of an address: the query goes on with its forward lookup.
ReplyName(c) ==
    /\ Replied(<<c, "ptr">>)
    /\ ChangeRequests({<<c, "fwd">>}, {<<c, "ptr">>})
    /\ UNCHANGED <<clientVars, authVars, identVars, dnsVars, resolver_up, stackVars>>

\* --request->retries; that it is not above one is all that is ever asked of it,
\* so the count stops at zero.
OneLess(n) == IF n = 0 THEN 0 ELSE n - 1

\* NXDOMAIN over IPv6: A instead of AAAA, ip6.int instead of ip6.arpa, once.
ReplyFallsBack(r) ==
    /\ Replied(r) /\ r[1] \in V6 /\ r \notin fellback
    /\ fellback' = fellback \cup {r}
    /\ retries' = IF r[2] = "ptr" THEN [retries EXCEPT ![r] = OneLess(@)] ELSE retries
    /\ UNCHANGED <<clientVars, authVars, identVars, dnsVars, request_list, resolver_up,
                   stackVars>>

\* A CNAME and then an answer that cannot be decoded: the request goes on, but
\* its state, now REQ_CNAME, has forgotten the fallback.
ReplyCname(c) ==
    /\ Replied(<<c, "ptr">>) /\ <<c, "ptr">> \in fellback
    /\ fellback' = fellback \ {<<c, "ptr">>}
    /\ UNCHANGED <<clientVars, authVars, identVars, dnsVars, request_list, retries, resolver_up,
                   stackVars>>

\* restart_resolver (a rehash, REHASH DNS): outstanding requests stay.
RestartResolver(opened) ==
    /\ Idle /\ (opened \/ RestartMayFail)
    /\ resolver_up' = opened
    /\ UNCHANGED <<clientVars, authVars, identVars, dnsVars, requestVars, stackVars>>

-----------------------------------------------------------------------------
(* The timed loops.                                                         *)

Heads(S) == IF S = {} THEN {NULL} ELSE S

Begin(w, list) ==
    /\ Idle /\ list # {}
    /\ walk' = w
    /\ next' \in list
    /\ rest' = list \ {next'}
    /\ UNCHANGED <<clientVars, authVars, identVars, dnsVars, requestVars, resolver_up,
                   starting, reading, answered>>

\* Mutant: the loop does not save the next node.
AdvanceUnsafe(n, list) ==
    /\ n = next /\ n \in list
    /\ UNCHANGED <<walk, next, rest>>

\* The loop looks at the node it saved, and saves the one behind it.
Advance(n, list) ==
    /\ n = next /\ n \in list
    /\ next' \in Heads(rest \cap list)
    /\ rest' = rest \ {next'}
    /\ UNCHANGED walk

Skip == UNCHANGED <<clientVars, authVars, identVars, dnsVars, requestVars, resolver_up,
                    starting, reading, answered>>

EndWalk ==
    /\ walk # "none" /\ next = NULL /\ reading = NULL /\ answered = NULL
    /\ walk' = "none" /\ rest' = {} /\ next' = NULL
    /\ Skip

IdentNodes == {<<c, "ident">> : c \in auth_doing_ident_list}

BeginAuthTimeouts == Begin("ident", IdentNodes)

NotTimedOutYet(n) == AtLap("ident") /\ Advance(n, IdentNodes) /\ Skip

\* Mutant: the resolver's request outlives the AuthRequest.
TimeoutAuthKeeps(c) ==
    /\ AtLap("ident") /\ Advance(<<c, "ident">>, IdentNodes)
    /\ auth_doing_ident_list' = auth_doing_ident_list \ {c}
    /\ auth_doing_dns_list' = auth_doing_dns_list \ {c}
    /\ ident_fd' = [ident_fd EXCEPT ![c] = "closed"]
    /\ dns_query' = dns_query \ {c}
    /\ ReleaseAuthClient(c)
    /\ UNCHANGED <<connected, authVars, requestVars, resolver_up, starting, answered>>

\* timeout_auth_queries_event, 30 seconds after start_auth, ident still out.
TimeoutAuth(c) ==
    /\ AtLap("ident") /\ Advance(<<c, "ident">>, IdentNodes)
    /\ auth_doing_ident_list' = auth_doing_ident_list \ {c}
    /\ ident_fd' = [ident_fd EXCEPT ![c] = "closed"]
    /\ IF c \in dns_pending
       THEN /\ auth_doing_dns_list' = auth_doing_dns_list \ {c}
            /\ ChangeRequests({}, Requests({c} \cap dns_query))
            /\ dns_query' = dns_query \ {c}
       ELSE UNCHANGED <<dnsVars, requestVars>>
    /\ ReleaseAuthClient(c)
    /\ UNCHANGED <<connected, authVars, resolver_up, starting, answered>>

BeginResolverTimeouts == resolver_up /\ Begin("dns", request_list)

NotLateYet(r) == AtLap("dns") /\ Advance(r, request_list) /\ Skip

\* timeout_query_list, the request late for the last time.
GiveUp(r) ==
    /\ AtLap("dns") /\ Advance(r, request_list) /\ retries[r] <= 1
    /\ AuthDnsCallback(r)
    /\ UNCHANGED <<connected, doing_auth, identVars, requestVars, resolver_up, starting>>

\* Mutant: the retries are not counted.
ResendForever(r) ==
    /\ AtLap("dns") /\ Advance(r, request_list) /\ retries[r] > 1
    /\ fellback' = IF r[1] \in V6 /\ r[2] = "fwd" THEN fellback \cup {r} ELSE fellback
    /\ UNCHANGED <<clientVars, authVars, identVars, dnsVars, request_list, retries, resolver_up,
                   starting, reading, answered>>

\* ... or late and sent again; an AAAA lookup becomes one for A.
Resend(r) ==
    /\ AtLap("dns") /\ Advance(r, request_list) /\ retries[r] > 1
    /\ retries' = [retries EXCEPT ![r] = OneLess(@)]
    /\ fellback' = IF r[1] \in V6 /\ r[2] = "fwd" THEN fellback \cup {r} ELSE fellback
    /\ UNCHANGED <<clientVars, authVars, identVars, dnsVars, request_list, resolver_up,
                   starting, reading, answered>>

-----------------------------------------------------------------------------
(* Exits.                                                                   *)

\* Mutant: only the DNS lookup of a client is cancelled.
DeleteAuthDnsOnly(X) ==
    LET dns == X \cap dns_query \cap auth_doing_dns_list IN
    /\ ChangeRequests({}, Requests(dns))
    /\ dns_query' = dns_query \ dns
    /\ auth_doing_dns_list' = auth_doing_dns_list \ dns
    /\ UNCHANGED <<auth_doing_ident_list, ident_fd>>
    /\ AuthRequest' = AuthRequest \ (dns \cup {reading})
    /\ doing_auth' = doing_auth \ (dns \cup {reading})
    /\ dns_pending' = dns_pending \ (dns \cup {reading})

\* delete_auth of the clients X, and the MyFree that follows
\* release_auth_client in auth_error, read_auth_reply and the timeout loop.
DeleteAuth(X) ==
    LET dns   == X \cap dns_query \cap auth_doing_dns_list
        ident == X \cap auth_doing_ident_list
        freed == (dns \ doing_auth) \cup ident \cup {reading}
    IN  /\ ChangeRequests({}, Requests(dns))
        /\ dns_query' = dns_query \ dns
        /\ auth_doing_dns_list' = auth_doing_dns_list \ dns
        /\ auth_doing_ident_list' = auth_doing_ident_list \ ident
        /\ ident_fd' = [c \in Client |-> IF c \in ident THEN "closed" ELSE ident_fd[c]]
        /\ AuthRequest' = AuthRequest \ freed
        /\ doing_auth' = doing_auth \ freed
        /\ dns_pending' = dns_pending \ freed

ExitClients(X) ==
    /\ connected' = connected \ X
    /\ finished' = finished \ X
    /\ DeleteAuth(X)

\* exit_client from any other handler: D-line, write error, CLOSE, ...
ExitClient(c) ==
    /\ Idle /\ c \in connected
    /\ ExitClients({c})
    /\ UNCHANGED <<resolver_up, stackVars>>

\* read_packet inside release_auth_client: the client may quit (or be dead),
\* NICK and KILL may exit clients auth has finished with, and CLOSE exits
\* everybody it has not.
MayExit(X) == X \subseteq finished \/ (CloseOnRelease /\ connected \ finished \subseteq X)

ReadPacket(X) ==
    /\ reading # NULL
    /\ MayExit(X)
    /\ ExitClients(X)
    /\ reading' = NULL
    /\ UNCHANGED <<resolver_up, starting, answered, walk, next, rest>>

-----------------------------------------------------------------------------
IdentNext(c) ==
    \/ \E ident \in BOOLEAN : StartAuth(c, ident)
    \/ StartDns(c)
    \/ AuthError(c) \/ AuthConnectCallback(c) \/ ReadAuthReply(c)
    \/ ReplyName(c) \/ ReplyCname(c)
    \/ TimeoutAuth(c)
    \/ ExitClient(c)

RequestNext(r) == ReplyEnds(r) \/ ReplyFallsBack(r) \/ NotLateYet(r) \/ GiveUp(r) \/ Resend(r)

LoopNext ==
    \/ RemRequest
    \/ BeginAuthTimeouts \/ BeginResolverTimeouts \/ EndWalk
    \/ \E n \in IdentNode : NotTimedOutYet(n)
    \/ \E opened \in BOOLEAN : RestartResolver(opened)
    \/ \E X \in SUBSET connected : ReadPacket(X)

Next == (\E c \in Client : IdentNext(c)) \/ (\E r \in Request : RequestNext(r)) \/ LoopNext

Spec == Init /\ [][Next]_vars

\* A handler runs to its end.
HandlerEnds ==
    \/ \E c \in Client : StartDns(c)
    \/ RemRequest \/ EndWalk
    \/ \E X \in SUBSET connected : ReadPacket(X)
    \/ \E n \in IdentNode : NotTimedOutYet(n)
    \/ \E r \in Request : NotLateYet(r) \/ GiveUp(r) \/ Resend(r)

\* The events are run every second, and a lookup is due after a bounded time
\* that each walk compares with the clock.
Fairness ==
    /\ WF_vars(HandlerEnds)
    /\ SF_vars(BeginAuthTimeouts) /\ SF_vars(BeginResolverTimeouts)
    /\ \A c \in Client : SF_vars(TimeoutAuth(c))
    /\ \A r \in Request : SF_vars(GiveUp(r) \/ Resend(r))

FairSpec == Spec /\ Fairness

-----------------------------------------------------------------------------
(* Safety.                                                                  *)

\* An AuthRequest is on the lists its flags say, has an ident socket as long as
\* it is on the ident list, and is allocated exactly as long as start_auth, a
\* list or release_auth_client refers to it.
AuthShape ==
    /\ auth_doing_ident_list = {c \in Client : ident_fd[c] # "closed"}
    /\ doing_auth \ {reading} = auth_doing_ident_list
    /\ dns_pending \ {reading} = auth_doing_dns_list
    /\ dns_query = auth_doing_dns_list \cup ({starting} \ {NULL})
    /\ AuthRequest \ {reading} =
          auth_doing_ident_list \cup auth_doing_dns_list \cup ({starting} \ {NULL})
    /\ reading \notin auth_doing_ident_list \cup auth_doing_dns_list

\* Whenever the resolver may answer a request, the AuthRequest its callback
\* will be called with is there and waits for it; and it waits for one request.
OneLookup ==
    LET open == request_list \ {answered} IN
    \A c \in Client :
        IF c \in auth_doing_dns_list
        THEN <<c, "ptr">> \in open <=> <<c, "fwd">> \notin open
        ELSE <<c, "ptr">> \notin open /\ <<c, "fwd">> \notin open

\* No connection is forgotten: one that is not released has a lookup running
\* that will release it, and one that is released has none.
NoLimbo ==
    /\ connected \ finished =
          auth_doing_ident_list \cup auth_doing_dns_list \cup ({starting} \ {NULL})
    /\ finished \subseteq connected

\* The request whose callback ran is still there for rem_request, whatever the
\* commands run inside the callback did.
RemovedOnce == answered # NULL => answered \in request_list

\* The inductive invariant: besides the above, which parts of the handler stack
\* can be in use together, and that only the callback's own lookup is off its
\* AuthRequest.
StackInv ==
    /\ starting # NULL => reading = NULL /\ answered = NULL /\ walk = "none"
    /\ starting # NULL => starting \notin finished /\ starting \notin auth_doing_dns_list
    /\ reading # NULL => reading \in finished
    /\ answered # NULL => answered[1] \notin auth_doing_dns_list

AuthInv ==
    TypeOK /\ AuthShape /\ OneLookup /\ NoLimbo /\ RemovedOnce /\ StackInv

\* The next node a timeout loop saved before a callback is still linked after
\* it.
NextLinked ==
    /\ walk = "ident" /\ next # NULL => next \in IdentNodes
    /\ walk = "dns" /\ next # NULL => next \in request_list

\* The auth system implements AuthService.
Service == INSTANCE AuthService WITH
    pending  <- connected \ finished,
    released <- finished
ServiceSpec == Service!Spec

(* Liveness. *)

\* Auth ends for every connection, unless the resolver's socket stays closed:
\* restart_resolver deletes the timer and adds it again only with the socket, and
\* timeout_auth_queries_event lets nobody through that waits for DNS alone.
AuthEnds ==
    []<>resolver_up => \A c \in Client : c \in AuthRequest ~> c \notin AuthRequest
=============================================================================
