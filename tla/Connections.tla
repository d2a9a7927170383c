---------------------------- MODULE Connections ----------------------------
(***************************************************************************)
(* The life of a local connection of the ircd: from accept() or            *)
(* serv_connect() to free_client(), through SSL, auth, registration and    *)
(* every way of dying (src/client.c, src/s_bsd.c, src/listener.c and the   *)
(* callers of exit_client in src/ and modules/).                           *)
(*                                                                         *)
(* The program is one thread around io_loop.  Every handler runs to its    *)
(* end, so a handler is one action.  The loops that walk a client list     *)
(* (check_pings, check_unknowns_list, check_conf_klines, mo_close) are one *)
(* action per visited client; exit_aborted_clients keeps its cursor in the *)
(* global eac_next and is one action per lap.                              *)
(*                                                                         *)
(* A client is a slot of the client heap; the lists of the program are     *)
(* sets where their order is never looked at, and a sequence where it is   *)
(* (abort_list).  Auth (DNS and ident lookups) is here only "pending" or   *)
(* not; module AuthResolver has its detail.                                *)
(***************************************************************************)
EXTENDS Integers, Sequences, FiniteSets, SequencesExt, Functions

CONSTANTS
    Client,       \* slots of the client heap
    Listener,     \* ports the configuration may name
    SSLListener,  \* those with LISTENER_SSL
    MaxLocal,     \* ServerInfo.max_clients + MAX_BUFFER
    NULL          \* the null pointer

ASSUME ConnAssumption ==
    /\ IsFiniteSet(Client)
    /\ IsFiniteSet(Listener)
    /\ SSLListener \subseteq Listener
    /\ MaxLocal \in Nat
    /\ NULL \notin Client
    /\ NULL \notin Listener

VARIABLES
    phase,             \* where io_loop is
    status,            \* client_p->status; "none" for a slot that is not allocated
    closing,           \* clients with FLAGS_CLOSING
    dead,              \* clients with FLAGS_DEADSOCKET
    finished,          \* clients with FLAGS_FINISHED_AUTH
    auth,              \* clients with an AuthRequest outstanding
    watch,             \* the handler comm_setselect registered on the client's fd
    unknown_list, local_client_list, serv_list, oper_list, global_client_list,
    abort_list,        \* clients a write failed on, in the order they failed
    eac_next,          \* the node exit_aborted_clients visits next
    dead_list,         \* how many nodes of dead_list hold the client
    Count_local,       \* Count.local
    listener_of,       \* client_p->localClient->listener
    ListenerPollList,  \* allocated listeners
    active,            \* listeners with an open socket
    ref_count          \* listener->ref_count

flagVars == <<status, closing, dead, finished>>
listVars == <<unknown_list, local_client_list, serv_list, oper_list, global_client_list>>
exitVars == <<abort_list, eac_next, dead_list, Count_local>>
listenerVars == <<listener_of, ListenerPollList, active, ref_count>>
vars == <<phase, flagVars, auth, watch, listVars, exitVars, listenerVars>>

Status == {"none", "connecting", "handshake", "unknown", "server", "client"}
Watch  == {"none", "ssl", "connect", "read"}

TypeOK ==
    /\ phase \in {"run", "abort", "free", "send"}
    /\ status \in [Client -> Status]
    /\ closing \subseteq Client
    /\ dead \subseteq Client
    /\ finished \subseteq Client
    /\ auth \subseteq Client
    /\ watch \in [Client -> Watch]
    /\ unknown_list \subseteq Client
    /\ local_client_list \subseteq Client
    /\ serv_list \subseteq Client
    /\ oper_list \subseteq Client
    /\ global_client_list \subseteq Client
    /\ abort_list \in Seq(Client)
    /\ eac_next \in Client \cup {NULL}
    /\ dead_list \in [Client -> Nat]
    /\ Count_local \in Nat
    /\ listener_of \in [Client -> Listener \cup {NULL}]
    /\ ListenerPollList \subseteq Listener
    /\ active \subseteq Listener
    /\ ref_count \in [Listener -> Int]

Init ==
    /\ phase = "run"
    /\ status = [c \in Client |-> "none"]
    /\ closing = {} /\ dead = {} /\ finished = {} /\ auth = {}
    /\ watch = [c \in Client |-> "none"]
    /\ unknown_list = {} /\ local_client_list = {} /\ serv_list = {}
    /\ oper_list = {} /\ global_client_list = {}
    /\ abort_list = <<>> /\ eac_next = NULL
    /\ dead_list = [c \in Client |-> 0]
    /\ Count_local = 0
    /\ listener_of = [c \in Client |-> NULL]
    /\ ListenerPollList = Listener /\ active = Listener
    /\ ref_count = [l \in Listener |-> 0]

-----------------------------------------------------------------------------
(* Flags and sets of clients. *)

Allocated == {c \in Client : status[c] # "none"}
IsDefunct(c) == c \in dead \/ c \in closing
IsRegistered(c) == status[c] \in {"server", "client"}

\* The clients a handler working for c may write to: opers, channel members
\* and servers are registered; c itself gets replies whatever its status.
Reached(c) == {d \in Client : (d = c \/ IsRegistered(d)) /\ ~IsDefunct(d)}

\* The orders in which writes of one handler to clients of S can fail.
FailedWrites(S) == SetToAllKPermutations(S)

-----------------------------------------------------------------------------
(* dead_link_on_write: called from send_message (SendQ limit) and           *)
(* send_queued_write (write error).  The client is only marked and queued:  *)
(* the lists a caller may be walking stay as they are.                      *)

\* Mutant: the cursor is not told of a client queued behind the last lap.
QueueAbortsLost(list, next, s) == abort_list' = list \o s /\ eac_next' = next

QueueAborts(list, next, s) ==
    /\ abort_list' = list \o s
    /\ eac_next' = IF next = NULL /\ s # <<>> THEN s[1] ELSE next

DeadLinkOnWrite(s) == QueueAborts(abort_list, eac_next, s)

\* A handler that writes and changes nothing else of the clients' state.
Write(s) == DeadLinkOnWrite(s) /\ dead' = dead \cup Range(s)

-----------------------------------------------------------------------------
(* exit_client and exit_one_client for a local client.  s: the clients that *)
(* the notices sent on the way out (QUIT, SQUIT, oper notices) fail on.     *)

\* delete_auth: only an unregistered connection has an AuthRequest.
DeleteAuth(c) == auth' = IF status[c] = "unknown" THEN auth \ {c} ELSE auth

\* Mutant: clients a write failed on leave the lists at once, too.
LeaveListsAtOnce(c) ==
    /\ unknown_list' = unknown_list \ {c} /\ oper_list' = oper_list \ {c}
    /\ serv_list' = (serv_list \ {c}) \ dead
    /\ local_client_list' = (local_client_list \ {c}) \ dead
    /\ Count_local' = Cardinality(local_client_list')

\* The lists a client is on by its status; Count.local counts users.
LeaveLists(c) ==
    /\ unknown_list' = IF IsRegistered(c) THEN unknown_list ELSE unknown_list \ {c}
    /\ local_client_list' = IF status[c] = "client" THEN local_client_list \ {c}
                            ELSE local_client_list
    /\ oper_list' = IF status[c] = "client" THEN oper_list \ {c} ELSE oper_list
    /\ Count_local' = IF status[c] = "client" THEN Count_local - 1 ELSE Count_local
    /\ serv_list' = IF status[c] \in {"server", "connecting", "handshake"}
                    THEN serv_list \ {c} ELSE serv_list

\* Mutant: the socket of a client that never got through TLS stays open.
CloseConnectionKeeps(c) ==
    watch' = IF watch[c] = "ssl" THEN watch ELSE [watch EXCEPT ![c] = "none"]

\* close_connection: the fd is closed, its handlers go.
CloseConnection(c) == watch' = [watch EXCEPT ![c] = "none"]

\* exit_one_client; update_client_exit_stats is about remote totals.
ExitOneClient(c, s) ==
    /\ global_client_list' = global_client_list \ {c}
    /\ dead_list' = [dead_list EXCEPT ![c] = @ + 1]
    /\ dead' = dead \cup {c} \cup Range(s)

\* exit_client can be called twice after a failed read and write.
ExitClient(c, s) ==
    /\ IF c \in closing
       THEN /\ dead' = dead \cup Range(s)
            /\ UNCHANGED <<closing, auth, watch, listVars, dead_list, Count_local>>
       ELSE /\ closing' = closing \cup {c}
            /\ DeleteAuth(c) /\ LeaveLists(c) /\ CloseConnection(c) /\ ExitOneClient(c, s)
    /\ UNCHANGED <<status, finished, listenerVars>>

\* exit_client(c) from a handler; the handler may have written to c itself
\* (an error reply, the KILL message) before.
Exit(c) ==
    /\ phase = "run"
    /\ \E s \in FailedWrites(Reached(c)) : DeadLinkOnWrite(s) /\ ExitClient(c, s)
    /\ UNCHANGED phase

-----------------------------------------------------------------------------
(* Incoming connections: accept_connection, add_connection, ssl_handshake.  *)

\* make_client(NULL) and the bookkeeping add_connection does for every
\* accepted socket.
NewConnection(l, c) ==
    /\ phase = "run" /\ l \in active /\ status[c] = "none"
    /\ status' = [status EXCEPT ![c] = "unknown"]
    /\ listener_of' = [listener_of EXCEPT ![c] = l]
    /\ ref_count' = [ref_count EXCEPT ![l] = @ + 1]
    /\ UNCHANGED <<phase, finished, ListenerPollList, active>>

\* start_auth: the notices go to c, a failed ident socket is reported to opers.
\* The sends can fail; auth goes on, the abort comes later.
AcceptToAuth(l, c) ==
    /\ l \notin SSLListener
    /\ NewConnection(l, c)
    /\ unknown_list' = unknown_list \cup {c}
    /\ auth' = auth \cup {c}
    /\ \E s \in FailedWrites(Reached(c)) : Write(s)
    /\ UNCHANGED <<closing, watch, local_client_list, serv_list, oper_list,
                   global_client_list, dead_list, Count_local>>

\* SSL_accept wants more data: the handshake handler waits on the socket.
AcceptToSsl(l, c) ==
    /\ l \in SSLListener
    /\ NewConnection(l, c)
    /\ unknown_list' = unknown_list \cup {c}
    /\ watch' = [watch EXCEPT ![c] = "ssl"]
    /\ UNCHANGED <<closing, dead, auth, local_client_list, serv_list, oper_list,
                   global_client_list, exitVars>>

\* SSL_new or the first SSL_accept fails: exit_client before auth began.
AcceptFails(l, c) ==
    /\ l \in SSLListener
    /\ NewConnection(l, c)
    /\ closing' = closing \cup {c}
    /\ dead_list' = [dead_list EXCEPT ![c] = @ + 1]
    /\ \E s \in FailedWrites(Reached(c) \ {c}) :
          DeadLinkOnWrite(s) /\ dead' = dead \cup {c} \cup Range(s)
    /\ UNCHANGED <<auth, watch, listVars, Count_local>>

\* ssl_handshake completes: start_auth.  Its other outcomes: wait on (no
\* change) and failure (SslFails).
SslDone(c) ==
    /\ phase = "run" /\ watch[c] = "ssl"
    /\ watch' = [watch EXCEPT ![c] = "none"]
    /\ auth' = auth \cup {c}
    /\ \E s \in FailedWrites(Reached(c)) : Write(s)
    /\ UNCHANGED <<phase, status, closing, finished, listVars, dead_list, Count_local,
                   listenerVars>>

SslFails(c) == watch[c] = "ssl" /\ Exit(c)

-----------------------------------------------------------------------------
(* The end of auth: release_auth_client, which ends in read_packet.         *)

\* Mutant: the AuthRequest stays on its lists.
ReleaseAuthClientKeeps(c) ==
    /\ phase = "run" /\ c \in auth
    /\ global_client_list' = global_client_list \cup {c}
    /\ finished' = finished \cup {c}
    /\ watch' = [watch EXCEPT ![c] = "read"]
    /\ UNCHANGED <<phase, status, closing, dead, auth, unknown_list, local_client_list,
                   serv_list, oper_list, exitVars, listenerVars>>

\* The client joins global_client_list and is read from; a client that died
\* while auth ran is not (read_packet returns at once).
ReleaseAuthClient(c) ==
    /\ phase = "run" /\ c \in auth
    /\ auth' = auth \ {c}
    /\ global_client_list' = global_client_list \cup {c}
    /\ finished' = finished \cup {c}
    /\ \E s \in FailedWrites(Reached(c)) :
          /\ Write(s)
          /\ watch' = IF c \in dead' THEN watch ELSE [watch EXCEPT ![c] = "read"]
    /\ UNCHANGED <<phase, status, closing, unknown_list, local_client_list, serv_list,
                   oper_list, dead_list, Count_local, listenerVars>>

-----------------------------------------------------------------------------
(* read_packet and the commands it runs.                                    *)

CanParse(c) == phase = "run" /\ watch[c] = "read" /\ ~IsDefunct(c)

\* recv fails or reports EOF (dead_link_on_read); the recvq is over
\* client_flood (Excess Flood); QUIT, ERROR or a protocol error.
ReadExits(c) == CanParse(c) /\ Exit(c)

\* The read handler of a client a write failed on: no new request is made.
ReadDefunct(c) ==
    /\ phase = "run" /\ watch[c] = "read" /\ IsDefunct(c)
    /\ watch' = [watch EXCEPT ![c] = "none"]
    /\ UNCHANGED <<phase, flagVars, auth, listVars, exitVars, listenerVars>>

\* Any command that only sends.
SendMessages(c) ==
    /\ CanParse(c)
    /\ \E s \in FailedWrites(Reached(c)) : Write(s)
    /\ UNCHANGED <<phase, status, closing, finished, auth, watch, listVars, dead_list,
                   Count_local, listenerVars>>

\* register_local_user lets the client in.  It gives up when the client died
\* in one of the sends before SetClient; the sends after it can fail too.
RegisterLocalUser(c) ==
    /\ CanParse(c) /\ status[c] = "unknown" /\ c \in finished
    /\ Count_local < MaxLocal
    /\ status' = [status EXCEPT ![c] = "client"]
    /\ Count_local' = Count_local + 1
    /\ unknown_list' = unknown_list \ {c}
    /\ local_client_list' = local_client_list \cup {c}
    /\ \E s \in FailedWrites(Reached(c)) : Write(s)
    /\ UNCHANGED <<phase, closing, finished, auth, watch, serv_list, oper_list,
                   global_client_list, dead_list, listenerVars>>

\* server_estab: an unknown that sent SERVER, or our own handshake answered.
\* It looks at IsClosing only, so a link whose sends failed goes on to SERVER.
ServerEstab(c) ==
    /\ CanParse(c) /\ status[c] \in {"unknown", "handshake"}
    /\ status' = [status EXCEPT ![c] = "server"]
    /\ unknown_list' = unknown_list \ {c}
    /\ serv_list' = serv_list \cup {c}
    /\ \E s \in FailedWrites(Reached(c)) : Write(s)
    /\ UNCHANGED <<phase, closing, finished, auth, watch, local_client_list, oper_list,
                   global_client_list, dead_list, Count_local, listenerVars>>

OperUp(c) ==
    /\ CanParse(c) /\ status[c] = "client" /\ c \notin oper_list
    /\ oper_list' = oper_list \cup {c}
    /\ \E s \in FailedWrites(Reached(c)) : Write(s)
    /\ UNCHANGED <<phase, status, closing, finished, auth, watch, unknown_list,
                   local_client_list, serv_list, global_client_list, dead_list, Count_local,
                   listenerVars>>

\* MODE -o
OperDown(c) ==
    /\ CanParse(c) /\ c \in oper_list
    /\ oper_list' = oper_list \ {c}
    /\ UNCHANGED <<phase, flagVars, auth, watch, unknown_list, local_client_list, serv_list,
                   global_client_list, exitVars, listenerVars>>

\* CLOSE: an oper exits every client of unknown_list; one visited client.
MoClose(o, c) == CanParse(o) /\ o \in oper_list /\ c \in unknown_list /\ Exit(c)

\* KILL, or NICK overriding an unregistered holder of the nick.
MoKill(o, c) ==
    /\ CanParse(o) /\ IsRegistered(o)
    /\ c \in global_client_list /\ status[c] \in {"client", "unknown"}
    /\ Exit(c)

MoSquit(o, c) == CanParse(o) /\ IsRegistered(o) /\ c \in serv_list /\ Exit(c)

-----------------------------------------------------------------------------
(* Outgoing connections: serv_connect and serv_connect_callback.            *)

\* No socket or no connect{} block: make_client, SetDead, exit_client.
ServConnectFails(c) ==
    /\ phase = "run" /\ status[c] = "none"
    /\ status' = [status EXCEPT ![c] = "unknown"]
    /\ closing' = closing \cup {c}
    /\ dead_list' = [dead_list EXCEPT ![c] = @ + 1]
    /\ \E s \in FailedWrites(Reached(c) \ {c}) :
          DeadLinkOnWrite(s) /\ dead' = dead \cup {c} \cup Range(s)
    /\ UNCHANGED <<phase, finished, auth, watch, listVars, Count_local, listenerVars>>

ServConnect(c) ==
    /\ phase = "run" /\ status[c] = "none"
    /\ status' = [status EXCEPT ![c] = "connecting"]
    /\ unknown_list' = unknown_list \cup {c}
    /\ global_client_list' = global_client_list \cup {c}
    /\ watch' = [watch EXCEPT ![c] = "connect"]
    /\ UNCHANGED <<phase, closing, dead, finished, auth, local_client_list, serv_list,
                   oper_list, exitVars, listenerVars>>

\* COMM_OK: the handshake is sent; the socket is read only if the sends held.
ServConnectOk(c) ==
    /\ phase = "run" /\ watch[c] = "connect"
    /\ status' = [status EXCEPT ![c] = "handshake"]
    /\ \E s \in FailedWrites(Reached(c)) :
          /\ Write(s)
          /\ watch' = [watch EXCEPT ![c] = IF c \in dead' THEN "none" ELSE "read"]
    /\ UNCHANGED <<phase, closing, finished, auth, listVars, dead_list, Count_local,
                   listenerVars>>

\* Refused or timed out: dead_link_on_write, which a defunct client ignores.
ServConnectError(c) ==
    /\ phase = "run" /\ watch[c] = "connect"
    /\ watch' = [watch EXCEPT ![c] = "none"]
    /\ \E s \in FailedWrites(Reached(c)) :
          Write(s) /\ c \in dead'
    /\ UNCHANGED <<phase, status, closing, finished, auth, listVars, dead_list, Count_local,
                   listenerVars>>

\* The connect{} block was removed by a rehash meanwhile.
ServConnectLostConf(c) == watch[c] = "connect" /\ Exit(c)

-----------------------------------------------------------------------------
(* Timed and administrative exits.                                          *)

\* check_pings_list: ping timeout, reject_delay, idle limit.
CheckPings(c) ==
    /\ c \in local_client_list \cup serv_list /\ c \notin dead
    /\ Exit(c)

\* Mutant: the auth flag is tested the wrong way round.
CheckUnknownsWrong(c) == c \in unknown_list /\ c \notin finished /\ Exit(c)

\* check_unknowns_list: 30 seconds after auth finished.
CheckUnknowns(c) == c \in unknown_list /\ c \in finished /\ Exit(c)

\* check_conf_klines after a rehash: bans on clients, D-lines on unknowns.
CheckConfKlines(c) ==
    /\ c \in unknown_list \/ (c \in local_client_list /\ c \notin dead)
    /\ Exit(c)

\* Mutant: a closed listener is freed while clients refer to it.
RehashFrees(O) ==
    /\ phase = "run"
    /\ active' = O /\ ListenerPollList' = O
    /\ UNCHANGED <<phase, flagVars, auth, watch, listVars, exitVars, listener_of, ref_count>>

\* rehash: close_listeners, then add_listener for the ports O of the new file
\* whose socket could be opened (a port that could not is closed again).
Rehash(O) ==
    /\ phase = "run"
    /\ active' = O
    /\ ListenerPollList' = O \cup {l \in ListenerPollList : ref_count[l] # 0}
    /\ UNCHANGED <<phase, flagVars, auth, watch, listVars, exitVars, listener_of, ref_count>>

-----------------------------------------------------------------------------
(* The tail of io_loop.                                                     *)

\* Mutant: memory is freed before the aborted clients exited.
BeginAbortSkips ==
    /\ phase = "run"
    /\ phase' = "free"
    /\ UNCHANGED <<flagVars, auth, watch, listVars, exitVars, listenerVars>>

\* DLINK_FOREACH_SAFE(ptr, eac_next, abort_list.head) starts.
BeginAbort ==
    /\ phase = "run"
    /\ phase' = "abort"
    /\ eac_next' = IF abort_list = <<>> THEN NULL ELSE Head(abort_list)
    /\ UNCHANGED <<flagVars, auth, watch, listVars, abort_list, dead_list, Count_local,
                   listenerVars>>

\* One lap: eac_next moves on, the node is deleted, the client exits.  Every
\* lap deletes the node it visits, so the node is always the first one.
LapClient == Head(abort_list)

AbortLap ==
    /\ phase = "abort" /\ eac_next # NULL
    /\ LET c    == LapClient
           next == IF Len(abort_list) = 1 THEN NULL ELSE abort_list[2]
       IN  \E s \in FailedWrites(Reached(c)) :
              QueueAborts(Tail(abort_list), next, s) /\ ExitClient(c, s)
    /\ UNCHANGED phase

\* Mutant: a lap that aborted nobody frees nobody.
EndAbortSkips ==
    /\ phase = "abort" /\ eac_next = NULL
    /\ phase' = "send"
    /\ UNCHANGED <<flagVars, auth, watch, listVars, exitVars, listenerVars>>

EndAbort ==
    /\ phase = "abort" /\ eac_next = NULL
    /\ phase' = "free"
    /\ UNCHANGED <<flagVars, auth, watch, listVars, exitVars, listenerVars>>

\* free_exited_clients and free_client: the slots of dead_list are free again,
\* and a closed listener goes with its last client.
Freed == {c \in Client : dead_list[c] > 0}

FreeExitedClients ==
    LET refs(l) == ref_count[l] - Cardinality({c \in Freed : listener_of[c] = l})
    IN  /\ phase = "free"
        /\ phase' = "send"
        /\ status' = [c \in Client |-> IF c \in Freed THEN "none" ELSE status[c]]
        /\ closing' = closing \ Freed
        /\ dead' = dead \ Freed
        /\ finished' = finished \ Freed
        /\ dead_list' = [c \in Client |-> 0]
        /\ listener_of' = [c \in Client |-> IF c \in Freed THEN NULL ELSE listener_of[c]]
        /\ ref_count' = [l \in Listener |-> refs(l)]
        /\ ListenerPollList' =
              {l \in ListenerPollList : l \in active \/ refs(l) # 0 \/ ref_count[l] = 0}
        /\ UNCHANGED <<auth, watch, listVars, abort_list, eac_next, Count_local, active>>

\* send_queued_all: write errors put clients on abort_list until the next lap.
SendQueuedAll ==
    /\ phase = "send"
    /\ phase' = "run"
    /\ \E s \in FailedWrites({c \in unknown_list \cup local_client_list \cup serv_list :
                                 ~IsDefunct(c)}) : Write(s)
    /\ UNCHANGED <<status, closing, finished, auth, watch, listVars, dead_list, Count_local,
                   listenerVars>>

-----------------------------------------------------------------------------
ClientNext(c) ==
    \/ \E l \in Listener : AcceptToAuth(l, c) \/ AcceptToSsl(l, c) \/ AcceptFails(l, c)
    \/ SslDone(c) \/ SslFails(c)
    \/ ReleaseAuthClient(c)
    \/ ReadExits(c) \/ ReadDefunct(c) \/ SendMessages(c)
    \/ RegisterLocalUser(c) \/ ServerEstab(c)
    \/ OperUp(c) \/ OperDown(c)
    \/ \E o \in Client : MoClose(o, c) \/ MoKill(o, c) \/ MoSquit(o, c)
    \/ ServConnect(c) \/ ServConnectFails(c)
    \/ ServConnectOk(c) \/ ServConnectError(c) \/ ServConnectLostConf(c)
    \/ CheckPings(c) \/ CheckUnknowns(c) \/ CheckConfKlines(c)

LoopNext == BeginAbort \/ AbortLap \/ EndAbort \/ FreeExitedClients \/ SendQueuedAll

Next ==
    \/ \E c \in Client : ClientNext(c)
    \/ \E O \in SUBSET Listener : Rehash(O)
    \/ LoopNext

Spec == Init /\ [][Next]_vars

\* io_loop never stops going round, auth ends (its timers, module
\* AuthResolver), a connect attempt ends (comm_connect_timeout) and the
\* check_pings event keeps visiting unknown_list.
ConnectEnds(c) == ServConnectOk(c) \/ ServConnectError(c) \/ ServConnectLostConf(c)

Fairness ==
    /\ WF_vars(LoopNext)
    /\ \A c \in Client :
          /\ SF_vars(ReleaseAuthClient(c))
          /\ SF_vars(ConnectEnds(c))
          /\ SF_vars(CheckUnknowns(c))

FairSpec == Spec /\ Fairness

-----------------------------------------------------------------------------
(* Safety.                                                                  *)

Listed == unknown_list \cup local_client_list \cup serv_list

\* Nothing the program can still reach - a list, the abort queue, its cursor,
\* an AuthRequest, an fd handler - holds a client that was freed.
NoDanglingClient ==
    /\ unknown_list \cup local_client_list \cup serv_list \cup oper_list
          \cup global_client_list \cup auth \cup Range(abort_list) \subseteq Allocated
    /\ \A c \in Client : watch[c] # "none" => c \in Allocated
    /\ eac_next # NULL => eac_next \in Range(abort_list)

\* exit_one_client runs once in a client's life (its assertion on dead_list),
\* and a client that exited is off every list, without auth and handlers (the
\* assertions at the end of exit_client).
ExitedOnce ==
    \A c \in Client :
        /\ dead_list[c] = IF c \in closing THEN 1 ELSE 0
        /\ c \in closing =>
              /\ c \in dead
              /\ c \notin unknown_list \cup local_client_list \cup serv_list
                          \cup oper_list \cup global_client_list \cup auth
              /\ watch[c] = "none"

\* Count.local counts local_client_list, up to the limit.
CountInv == Count_local = Cardinality(local_client_list) /\ Count_local <= MaxLocal

\* A live client is on the one list its status says, and counted.
OneHome ==
    /\ \A c \in Allocated \ closing :
          /\ c \in unknown_list <=> ~IsRegistered(c)
          /\ c \in local_client_list <=> status[c] = "client"
          /\ c \in serv_list <=> status[c] = "server"
    /\ CountInv

\* When memory is about to be freed the abort queue is empty and no client is
\* half dead: exit_aborted_clients also took those that were queued by the
\* exits it made itself ("don't let exit_aborted_clients() finish yet").
AbortsDrained ==
    phase = "free" => abort_list = <<>> /\ dead = closing

\* A client is queued for abort once (the assertion in dead_link_on_write).
QueuedOnce == \A i, j \in DOMAIN abort_list : abort_list[i] = abort_list[j] => i = j

\* auth is released to a client that is not linked yet ("already linked").
ReleasedOnce == auth \cap (finished \cup global_client_list) = {}

\* ref_count is the number of clients that hold the listener, and a listener
\* some client or the configuration still uses is not freed.
ListenerRefs ==
    /\ \A l \in Listener : ref_count[l] = Cardinality({c \in Client : listener_of[c] = l})
    /\ \A c \in Client : listener_of[c] # NULL => listener_of[c] \in ListenerPollList
    /\ active \subseteq ListenerPollList

\* The inductive invariant.  QueueInv: abort_list holds exactly the clients
\* marked dead that did not exit yet, plus some that exited since, each once,
\* and eac_next is its first node; between the end of exit_aborted_clients and
\* the flush it is empty, and nobody is dead without having exited.
QueueInv ==
    /\ Range(abort_list) \subseteq dead
    /\ dead \subseteq Range(abort_list) \cup closing
    /\ QueuedOnce
    /\ eac_next = IF abort_list = <<>> THEN NULL ELSE Head(abort_list)
    /\ phase \in {"free", "send"} => abort_list = <<>>
    /\ phase = "send" => closing = {}

\* ClientInv: what the flags, the handler and the lists of one slot say of
\* each other.
ClientInv(c) ==
    /\ status[c] = "none" =>
          /\ c \notin closing \cup dead \cup finished \cup auth \cup global_client_list
          /\ c \notin Listed \cup oper_list
          /\ watch[c] = "none"
    /\ dead_list[c] = IF c \in closing THEN 1 ELSE 0
    /\ c \in closing =>
          /\ c \in dead
          /\ c \notin Listed \cup oper_list \cup global_client_list \cup auth
          /\ watch[c] = "none"
    /\ status[c] # "none" /\ c \notin closing =>
          /\ c \in unknown_list <=> ~IsRegistered(c)
          /\ c \in local_client_list <=> status[c] = "client"
          /\ c \in serv_list <=> status[c] = "server"
    /\ c \in oper_list => status[c] = "client"
    /\ c \in auth =>
          status[c] = "unknown" /\ watch[c] = "none"
             /\ c \notin finished /\ c \notin global_client_list
    /\ watch[c] = "ssl" =>
          status[c] = "unknown" /\ c \notin finished /\ c \notin global_client_list
    /\ watch[c] = "connect" => status[c] = "connecting"

ConnInv == TypeOK /\ QueueInv /\ CountInv /\ \A c \in Client : ClientInv(c)

(* What a step may never do. *)

\* Walks over client lists keep a saved next node while the visited client's
\* handler runs: no step takes two clients off the lists.
WalkSafe == [][\A c, d \in Listed \ Listed' : c = d]_vars

\* With auth as a black box the connections keep AuthService's promise.
Service == INSTANCE AuthService WITH
    pending  <- auth,
    released <- finished \ closing
ServiceSpec == Service!Spec

(* Liveness. *)

\* A client a write failed on, or that exited, is freed.
DeadIsFreed == \A c \in Client : c \in dead ~> c \notin dead

\* A released connection that never registers is closed.
FinishedLeaveUnknown ==
    \A c \in Client : (c \in unknown_list /\ c \in finished) ~> c \notin unknown_list
=============================================================================
