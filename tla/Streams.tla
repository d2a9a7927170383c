------------------------------ MODULE Streams ------------------------------
(***************************************************************************)
(* One local connection between its socket and its two queues: read_packet *)
(* and parse_client_queued of packet.c with their flood control, and       *)
(* send_message, send_queued_write and sendq_unblocked of send.c, over     *)
(* plain TCP or over TLS, where a read may have to wait for room to write  *)
(* and a write for something to read.  A line is its kind; the send queue  *)
(* is the number of lines in it.                                           *)
(***************************************************************************)
EXTENDS Integers, Sequences

CONSTANTS
    MaxFlood,       \* MAX_FLOOD
    BurstFactor,    \* MAX_FLOOD_BURST over MAX_FLOOD
    ClientFlood,    \* general::client_flood, in lines
    MaxSendq,       \* max_sendq of the class, in lines
    WriteAt,        \* send_message writes a queue longer than this at once
    MaxRoom,        \* lines the socket takes before it would block
    NoOperFlood,    \* general::no_oper_flood
    MaxLines,       \* bound: lines the peer sends, by transport
    MaxDelivered,   \* bound: lines others send to the client
    MaxTicks        \* bound: flood timers in a window of RateBounded

ASSUME StreamAssumption ==
    /\ {MaxFlood, BurstFactor} \subseteq Nat \ {0}
    /\ {ClientFlood, MaxSendq, WriteAt, MaxRoom, MaxDelivered, MaxTicks} \subseteq Nat
    /\ MaxLines \in [{"plain", "tls"} -> Nat]
    /\ NoOperFlood \in BOOLEAN

VARIABLES
    client,     \* the struct Client and its socket: see Connection
    sent,       \* lines the peer has sent
    delivered,  \* lines others have sent to the client
    window      \* history: lines parsed and flood timers since some moment

streamVars == <<client, sent, delivered, window>>

\* What flood control and the life of a connection tell apart: a line that
\* registers, one whose handler ends the grace period (m_privmsg), OPER, QUIT,
\* and one that is only answered (PING).
LineKind == {"register", "message", "oper", "quit", "ping"}

Connection ==
    [status : {"unknown", "client", "oper", "dead", "closed"},
     transport : {"plain", "tls"}, ssl : {"open", "wantRead", "wantWrite"},
     renegotiated : BOOLEAN, net : Seq(LineKind), recvq : Seq(LineKind),
     sendq : 0..MaxSendq, room : 0..MaxRoom, eof : BOOLEAN, blocked : BOOLEAN,
     pendingRead : BOOLEAN, wantRead : BOOLEAN, wantWrite : BOOLEAN,
     floodDone : BOOLEAN, flush : BOOLEAN,
     sentParsed : Nat, allowRead : Nat, parsed : Nat]

StreamTypeOK ==
    /\ client \in Connection
    /\ {sent, delivered} \subseteq Nat
    /\ window \in [lines : Int, ticks : Nat]

IsDefunct(c) == c.status \in {"dead", "closed"}
IsClient(c) == c.status \in {"client", "oper"}
Alive == ~IsDefunct(client)

Least(i, j) == IF i < j THEN i ELSE j

\* Op(x), with x evaluated once.
Using(x, Op(_)) == CHOOSE y \in {Op(z) : z \in {x}} : TRUE

-----------------------------------------------------------------------------
(* Output *)

\* send_queued_write: what fits goes out; a rest waits for the write event,
\* except when TLS must read first, and the next lap tries again.
SendQueuedWrite(c) ==
    LET n == Least(c.room, c.sendq) IN
    CASE IsDefunct(c) \/ c.blocked \/ c.sendq = 0 \/ c.ssl = "wantRead" -> c
      [] OTHER ->
           [c EXCEPT !.ssl = IF n > 0 THEN "open" ELSE @,
                     !.sendq = @ - n, !.room = @ - n,
                     !.blocked = n < c.sendq,
                     !.wantWrite = @ \/ n < c.sendq]

\* dead_link_on_write: the queues go, exit_aborted_clients does the rest.
DeadLinkOnWrite(c) == [c EXCEPT !.status = "dead", !.recvq = <<>>, !.sendq = 0]

SendMessage(c) ==
    LET queued == [c EXCEPT !.sendq = @ + 1] IN
    IF IsDefunct(c) THEN c
    ELSE IF c.sendq + 1 > MaxSendq THEN DeadLinkOnWrite(c)
    ELSE IF c.sendq + 1 \in (WriteAt + 1)..MaxSendq THEN SendQueuedWrite(queued)
    ELSE queued

\* exit_client and close_connection: the descriptor is closed, both its events
\* and its flush timer with it.
Close(c) ==
    [c EXCEPT !.status = "closed", !.recvq = <<>>, !.sendq = 0, !.net = <<>>,
              !.wantRead = FALSE, !.wantWrite = FALSE, !.flush = FALSE]

-----------------------------------------------------------------------------
(* Input *)

\* Mutant: the burst outlives the grace period.
FloodEndgraceKeeps(c) ==
    IF c.floodDone THEN c ELSE [c EXCEPT !.floodDone = TRUE, !.sentParsed = 0]

FloodEndgrace(c) ==
    IF c.floodDone THEN c
    ELSE [c EXCEPT !.floodDone = TRUE, !.allowRead = MaxFlood, !.sentParsed = 0]

\* client_dopacket: what the handler of the line does to the connection.
Handle(c, line) ==
    CASE line = "quit" -> Close(c)
      [] line = "register" /\ ~IsClient(c) ->
           SendMessage([c EXCEPT !.status = "client", !.allowRead = BurstFactor * MaxFlood])
      [] line = "message" /\ IsClient(c) -> FloodEndgrace(c)
      [] line = "oper" /\ IsClient(c) ->
           SendMessage([FloodEndgrace(c) EXCEPT !.status = "oper"])
      [] OTHER -> SendMessage(c)

\* The flood check of the loop, on what the client was when the loop began.
MayParse(was, c, unknownLines) ==
    IF IsDefunct(c) THEN FALSE
    ELSE IF ~IsClient(c) THEN unknownLines < MaxFlood
    ELSE c.sentParsed < (IF was = "oper" /\ NoOperFlood THEN 4 ELSE 1) * c.allowRead

\* One turn of a loop of parse_client_queued; acc.lines counts those of the
\* unknown client's loop.
ParseLine(was, acc, line) ==
    LET c == acc.client
        taken == [c EXCEPT !.recvq = Tail(@), !.parsed = @ + 1]
        Counted(handled) ==
          IF IsClient(c) THEN [acc EXCEPT !.client = [handled EXCEPT !.sentParsed = @ + 1]]
                         ELSE [client |-> handled, lines |-> acc.lines + 1]
    IN IF MayParse(was, c, acc.lines) THEN Using(Handle(taken, line), Counted) ELSE acc

ParseClientQueued(c) ==
    LET after[n \in 0..Len(c.recvq)] ==
          IF n = 0 THEN [client |-> c, lines |-> 0]
                   ELSE Using(after[n - 1], LAMBDA acc : ParseLine(c.status, acc, c.recvq[n]))
    IN after[Len(c.recvq)].client

ExcessFlood(c) ==
    Len(c.recvq) > ClientFlood /\ ~(NoOperFlood /\ c.status = "oper")

\* What read_packet does with the lines it gets: the loop reads until the
\* socket would block, on TLS the end of the stream too.
Received(c) ==
    LET Goes(parsed) ==
          IF c.net = <<>> /\ c.eof THEN Close(c)
          ELSE IF IsDefunct(parsed) THEN parsed
          ELSE IF ExcessFlood(parsed) THEN Close(parsed)
          ELSE IF c.transport = "tls" /\ c.eof THEN Close(parsed)
          ELSE [parsed EXCEPT !.wantRead = TRUE]
    IN Using(ParseClientQueued([c EXCEPT !.net = <<>>, !.recvq = @ \o c.net]), Goes)

\* Mutant: the write event is not told of the read that waits for it.
ReadPacketForgets(c) ==
    IF IsDefunct(c) THEN c
    ELSE IF c.ssl # "open" /\ c.eof THEN Close(c)
    ELSE IF c.ssl = "wantRead" THEN [c EXCEPT !.wantRead = TRUE]
    ELSE IF c.ssl = "wantWrite" /\ c.room = 0 THEN [c EXCEPT !.blocked = TRUE, !.wantWrite = TRUE]
    ELSE Received([c EXCEPT !.ssl = "open"])

StreamReadPacket(c) ==
    IF IsDefunct(c) THEN c
    ELSE IF c.ssl # "open" /\ c.eof THEN Close(c)
    ELSE IF c.ssl = "wantRead" THEN [c EXCEPT !.wantRead = TRUE]
    ELSE IF c.ssl = "wantWrite" /\ c.room = 0 THEN
           [c EXCEPT !.pendingRead = TRUE, !.blocked = TRUE, !.wantWrite = TRUE]
    ELSE Received([c EXCEPT !.ssl = "open"])

\* Mutant: a pending read goes first and leaves the queue blocked.
SendqUnblockedReads(c) ==
    IF c.pendingRead THEN StreamReadPacket([c EXCEPT !.pendingRead = FALSE])
                     ELSE [c EXCEPT !.blocked = FALSE]

SendqUnblocked(c) ==
    LET unblocked == [c EXCEPT !.blocked = FALSE, !.pendingRead = FALSE] IN
    IF c.pendingRead THEN StreamReadPacket(unblocked) ELSE unblocked

\* Mutant: the timer is set again only while lines wait.
FloodRecalcIdle(c) ==
    LET allowed == [c EXCEPT !.sentParsed = IF c.floodDone /\ @ > 2 THEN @ - 2 ELSE 0]
    IN Using(ParseClientQueued(allowed),
             LAMBDA parsed : [parsed EXCEPT !.flush = parsed.recvq # <<>>])

\* flood_recalc sets its timer again, unless the client is dead.
FloodRecalc(c) ==
    LET allowed == [c EXCEPT !.sentParsed = IF c.floodDone /\ @ > 2 THEN @ - 2 ELSE 0]
    IN Using(ParseClientQueued(allowed),
             LAMBDA parsed : [parsed EXCEPT !.flush = ~IsDefunct(parsed)])

-----------------------------------------------------------------------------
(* The event loop *)

NoWindow == [lines |-> -1, ticks |-> 0]

\* The new state of the client, and the history of its open window.
Becomes(new, ticks) ==
    \E c \in {new} :
      /\ client' = c
      /\ window' = IF window = NoWindow \/ IsDefunct(c) \/ window.ticks + ticks > MaxTicks
                   THEN NoWindow
                   ELSE [lines |-> window.lines + c.parsed - client.parsed,
                         ticks |-> window.ticks + ticks]

Readable == client.net # <<>> \/ client.eof

ReadEvent ==
    /\ client.wantRead /\ Readable
    /\ Becomes(StreamReadPacket([client EXCEPT !.wantRead = FALSE]), 0)
    /\ UNCHANGED <<sent, delivered>>

WriteEvent ==
    /\ client.wantWrite /\ (client.room > 0 \/ client.eof)
    /\ Becomes(SendqUnblocked([client EXCEPT !.wantWrite = FALSE]), 0)
    /\ UNCHANGED <<sent, delivered>>

FlushTimer ==
    /\ client.flush
    /\ Becomes(FloodRecalc([client EXCEPT !.flush = FALSE]), 1)
    /\ UNCHANGED <<sent, delivered>>

\* send_queued_all; a peer that is gone may fail the write.
SendQueuedAll ==
    /\ Alive /\ ~client.blocked /\ client.sendq > 0
    /\ \/ Becomes(SendQueuedWrite(client), 0)
       \/ client.eof /\ Becomes(DeadLinkOnWrite(client), 0)
    /\ UNCHANGED <<sent, delivered>>

ExitAborted ==
    /\ client.status = "dead"
    /\ Becomes(Close(client), 0)
    /\ UNCHANGED <<sent, delivered>>

Deliver ==
    /\ IsClient(client) /\ delivered < MaxDelivered
    /\ Becomes(SendMessage(client), 0)
    /\ delivered' = delivered + 1
    /\ UNCHANGED sent

-----------------------------------------------------------------------------
(* The peer *)

PeerSends ==
    /\ ~client.eof /\ client.status # "closed" /\ sent < MaxLines[client.transport]
    /\ \E line \in LineKind : Becomes([client EXCEPT !.net = Append(@, line)], 0)
    /\ sent' = sent + 1
    /\ UNCHANGED delivered

PeerReads ==
    /\ ~client.eof /\ client.room < MaxRoom
    /\ Becomes([client EXCEPT !.room = MaxRoom], 0)
    /\ UNCHANGED <<sent, delivered>>

PeerCloses ==
    /\ ~client.eof /\ client.status # "closed"
    /\ Becomes([client EXCEPT !.eof = TRUE], 0)
    /\ UNCHANGED <<sent, delivered>>

\* TLS must read, or write, before it can do anything else; once.
PeerRenegotiates ==
    /\ client.transport = "tls" /\ client.ssl = "open" /\ ~client.renegotiated
    /\ \E want \in {"wantRead", "wantWrite"} :
         Becomes([client EXCEPT !.ssl = want, !.renegotiated = TRUE], 0)
    /\ UNCHANGED <<sent, delivered>>

PeerAnswers ==
    /\ client.ssl = "wantRead"
    /\ Becomes([client EXCEPT !.ssl = "open"], 0)
    /\ UNCHANGED <<sent, delivered>>

\* History: a window opens at any moment after the grace period; one transport
\* is enough, flood control sees lines only.
OpenWindow ==
    /\ window = NoWindow /\ Alive /\ client.floodDone /\ client.transport = "plain"
    /\ window' = [lines |-> 0, ticks |-> 0]
    /\ UNCHANGED <<client, sent, delivered>>

\* release_auth_client has read once and found nothing; start_auth has set the
\* flush timer.
NewConnection(transport) ==
    [status |-> "unknown", transport |-> transport, ssl |-> "open",
     renegotiated |-> FALSE, net |-> <<>>, recvq |-> <<>>, sendq |-> 0,
     room |-> MaxRoom, eof |-> FALSE, blocked |-> FALSE, pendingRead |-> FALSE,
     wantRead |-> TRUE, wantWrite |-> FALSE, floodDone |-> FALSE, flush |-> TRUE,
     sentParsed |-> 0, allowRead |-> MaxFlood, parsed |-> 0]

StreamInit ==
    /\ client \in {NewConnection(transport) : transport \in {"plain", "tls"}}
    /\ sent = 0 /\ delivered = 0 /\ window = NoWindow

StreamNext ==
    \/ ReadEvent \/ WriteEvent \/ FlushTimer \/ SendQueuedAll \/ ExitAborted
    \/ Deliver \/ PeerSends \/ PeerReads \/ PeerCloses \/ PeerRenegotiates
    \/ PeerAnswers \/ OpenWindow

\* The loop of io_loop runs every event, timer and send_queued_all again and
\* again; the peer, while it is there, reads what it is sent and answers TLS.
StreamFairness ==
    /\ WF_streamVars(ReadEvent) /\ WF_streamVars(WriteEvent)
    /\ WF_streamVars(FlushTimer) /\ WF_streamVars(SendQueuedAll)
    /\ WF_streamVars(ExitAborted)
    /\ WF_streamVars(PeerReads) /\ WF_streamVars(PeerAnswers)

StreamSpec == StreamInit /\ [][StreamNext]_streamVars /\ StreamFairness

-----------------------------------------------------------------------------
(* Properties *)

\* A connection that is not dead is never deaf or mute: it waits for something
\* to read, or has a read pending on the write event, and a blocked queue waits
\* for that event (read_packet, sendq_unblocked, send_queued_write).
NeverDeaf ==
    Alive =>
      /\ client.wantRead \/ (client.pendingRead /\ client.wantWrite)
      /\ client.blocked => client.wantWrite
      /\ client.flush

\* After the grace period no second, nor any other window, sees more lines of
\* a user than MAX_FLOOD and two a flood timer; an operator may have four times
\* the burst (parse_client_queued, flood_recalc, flood_endgrace).
RateBounded ==
    window # NoWindow =>
      window.lines <= 2 * window.ticks
                      + (IF client.status = "oper" /\ NoOperFlood THEN 4 ELSE 1) * MaxFlood

\* What is in the receive queue is parsed in the end, or the client is gone:
\* flood control delays, and a peer with no more to send has its queue emptied
\* (flood_recalc, parse_client_queued).
LinesServed == client.recvq # <<>> ~> client.recvq = <<>> \/ ~Alive

\* What is queued for a peer that reads goes out, or the client is gone
\* (send_queued_write, sendq_unblocked).
OutputDrains == client.sendq > 0 ~> client.sendq = 0 \/ ~Alive
=============================================================================
