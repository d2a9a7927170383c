# UnIRC ircd: TLA+ models

TLA+ specifications of the UnIRC IRC daemon (an ircd-hybrid 7.2 derivative),
their TLC configurations and TLAPS proofs. Every definition is written from the
C code under `src/`; paths below are relative to the repository.

## 1. The system

The daemon is one process and one thread. `io_loop` (`src/ircd.c`) goes round
for ever: pending bans, timed events, `comm_select` (which runs fd handlers and
fd timeouts), `exit_aborted_clients`, `free_exited_clients`,
`send_queued_all`, and a rehash if a signal asked for one. Nothing preempts a
handler; the interleaving that matters is the order in which handlers of
different connections, timers, DNS answers and other servers' messages run, and
what a handler does to clients other than its own while somebody further up the
stack still holds pointers to them.

| Part | State | Operations | Hard parts | What makes it right |
|---|---|---|---|---|
| Local connections (`client.c`, `s_bsd.c`, `listener.c`, `s_user.c`, `s_serv.c`) | status, flags, `unknown_list`, `local_client_list`, `serv_list`, `oper_list`, `global_client_list`, `abort_list`, `eac_next`, `dead_list`, fd handlers, listeners' `ref_count`, `Count.local` | accept, TLS handshake, auth, registration, connect, exits of all kinds, free, rehash | a write to any client can fail in the middle of a handler; a client can be asked to exit twice; loops that exit the clients they walk over | a client exits once, is on the list of its status, nothing refers to freed memory, everything dead is freed |
| Auth and resolver (`s_auth.c`, `irc_res.c`) | AuthRequest with its DNS/ident/Crit flags, `auth_doing_dns_list`, `auth_doing_ident_list`, the resolver's `request_list` | start, ident connect/read/timeout, DNS answer/timeout/retry, delete on exit | synchronous callbacks, lookups that end in any order, late and duplicate answers, loops whose callbacks run client commands | a client is released once and only when both lookups ended; no callback for a request that is gone; auth ends |
| Nicks (`m_nick.c`, `m_kill.c`, `hash.c`) | nick hash, TS of nicks | NICK, UID, collisions, KILL | messages that cross on a link, equal timestamps | one owner per nick, servers agree once messages are delivered |
| Channels (`m_sjoin.c`, `channel.c`, `channel_mode.c`, ...) | channel TS, members and their status, modes, ban lists | SJOIN, JOIN, PART, KICK, MODE, TMODE, BMASK, TB | merges of bursts that cross each other and MODE changes | no status kept from a younger channel, servers agree |
| Server links (`s_serv.c`, `m_server.c`, `m_eob.c`) | server tree, capabilities, hub/leaf masks, lazy-link bits | handshake, burst, EOB, SQUIT | two links to one server at once, a link dying in its burst | the servers form a tree, a split removes a whole subtree |
| Configuration (`s_conf.c`, `hostmask.c`) | conf records with `clients` counts, classes, IP hash | attach, detach, rehash | a record removed by a rehash while clients use it; counts drifting | counts are the number of users, limits hold, records freed with the last user |
| Output and flood control (`send.c`, `dbuf.c`, `packet.c`) | sendq/recvq blocks, `allow_read`, `sent_parsed` | put, partial write, delete, parse, recalc | SendQ limit, partial writes, boundaries of blocks | bytes leave in order, nothing lost or doubled, limits hold |
| Events and fds (`event.c`, `fdlist.c`, `s_bsd_*.c`) | event table, next-run cache, fd hash, `fd_next_in_loop` | add, delete, run, clock set back, timeouts | cached minimum going stale, fds closed while timeouts are walked | due events run, no timeout of a closed fd |
| Channel ban cache (`channel.c`, `channel_mode.c`, `m_chghost.c`, `m_services.c`) | two flags of a local member | `can_send` fills them; list, nick and host changes, REHASH and SJOIN make them stale | everything that changes an input must forget the answer | what is remembered is what would be computed |
| Lists of services (`m_gline.c`, `s_gline.c`, `unirc.c`) | G-lines; PROXY, IPBR, SPAMSG and VLINK lists | add, remove, clear, burst | no timestamp on an entry; find by match, remove by comparison | every server keeps what services said |
| Bans of one server (`m_kline.c`, `m_xline.c`, `m_resv.c`, ..., `resv.c`, `s_conf.c`, `hostmask.c`) | bans in memory, one file for each type, `rehashed_klines` | place, take back, expire, REHASH, restart, `check_conf_klines`, `verify_access` | a file that cannot be written or read; a temporary ban beside a permanent one; a REHASH that reads everything again | what was asked for is in force, in memory and in the file, and nothing else; nobody stays on under a ban |
| Servlink (`servlink/`) | slink buffers, state flags | commands, partial reads and writes | back-pressure both ways | bytes in order, no deadlock |
| Strings and storage (`match.c`, `balloc.c`, `whowas.c`) | pools, whowas ring | match, alloc/free, ring overwrite | boundaries | equal to their reference definitions |

Not modelled at all: the configuration grammar, log and file output, replies to
queries (WHO, STATS, INFO, ...), the poll back ends, cloaks and cryptography,
vendored code. They hold no protocol state or only format text (section 7).

### What each part must keep, and what makes that hard

* *Connections.* A failed write marks a client dead and queues it on
  `abort_list`; the client is exited one or more turns of a loop later, by
  which time another path may have exited it, and its own exit sends messages
  that fail on others. `exit_client` must therefore be idempotent, the queue
  must be drained in full before `free_exited_clients`, and a walk over a list
  must survive what its visits do.
* *Auth and resolver.* `release_auth_client` runs the commands that the client
  has already sent, from within a lookup's callback, from within a timeout
  loop. Those commands can exit any number of other clients, whose lookups sit
  on the lists being walked.
* *Nicks.* Every server decides a collision from its own tables, and the lines
  that tell the others cross on the links. Nobody tells a server that its
  decision was overtaken; the TS rules must make the decisions agree.
* *Channels.* The same problem with a richer state: the channel TS decides whose
  modes and statuses survive, and mode changes carry the TS they were made
  under. A server that saw its last member go forgets the TS.
* *Server links.* Two servers may connect to each other at once, three may close a
  ring, and each finds out from what it happens to read first. Nobody is in
  charge: every server cuts links by its own tables, and what is left must be a
  forest on which everybody agrees.
* *Configuration.* Items and classes are used by clients that outlive the file
  they came from; counts kept by hand decide limits and frees.
* *Queues and flood control.* A connection always needs something to wake it: a
  read or write event, or the flood timer. Over TLS a read may wait for room to
  write and a write for something to read.
* *Bans.* A ban lives in two places, memory and a file, that each command changes one
  after the other, and whatever rewrites a file reads all of them again.
* *Ban cache, events, lists of services.* A remembered answer, a cached minimum, a
  copy on every server, which two pieces of code keep in step by convention.

## 2. Plan

| | Module | Composes / abstracts | Main properties | State |
|---|---|---|---|---|
| A | `Connections` | implements `AuthService` | `NoDanglingClient`, `AbortsDrained`, `ListenerRefs`, `WalkSafe`, closing and the end of registration | modelled, checked, proved |
| B | `AuthService`, `AuthResolver` | `AuthService` is the abstract promise; `AuthResolver` and `Connections` both implement it | `OneLookup`, `NoLimbo`, `NextLinked`, auth ends | modelled, checked, proved |
| C | `NickTS` | a network of servers, one table each | `NickUnique`, `NoIdCollision`, `OlderKeepsNick`, `Converged`, `NoGhost`, the network comes to rest | modelled, checked, proved in part |
| D | `ChannelTS` | as C, for one channel | `OpsOfThisTS`, `MembersConverge`, `StatusConverges`, `NoOperatorIgnored` | modelled, checked, proved but for status |
| E | `ServerTree` | what C and D take for granted about links | `TreeInv`, `OneTree`, links are not cut for ever | modelled, checked, proved but for liveness and ghosts |
| F | `ConfAttach` | the exits of A, three REHASHes | `ConfInv`, `CidrExact` | modelled, checked, proved |
| G | `Streams`, `Dbuf` | `Dbuf` is the queue that `Streams` counts lines of | `NeverDeaf`, `RateBounded`, `LinesServed`, `OutputDrains`, `StreamKept` | modelled, checked, proved but for liveness |
| H | `BanCache` | | `CacheFresh` | modelled, checked, proved |
| I | `Events` | | `EventsOnTime`, `SplitmodeWatched` | modelled, checked, proved |
| J | `ServiceLists` | a network of servers, one list each | `ListsAgree` | modelled, checked, proved |
| K | `Lines` | every kind of ban and RESV with its file | `BansAsAsked`, `NobodyCovered` | modelled, checked, proved |
| L | `Fdlist` | the handlers of A | no timeout or event of a closed fd | planned |
| M | `Servlink` | a pipe with back-pressure | commands whole and in order, no deadlock | planned |
| N | `Accept`, `Whowas`, `Match`, `Balloc` | reference definitions | lists on both sides agree, the ring never names a freed client | planned |
| O | `LazyLinks` | C and D with per-client hub bits | a leaf knows every client it is sent a line about | planned |

The order follows what a fault costs: A and B can bring the whole process down, C,
D and E can leave a network divided until somebody reconnects a server, the rest is
local. F to K are small and share no state; `MCLocal` puts them side by side in one
run, where a behaviour is a behaviour of one of them. `MCNetwork` does the same for
three scenarios of C and D.

Theorems worth proving next: `NobodyMissing` of `NickTS` (whom a server was told of and
does not know, a line on its way removes), along the lines of `MembersConverge` of
`ChannelTS` and `OneTree` of `ServerTree`. `NoHackedOps` without `NoLong` is false, as
the run `channel_hack_ops` shows.

## 3. What is modelled, and how it corresponds to the code

### Connections

One slot of the client heap is one element of `Client`; `status` of `"none"` means
it is not allocated. The flags that matter are sets (`closing`, `dead`,
`finished`), as are the lists whose order is never looked at. `abort_list` is a
sequence, because `eac_next` walks it in order, and `dead_list` counts how often a
client was put there, so that a double exit would show. `watch[c]` is the handler
registered on the client's fd. `phase` says where `io_loop` is: running handlers,
in `exit_aborted_clients`, freeing, flushing.

* A handler runs to its end, so it is one action: `AcceptToAuth`, `AcceptToSsl`,
  `AcceptFails`, `SslDone`, `SslFails`, `ReleaseAuthClient`, `RegisterLocalUser`,
  `ServerEstab`, `OperUp`/`OperDown`, `MoClose`, `MoKill`, `MoSquit`,
  `ServConnect` and its three endings, `ReadExits`, `ReadDefunct`.
* Any message may fail on any client it is sent to, in the middle of a handler:
  `Write(s)` takes any sequence `s` of distinct clients among those reached, in
  the order they failed. `SendMessages` is a handler that does nothing else.
* `ExitClient(c, s)` is `exit_client` with `close_connection`, `delete_auth` and
  `exit_one_client`, and the notices it sends to the rest.
* A walk over a list is one action per client visited (`CheckPings`,
  `CheckUnknowns`, `CheckConfKlines`); what a walk needs from a visit is
  the action property `WalkSafe`.
* `BeginAbort`, `AbortLap`, `EndAbort`, `FreeExitedClients`, `SendQueuedAll` are
  the tail of `io_loop`. `Rehash(O)` closes and reopens the listeners that the new
  configuration names.

Auth is a black box here (`auth` is the set of clients it has); which behaviour
it may show is `AuthService`, and both this module and `AuthResolver` are shown
to implement that.

### AuthService and AuthResolver

`AuthService` is the promise: a connection is handed in, given back at most once,
and not given back after it departed.

`AuthResolver` is `s_auth.c` over `irc_res.c`. A lookup is a pair
`<<client, kind>>` with kind `"ptr"` (the address) or `"fwd"` (the name the first
answer gave). Handlers nest here, and a nested handler sees the state the outer
one left half done, so the stack is a part of the state: `walk`, `next`, `rest`
(the timeout loop, its saved node, and what is still to visit), `answered` (the
request whose callback runs), `starting` (the client in `start_auth`), `reading`
(the client whose commands `release_auth_client` is running). A step runs the top.

* `StartAuth`, `StartDns`: the two halves of `start_auth` around the ident
  connect, which may fail synchronously.
* `AuthError`, `AuthConnectCallback`, `ReadAuthReply`: the ident side.
* `ReplyEnds`, `ReplyName`, `ReplyCname`, `ReplyFallsBack`, `RemRequest`: what a
  DNS answer makes of a request, and its removal after the callback.
* `BeginAuthTimeouts`, `TimeoutAuth`, `NotTimedOutYet` and
  `BeginResolverTimeouts`, `GiveUp`, `Resend`, `NotLateYet`, `EndWalk`: the two
  timeout loops, one lap each.
* `RestartResolver`, `ExitClient`, `ReadPacket(X)` (the commands of the released
  client, which exit the clients `X`).

Two CONSTANTS pick the environment. `CloseOnRelease`: may a client that was just
released be an operator already and send CLOSE. `RestartMayFail`: may the
resolver's socket fail to reopen.

### NickTS

`nick[s][u]` and `tsinfo[s][u]` are the entry of UID `u` in the tables of server
`s`, `unregistered` the local connections that only reserved a nick, `link` the
state of either end of a link, `queue[<<s, t>>]` the lines that `s` sent and `t`
has not parsed. A stream is in order; different streams are not. `Side` says who
is behind a link; its assumptions say no more than that the links form a tree: what is
behind one link is behind no other, and has no link to elsewhere.

* Local: `MrNick`, `RegisterLocalUser`, `ChangeLocalNick`, `ExitLocal`, `Quit`,
  `MoKill`.
* A received line: `UnknownPrefix` (`parse` with `remove_unknown`), then for UID
  and NICK an action for each outcome of `perform_nick_collides` (accepted, both
  killed, the newcomer refused, the newcomer wins), `MsQuit`, `MsKill`, `MsSquit`.
* Links: `Connect`, `ServerEstab` (with the burst), `Break`, `ReadClose`.

`left` is a budget: how many more changes, quits, kills and breaks may happen. It
is the only bound besides the sets, and the theorems hold for every value of it.

### ChannelTS

`chan[s]` is the one channel in the tables of server `s`: its TS, members, operators,
`deopped` (CHFL_DEOPPED), modes, bans, topic and topic time. An operator carries the
TS under which it was made one, which the code does not keep; a line carries the TS
its sender had. Both are history, for `OpsOfThisTS`. Links, streams and splits are
as in `NickTS`, and users are on the network all along.

* Local: `Create`, `Join`, `Part`, `Kick`, `Mode`, `LocalTopic`, and `LongMode`, a
  mode change that does not fit on one line: `send_cap_mode_changes` puts the TS of
  TMODE on the first line and goes on with MODE.
* Received: the four outcomes of `ms_sjoin` (their TS wins; equal, ours or theirs
  kept; ours wins), `MsJoin`, `MsLeave`, `MsMode` (TMODE and MODE), `MsBmask`,
  `MsTopic`, `MsTburst`, each with what it relays. An SJOIN all of whose nicks came from the
  wrong direction is passed on without its `:`, and the next server drops it (`RelaySjoin`).
  `ServerEstab` bursts the copy.
* `past` remembers what happened, because some agreements hold only up to it. A
  copy whose last member leaves is destroyed with its TS while others keep theirs
  (`"emptied"`). A KICK or a mode change can cross a rejoin of its user
  (`"again"` with `"kick"`, `"mode"`). TLC finds the disagreement for each of these
  when the exclusion is taken away; `doc/ts3.txt:314-321` knows of them.

### ServerTree

`conf` is what the servers' configurations say together. `ends[k]` are the two
servers of connection `k`, `status[k][s]` what `s` takes it for, `wire[k][s]` what was
sent to `s` on it. An entry of `global_serv_list[s]` says who introduced the server
(`up`), through which connection (`from`), and who is nearer to the tail of the list
(`below`), because the burst goes from the tail.

* `ServConnect` is CONNECT and `try_connections`; `MrServer` the first line of a
  neighbour, with the server that exists already, the pending connection that is
  overridden, the leaf that has a link, and `server_estab` with its burst.
* `SidExists`, `SidMasked`, `SidAccepted` are `ms_sid` with the hub and leaf masks;
  `UnknownPrefix` and `WrongDirection` the checks of `parse`; `MsSquit`,
  `SquitUnknown`, `MoSquit` the SQUITs; `Break` and `ReadClose` the loss of a link.
* `ExitServer` removes the server and all that hangs below it
  (`recurse_remove_clients`), and tells the other links.

An oper's SQUIT goes through every server on its way, and `ms_squit` takes it from
any link. If *b*'s oper removes *c*, which is behind *a*, and *c* links to *b*
directly, the SQUIT that *a* sends back closes the fresh link at *b*, and a server
one hop on keeps a ghost of *c*: `ms_squit` does not tell the link the SQUIT came from.
`OneTree` therefore says whom a server knows at least, and `NoGhosts`, that it knows
nobody else, is a part of `ComesToRest` and asked only as long as no oper sent a SQUIT. A
mask does what an oper does, in networks larger than the run's: in a line *a*, *b*, *c*,
*d* where *a* lets *b* introduce *c* and not *d*, *a* refuses *d* by a SQUIT of *c*; if
the link of *b* and *c* was lost and made again meanwhile, *b* has told *a* of the new *c*,
which the SQUIT then removes at *b* alone. Two servers that connect to each other at the same time may
each drop the connection the other one kept ("Overridden"), and lose both; the
network is then not connected, which no document forbids.

### Streams and Dbuf

`Streams` is one connection: `client` is its struct with the socket, a line is its
kind (one that registers, a message, OPER, QUIT, PING), and the send queue is a
number of lines. `ReadEvent` is `read_packet` with `parse_client_queued` and the
handlers of what it parses; `WriteEvent` is `sendq_unblocked`; `FlushTimer` is
`flood_recalc`, which sets itself again; `SendQueuedAll` and `ExitAborted` are the
tail of `io_loop`; `Deliver` is a line from somebody else. The peer sends, reads, closes,
and, over TLS, makes a read wait for a write (`pendingRead`) or a write for a read
(`PeerRenegotiates`, `PeerAnswers`). `window` is history: a stretch of time in which
`RateBounded` counts lines and timers.

`Dbuf` is the queue itself: blocks of `BlockSize` bytes, `DbufPut`, `DbufDelete`, and
`extract_one_line` as the scan it is: `ScanByte` is its loop's body with the three
phases of the code and a fourth for its early return, `Taken` what is deleted after
it. Each loop is a recursive function over the positions of its queue. The abstract
queue is the sequence of bytes; `StreamKept` says that the lines taken with those
still in the queue are the lines of the stream, and, for sending, that parts sent and
blocks left are what was to be sent. The lines of a stream are `Lines`, an automaton of
two rules that knows no queue; TLC checks that it agrees with the plain definition
"up to an end of line each" (`LinesAreByEnds`) on every sequence of up to five bytes.

### ConfAttach

An item of `conf_items` is an AccessItem with the REHASH it was `made` by; `class_items`
are the ConfItems of classes with their users and CIDR counts; `confs[u]` is what a
client is attached to, `place[u]` whether it is on `local_client_list` (a `"captured"`
client found no auth{} block, or an X-line, and is held for a while). `Register` is `verify_access` with
`attach_iline`, its limits per class, address and CIDR block; `Oper` and `Deoper` attach
and detach an operator item; `Exit` detaches all. `Rehash(file)` marks what is in use
illegal and unused things free (`clear_out_old_conf`), reads class blocks over the classes
that live, and makes new items. `skewed` is history: the classes that a REHASH began to
count, or counted by other bits, while clients it could not find were attached.

### Lines

`lines` are the bans in memory, of every type, each with the time it is held until (0:
for good); `file[t]` the masks in the file of a type, in order; `user` one connection with
the exemptions of its auth{} block and how far it is. `Place` and `PlaceTemporary` are
the commands that add a ban (memory first, then `write_conf_line`, which may fail),
`RemoveTemporary`, `RemovePermanent` and `RemoveResv` those that take one back
(`remove_conf_line` writes a new file, renames it and has everything read again), and
`Kline` to `Unresv` the commands by name. `ReadConfFiles` is `read_conf_files`:
`clear_out_old_conf` and its helpers drop all but temporary K, D, X, RX, RK and G-lines,
then ircd.conf and the files are read, and a RESV is not created if one that matches it is
there (`Created`). `CheckConfKlines` is the walk of `io_loop` when `rehashed_klines` is set,
`Connect`, `VerifyAccess` and `Leave` the connection's own steps, `CleanupTklines` the
expiry, `Restart` the end of the process and the next.

A file that cannot be opened, written or renamed is one of `Fortunes` and costs a
`MaxTrouble`. `adrift` is history: the bans for which memory, file and what was asked no
longer agree because of such a failure; it is emptied of whatever a later read mends.
A behaviour is about the lines of one `theme`.

### BanCache

`flags[ch][u]` is a membership with CHFL_BAN_CHECKED and CHFL_BAN_SILENCED. `Speak` is
`can_send`; `SetBan`, `SetExcept`, `WipeLists` (SJOIN of an older channel),
`ChangeLocalNick`, `ForceNick` (SVSNICK), `ChangeHost` (CHGHOST) and `RehashChannel`
are what moves an input of the answer. The last two clear no cache: `aged` names the
memberships that are older than such a change, and `CacheFresh` excuses those.

### Events

`event_table` is the table with its slots, `event_time_min` the cached minimum, `at`
where `io_loop` is: asking for the next time, in `eventRun` at some slot, or in the
handlers that `comm_select` calls. `CommSelect(now)` reads the clock, which may have
been set back; `set_back_events` moves the events and leaves `event_time_min` alone. So
for as long as the clock was set back, `eventNextTime` answers with a time that is too
late and nothing runs, which is the `lag` in `EventsOnTime`: it is not more than
that. `eventDelete` leaves a stale minimum too; it would make
`while(eventNextTime() <= CurrentTime) eventRun()` go round for ever if the events that
run every second were not always due at the same time. `EventsOnTime` states that the loop
makes progress.

`check_splitmode` adds its event and deletes it, from its own run, from
`update_client_exit_stats` and from SET. `SET SPLITMODE ON` removes the event; `AUTO`
after it calls `check_splitmode`, which adds none as long as the mode is on: split mode
then stays until SPLITNUM or SPLITUSERS are set or it is turned OFF. `unwatched` is that case, and
`SplitmodeWatched` holds up to it.

### ServiceLists

`entries[s]` is one list of one server, `masks` whether it is one of the four of
`unirc.c`, found by `match`, or the G-lines, found by comparison. `Add`, `Delete` and
`SvsInfo` are the handlers, of services (`FromServices`) as of servers (`Receive`).
`ServerEstab` sends the list from its head. There is no timestamp on an entry, so
what was taken back while a split or a burst was on its way comes back with the burst of the
other side, and where one mask covers another, the order in which they came decides
whether the second is kept. `crossed` names these cases; `ListsAgree` holds up to them.

`mo_gline` sends two lines to every neighbour, `GLINE user host :reason` and
`GLINE user@host :reason` (`AddLines`; `m_gline.c:183-191`). Of the first `parse_aline` takes the
user alone, and `find_user_host` reads it as a mask of hosts if it begins with `*` (`*guest`
is `*@*guest`), and as a nick otherwise. If there is such a mask or user, the receiver
places that G-line too and relays it like any other (`Misread`); if not, or if the
client is exempt, it drops the line (`NobodyFound`). As a nick may be in use
on one server and not on another, or be gone when the line arrives, either may happen at any server: `ReadAs`
says which entries a line may be read as. So services said less than servers hold, and
what was `misread`, a history variable, bounds the difference: at rest every list holds all
that was said, and nothing that was neither said nor misread. The server above does not
learn what the one below it made of its line, and keeps a list without it. A burst goes both ways, and what is
made of a burst's line may be taken back by services while it goes up, so a misread line of a burst
counts as `crossed`.
`Removed` takes off the first entry that is equal, as the loop of the code does; that
there is no second one is part of what is proved.

## 4. Runs

| Run | Instance | What it shows | Distinct states |
|---|---|---|---|
| `connections` | two slots, a TLS and a plain listener, `MaxLocal` 1 | safety of A, its invariant, `AuthService`; a client that died is freed, a released connection that never registers is closed | 43 728 |
| `auth_resolver` | two connections, one IPv6, three retries, restarts that fail | safety of B, its invariant, `AuthService`; auth ends if the resolver's socket reopens | 14 834 |
| `auth_resolver_close` | CLOSE allowed on release | *violated*: the saved next node is freed | |
| `nick_ts` | two servers, three users, *va* and *ub* of one host and *ua* of another, clocks 1 and 2, one nick change, one QUIT, one KILL; three servers, *ua* and *ub*, one break | the invariant with unique nicks (`NickInv`), no UID introduced to a server that has it (`NoIdCollision`), the TS rules for one user's two connections and for two users, coming to rest | 150 080 |
| `nick_ts_ghost` | two servers, two users, one QUIT | *violated*: servers disagree at rest | |
| `network` | three servers in a line; *channel*: three users, nine mixes of joins, leaves, kicks, mode changes, topics and breaks; *split*: three users under one nick, one break, one QUIT; *burst*: four users, no two TS equal, nobody leaves | no operator of a newer TS, members, status and modes agree at rest; no UID introduced twice, nobody unseen at rest (`SplitHeals`); servers agree at rest, no ghost at any time (`BurstHeals`) | 313 380 |
| `channel_hack_ops` | two servers, a long mode change | *violated*: an operator of the newer TS survives | |
| `channel_topic` | two servers, a topic set and cleared across a split | *violated*: two topics at rest | |
| `server_tree` | up to four servers and four connections: a ring with a break and SQUITs, a tail that moves, a leaf with masks, a server without a block | list, links and introductions agree; a forest at rest; it comes to rest, without ghosts | 74 631 |
| `local` | F to K side by side: three clients, three REHASHes, four files; five bytes in blocks of two; a plain and a TLS connection; two channels; four event slots; three servers' lists; four themes of bans, four commands, one failure | the properties of each | 329 427 |
| `resv_rehash` | the bans alone, four commands, no failure | *violated*: a REHASH ends temporary RESVs | |
| `kline_exempt` | as above | *violated*: an RK-line keeps a `kline_exempt` client from registering | |

Why these bounds are enough.

* *Connections.* Two slots give a client acted on and one that the action's messages
  fail on, each in every state, and slots are reused after a free. The chain "the exit
  of the second fails on a third" is what the proofs cover, for any number of
  slots; the run is there for liveness. Two listeners give a rehash that
  keeps one and drops the other, and `MaxLocal` of 1 lets the limit bite.
* *AuthResolver.* The stack holds at most one loop, one callback and one reading
  client; the second connection is the one its commands exit. Safety is proved for any number. IPv6
  matters for the two fallbacks only. Three retries are the code's own number.
* *NickTS.* A collision is between two clients on one nick. A third gives both TS rules
  at one server: *ub* meets a connection of the same user@host in *va*, where the newer one
  keeps the nick, and another user in *ua*, where the older one does; both happen in
  the run, with either one's TS the older. Clocks 1 and 2 give equal, older
  and newer; in *split* only one user has two clocks, the others' order of TS being
  covered by `nick_ts`. Three servers in a line are the smallest network where a decision is
  relayed past a server that takes none.
* *ChannelTS.* As above. A mix allows three to five events, joins among them: two
  copies, and what crosses their meeting. Mixes keep the product small.
* *ServerTree.* Three servers close a ring, a fourth hangs behind one of them and is
  introduced. Four connections let every link of the ring be made and one made again.
* *Streams.* `MaxFlood` 1 and a burst of 4 keep the code's ratio. A send queue of
  three lines overflows, is half sent, and drains. TLS needs one renegotiation in each
  direction.
* *Dbuf.* Blocks of 2 and lines of 2 put every boundary (end of block, end of line,
  cut of a long line, spaces across a block) in every position of five bytes.
* *ConfAttach.* Three clients, two of them at one address and all three in one block,
  reach each limit; three REHASHes let a class go, come back and go again.
* *BanCache.* One member, one ban by nick and one exception by host; two channels
  because a nick change clears all of a client's memberships.
* *Events.* The two events that always run, `check_splitmode`, and a free slot; the
  table of 50 never fills. Periods 1 and 2 stand for 1 second and "more".
* *ServiceLists.* An entry and a mask that covers it; a break and a burst with an add
  on either side and a removal. As a G-line the entry may be read as the mask, at either
  of two servers, before and after the mask was said.

* *Lines.* Two masks, one inside the other, and a connection under both or one; a theme
  has a pair of types that look at each other. Four commands place, take back, place again
  and rehash; one failure comes before, between or after them.

Runs other than `connections` and the two of B allow a final state
(`CHECK_DEADLOCK FALSE`): with the budget spent and the queues empty nothing is left to
happen.

The scenarios *split* and *burst* leave out the events that the findings name, on
purpose: agreement holds up to those.

### Fairness

* *Connections.* `io_loop` goes round for ever (WF of `LoopNext`). Auth ends for a
  connection that stays (SF of `ReleaseAuthClient`, the property `AuthEnds` of B
  when the resolver's socket reopens), a connect attempt ends
  (`comm_connect_timeout`), and the `check_pings` event
  visits `unknown_list` again and again (SF of `CheckUnknowns`). Strong fairness,
  since between two visits a client may be half way through something else. No
  fairness of anything a peer does, `SslDone` in particular.
* *AuthResolver.* A handler that began ends (WF). The two events run every second,
  and each lookup is due after a bounded time which every lap compares with the
  clock, so a lap that can be a timeout for ever is one in the end (SF of
  `TimeoutAuth` and of `GiveUp` or `Resend`). `retries` goes down with every
  resend. Nameservers are under no fairness: they may never answer. `AuthEnds` assumes
  that the resolver's socket is open again and again.
* *NickTS*, *ServerTree*. `io_loop` reads every socket that has data (WF of `Receive`).
* *Streams.* Read and write events, the flood timer, `send_queued_all` and
  `exit_aborted_clients` come round for ever (WF of each). The peer, while it is there,
  reads what it is sent and answers TLS: `OutputDrains` is a promise to such peers only.

## 5. Findings

* `auth_resolver_close`. `timeout_auth_queries_event` (`src/s_auth.c:465`) saves
  its next node and releases a client, whose pending CLOSE may free that node.
  `mo_close` (`modules/m_close.c:85-87`) says that its exits are safe.
* `nick_ts_ghost`. A newcomer that wins has the existing user killed on every link
  but its own (`modules/core/m_nick.c:887`, `:979`); `doc/ts6.txt:93-96` asks for
  that KILL. If the winner has left when the loser's introduction arrives on the
  other side, the loser stays there for good.
* `channel_hack_ops`. A mode change that takes more than one line has the TS on its
  first line only (`channel_mode.c:2043`); what the others op survives on servers whose
  channel is older, which TMODE is there to prevent.
* `channel_topic`. Unsetting a topic leaves its time alone, so the burst of the empty
  topic carries the time of the old one, and `ms_tburst` takes only a greater one
  (`modules/m_tburst.c:133`): what was cleared on one side of a split stays on the
  other, against the comment at `s_serv.c:1554-1566`.

* `resv_rehash`. `clear_out_old_conf` deletes every RESV, temporary or not
  (`s_conf.c:2686`); `doc/resv.txt:28` says that temporary ones stay through a rehash.
* `kline_exempt`. `verify_access` refuses a client that an RK-line matches before it looks
  at the flags of its auth{} block (`s_conf.c:953`); `etc/example.conf:325` says that
  kline_exempt exempts from K-lines, and `check_conf_klines` honours it.

Seen while modelling, and not runs of their own:

* `check_conf_klines` goes on to the next client when a G-line matches one that is exempt
  from it, so a K, RK, X or RX-line never takes that client off. `NobodyCovered` speaks
  of clients without exemptions for that reason, and of D-lines for all.

* `check_unknowns_list` (`client.c:385`) asks for `IsAuthFinished`, against the comment
  above it which speaks of every UNKNOWN connection: a peer that never completes
  its TLS handshake keeps its slot.
* `s_auth.c:454-457` says that the timeout event lets clients through when lookups fail.
  It walks the ident list only; a client waiting for DNS depends on `timeout_resolver`,
  which a restart that fails leaves deleted.
* The loser of a nick change is killed on every link but the one it came from
  (`modules/core/m_nick.c:955`), against `doc/ts6.txt:98-100`. If the other side has no
  collision any more, it keeps a user that its neighbour dropped.
* `attach_conf` counts hub and leaf items up (`s_conf.c:1401`) and nothing counts them
  down: one that was used is never freed after a REHASH.
* A class that a REHASH starts counting by CIDR blocks misses the clients attached
  before, one whose bits it changes misses captured clients, and their exits are then
  taken off other clients' counts.
* `packet.c` says that `sent_parsed` goes down by one for each `flood_recalc`; the code takes
  two. The timer fires every two seconds at the earliest.
* CHGHOST, `+x` and a REHASH of `use_except` clear no ban cache (`quiet_on_ban`,
  `example.conf:840`).
* `mo_gline` relays `GLINE user host :reason`, "4 param version for hyb-7 servers"
  (`m_gline.c:182`), besides `GLINE user@host :reason`, and has no branch for the former when it
  parses one: `find_user_host` (`s_conf.c:3445-3500`) is given the user alone. For a user `*` the
  line is refused by `valid_wild_card`; `*guest` becomes a G-line of `*@*guest`, and `bob` one of
  the username and address of whoever has the nick *bob*. Services never said it, the hub does
  not have it, and their UNGLINE, which the hub relays only for an entry it has, does not take it
  off. `ListsAgree` allows it as `misread`.
* `CLEAR_GLINES` (`unirc.c:1000`) reads the record it just freed to find the next;
  the model takes the walk to be complete.

## 6. Proofs

Every theorem is for all values of the constants, under the assumptions named
here; each proof is the same argument: an invariant that is inductive, one step
for each action and below it one for each conjunct the action disturbs, then the
properties as consequences.

Loops of the code over a queue, a table or a file are recursive functions here, and
what they compute is proved by induction over a *set* of positions (`Induction`): the
least number principle comes from `WFMin` of the library's well-founded induction,
`BoundedInduction` follows for sets of numbers, and `LoopExists` says that there is a
function that goes through a loop, from each position to the next.

| Module | Theorem | Establishes |
|---|---|---|
| `Connections_proof` | `Invariance` | `ConnInv` |
| | `TypeCorrect`, `NoDangling`, `ExitsOnce`, `Drained`, `ReleasesOnce`, `OneHomeEach` | `TypeOK`, `NoDanglingClient`, `ExitedOnce`, `AbortsDrained`, `ReleasedOnce`, `OneHome` |
| | `WalksAreSafe` | `WalkSafe` |
| | `ListenersAreHeld` | `ListenerRefs` |
| | `ServiceImplemented` | `ServiceSpec` |
| `AuthResolver_proof` | `AuthInvariance` | `AuthInv` |
| | `ShapeHolds`, `CallbackFinds`, `NobodyForgotten`, `RemovesOnce` | `AuthShape`, `OneLookup`, `NoLimbo`, `RemovedOnce` |
| | `SavedNodeStays` | `NextLinked`, when `CloseOnRelease = FALSE` |
| | `ServiceImplemented` | `ServiceSpec` |
| `NickTS_proof` | `NickCorrect` | `NickInv` |
| | `TypeCorrect`, `NicksAreUnique`, `NobodyBehindSplit` | `TypeOK`, `NickUnique`, `KnownBehindLink` |
| | `IdsNeverCollide` | `NoIdCollision` |
| | `OlderWins` | `OlderKeepsNick` |
| `ChannelTS_proof` | `FairAlways`, `ChannelTypes` | `Fair`, `TypeOK` |
| | `NoHackedOps` | `OpsOfThisTS`, when no mode change is long (`NoLong`) |
| | `MembersInvAlways` | `MembersInv` |
| | `MembersAgree` | `MembersConverge` |
| `ServerTree_proof` | `TreeCorrect` | `TreeInv` |
| | `ToldAlways`, `OneTreeAlways` | the inductive invariant `ToldInv`; `OneTree` |
| | `BehindCorrect`, `TypeCorrect` | what is behind a link hangs below its neighbour; `TypeOK` |
| `Access_proof` | `BansInvariant`, `CacheIsFresh` | the inductive invariant `BanInv`; `CacheFresh` |
| | `ConfInvariant`, `ConfTypes` | the inductive invariant `ConfInd`; `ConfTypeOK` |
| | `CountsAreExact`, `BlocksAreExact` | `ConfInv`, `CidrExact` |
| | `LineIndHolds`, `LinesTyped` | the inductive invariant `LineInd`; `LineTypeOK` |
| | `BansStayAsAsked`, `NobodyStaysCovered` | `BansAsAsked`, `NobodyCovered` |
| | `ListIndHolds`, `ListsTyped` | the inductive invariant `ListInd`; `ListTypeOK` |
| | `ListsStayAlike` | `ListsAgree` |
| `Loop_proof` | `EventIndHolds`, `EventsTyped` | the inductive invariant `EventInd`; `EventTypeOK` |
| | `EventsStayOnTime`, `SplitmodeStaysWatched` | `EventsOnTime`, `SplitmodeWatched` |
| | `StreamIndHolds`, `StreamsTyped` | the inductive invariant `StreamInd`; `StreamTypeOK` |
| | `StreamsAreNeverDeaf`, `RateStaysBounded` | `NeverDeaf`, `RateBounded` |
| | `DbufIndHolds`, `DbufTyped` | the inductive invariant `DbufInd`; `DbufTypeOK` |
| | `StreamIsKept` | `StreamKept` |
| `Induction` | (lemmas) | induction and loops, used by the two modules above |

* *Connections* (`ConnAssumption`: finite sets, `NULL` not one of them). None of
  the properties is inductive alone: that a client exits once rests on `closing`
  implying `dead`, on a closing client being off every list and without a
  handler; that memory is freed only after the abort queue was drained rests on
  `QueueInv`, which says that the queue holds exactly the dead that have not
  exited, plus some that have, each once, with `eac_next` at its head. `ClientInv`
  says what a slot's flags, handler and lists say of each other; `CountInv` that
  `Count.local` is the number of users. `ListenerRefs` needs one fact more, that only an
  allocated client holds a listener (`ListenerInd`); then each accept and each free moves
  one client in or out of the set that a listener's count is the cardinality of.
* *AuthResolver* (`AuthAssumption`). `AuthInv` adds `StackInv` to the properties:
  which parts of the handler stack can be in use together, and that only the
  callback's own lookup is off its AuthRequest. `SavedNodeStays` has a further
  invariant about the loop: what is still to visit is on the list unless the top
  of the stack is about to take it.
* *NickTS* (`NetworkAssumption`: links both ways, `Side` consistent, that is a
  tree where nothing behind a link has a link to elsewhere; `ClientAssumption`; `BoundAssumption`). Uniqueness on one server needs
  that a line about a user comes from its side of the link only. That is `LegalQueues`:
  what a neighbour may be sending is about users of its side that
  have registered. It holds because a split clears what was behind it
  (`KnownBehindLink`), because a reserved nick is known at home only
  (`UnregisteredLocal`), and because a link that is being set up begins with
  SERVER or ends (`Handshake`).
* *NickTS*, no id twice. `NickInv` says who may be named on a stream and not in which
  order, and `NoIdCollision` is about the order: a user who was behind a split comes back
  by the burst of the rejoin, while the lines that remove him are still on their way. `IdInv`
  adds what each server has told each neighbour and not taken back, a set of users for
  every direction of a link (`told`). The code keeps no such set, so the invariant says
  that there *is* one rather than adding a history variable. Of each stream it says
  (`Timeline`): between two moments at which a user enters, there is a CLOSE, or a SQUIT
  that covers his server. The moments are now, if the receiver has him or has told its other
  neighbours of him, each line of the stream that introduces him, and the next introduction its sender could still make, which it
  can if it has not told the receiver of him. A QUIT or KILL does not count, as a server may
  not apply it. Every action then has one step: what it appends to a stream continues that
  stream (`Continues`, `TimelineContinues`), and what it takes off the head or cuts off at a
  break leaves it in order (`TimelinePops`, `TimelineCut`). SQUIT is the hard one: the receiver
  removes whom it has behind the lost server and passes the SQUIT on, and those are
  whom it told others of because both see the same side of the tree (`BeyondAgrees`). `ServerOnce`,
  one SERVER line on a stream at most, keeps a burst from being sent twice.

* *ChannelTS* (the three assumptions of the module). `Fair` holds the types and, if no mode
  change is long (`NoLong`), says of every
  copy and every line on its way that no status in it was given under a TS newer than
  its own: an SJOIN's operators by its TS, a TMODE's change by the TS it names. Every
  handler that lets a status in has compared the two.

  `MembersConverge` speaks of servers at rest; `MembersInv` says what holds before. The links
  are a tree (`ChannelNetworkAssumption` spells out what the proof needs of it: the two
  sides of a link are disjoint, each is closed but for the link, and sides nest), so that a
  server knows a user through one neighbour (`Way`, `KnownWays`), and it is enough to
  look at two neighbours, the near one and the far one that knows the user through it. `Basic`
  is what a lost link leaves of them: who is not linked knows nobody through the other, and
  what a neighbour said before it closed the link ends in a CLOSE. `Exact` is agreement: once
  the lines on their way to the far end are parsed it has the user (`AtLast`) if and only if the
  near one has, or a KICK is on its way to the near one; and no line adds a user that is
  there already (`AddsOnce`), so that none of them is dropped.

  `Exact` is lost where the code loses it: when a KICK crosses a line that adds the user again.
  So it is claimed as long as "kick" and "again" did not both happen, and two further parts say
  why that is enough. Without "kick", one KICK at a time is on its way and finds the user at
  its server, with nothing that crosses it (`Wave`). Without "again", no server connects, and a
  user that joins for the first time leaves no trace ahead of the line that says so (`Clean`).
  Every action but those of a handshake is shown to be of one form (`Acts`, `Sends`, `Affects`): one server
  parses a line, or none, says one thing to its other neighbours, and for every user it
  stays, enters or leaves. `ActsMembers` treats that form once; an operation only has to be
  brought into it. exit_client of a neighbour is the same form with the two streams of its
  link set apart (`DropLinkMembers`); `Connect` and `ServerEstab` change nobody's
  members, and the burst names each member once (`BurstTells`, `ToldBy`, `LinkedMembers`).
* *ServerTree* (`TreeAssumption`). `TreeInv` alone is not inductive: the exit of a link's
  server removes what `Dependents` finds below it, and one must know that this is
  all that came through the link. `BehindNeighbour` says so, and `BelowKnown`
  that the part of the list nearer to the tail consists of servers on the list.
  `OneTree` speaks of rest, and needs to know what each end of a link has been told before
  (`ToldInv`). Let *t* and *r* be the ends. Of everybody *t* knows through other links, `Good` says, *r*
  has *t*'s introduction or will read it, with nothing after it that takes it away
  (`ToldBy`), or a SQUIT is on its way to *t* that removes it there too (`UndoneBy`).
  The second is what a ring costs: both ends may remove different servers at once, and each
  reads of it later. An introduction whose prefix *r* does not know is dropped, so `Good`
  speaks of the introducer along with the introduced (`Renames`), and that everybody is
  introduced after their introducer is where the order of the burst matters (`BurstOrder`,
  `BurstTells`). A link that closes says so (`Closes`), and owes nothing any more. As in
  `ChannelTS`, every step of a server is brought into one form (`Moves`: read a line,
  send, close), which `WireInvMoves` and `CompleteMoves` treat once, from the side of the
  one who reads (`ReaderKeeps`, `ReaderDrops`, `ReaderRemoves`) and of the one who tells
  (`TellerAdds`, `TellerRemoves`). At rest everybody who knows *y* through a link has it
  from the neighbour and has told all others, so the servers that links lead to from *y*
  know *y* (`KnownThrough`); if a link closed a ring, one of its ends would know the other
  through two links, which `KnownOnce` forbids.
* *ConfAttach* (`ConfAssumption`). Counts are cardinalities of sets of users; `ItemsInd` adds
  that items were made before now (so a REHASH makes new ones), that items in force are
  in classes in force, that a client has one auth{} item at most, and that all is
  finite; `PlacesInd` ties the address counts to the clients that are counted.
* *BanCache* (`BanAssumption`). One further fact: whoever is silenced was checked.
* *Lines* (`LineAssumption`: a mask includes itself; `Hold` is positive). `BansAsAsked` says what
  happens to what was asked; `LineInd` adds the other direction, what memory and files hold:
  a temporary ban in memory was asked for, blocks of ircd.conf are RESVs, a mask has one RESV
  of a type at most, and a RESV that is in a file and not in memory has another, permanent
  one that matches it (`Blocked`). A file read again gives
  what was asked for because `Without` takes out one mask and no other, and because `Created`
  blocks a RESV only by one that matches it (both by induction over the file).
  `NobodyCovered` comes from `Covered`, which speaks of a client before registration as well:
  a D-line placed between `Connect` and `VerifyAccess` is found by the walk only.
* *ServiceLists* (`ListAssumption`: the links are a tree that leads to the hub, and what a
  mask matches that it matches, which `match` guarantees for masks with `*` alone. With `?`
  it does not: `?` matches the mask `*`, so that PROXY `*` is refused where `?` is stored, and
  `ListsAgree` is neither checked nor proved for such lists.) `ListsAgree` speaks of rest, so the invariant
  has to say what holds before it, in two ways. While a split or a burst is on and nothing was
  taken back (`Growing`), all that is on its way are additions, and what one end of a link has
  the other has, or gets, or has a mask for. Otherwise no burst is on its way (`Together`), lines go from
  the hub down only, and the invariant says that there *is* a set for every server (`told`),
  the hub's holding what services said, of which the list is a part that matches all the rest, and
  that each set becomes that of the server above by the lines on their way (`InStep`,
  `Follows`). A removal takes a set along only if no other mask overlaps the one removed
  (`Alone`), which is why `crossed` counts overlapping masks. A server that reads a G-line as
  another has more than the one above it was told: the sets agree up to `misread`, the last
  argument of `Follows`, and `Growing` asks of the server above only what was not misread
  below it (`OwnUp`, `OwnDown`). Since G-lines do not overlap, such an entry can be put into a
  server's set at any moment: what is still on its way takes it off again or leaves it as it is
  (`FollowsTakes`). `GrownInStep` and
  `InStepGrows` lead from one way to the other, when the last burst has been parsed and when
  a connection is lost; at rest the sets agree down the tree (`HubInduction`).
* *Events* (`EventAssumption`: a table of three slots at least, and the code's period of one
  second for `comm_checktimeouts`). `EventsOnTime` is not inductive: why does the loop that asks for the
  next time make progress when `eventDelete` left a stale minimum? Because
  `comm_checktimeouts` is never deleted, and outside `eventRun` no event is due before it
  (`CommFirst`); so the cached time, stale or not, is not before its time, and whenever
  the cached time has come it has an event to run. Inside `eventRun` the invariant
  goes slot by slot (`Sound`): what was passed is in the future again.
* *Streams* (`StreamAssumption`). `Waits` is `NeverDeaf` for one moment of a
  connection, carried through the writes and the parsing that one event may bring
  (`Wrote`, `Becomes`). `RateBounded` holds because a
  window counts no line that is not in `sentParsed` or was taken off it by a flood timer,
  two a timer, and `sentParsed` is what the limit is compared with (`Governed`).
* *Dbuf* (`DbufAssumption`). `StreamKept` alone is not inductive, as it forgets the unfinished
  line: `StreamRead` says that reading on from what was taken, the queue gives the stream's
  lines *and* ends with the same unfinished line (`Continues`). For `dbuf_put` one byte more
  keeps that whatever the queue holds (`ReadOn`). For `extract_one_line` the scan has its own
  invariant (`Scanned`): what was empty reads as nothing, and from there to the end of the scan
  as one line, cut at `MaxLine`; so deleting `Taken` bytes takes just that line. That
  `dbuf_delete` of *n* bytes leaves a chain with the bytes from *n* on, whatever the blocks, is
  `DbufDeleteKeeps`, by induction over the chain.

Only model-checked: liveness (`DeadIsFreed`, `FinishedLeaveUnknown`, `AuthEnds`,
`ComesToRest` of both networks, `LinesServed`, `OutputDrains`), whose proofs need ENABLED;
and what speaks of all servers at rest and everything in flight and is not
proved: `SplitHeals` and `BurstHeals`, that is `NobodyMissing`, `Converged` and `NoGhost` besides
`NoIdCollision`, which is proved; `StatusConverges` and `NoOperatorIgnored`, which need
to know of the two copies of a link which TS wins, with any number of SJOINs and TMODEs
between them; `NoGhosts`, which `ComesToRest` checks and which is false for some networks
(`ServerTree` in section 3).

## 7. Left out of the modules above

* *Connections.* Remote clients (in `NickTS` as the users behind a link), the
  contents of queues, attach and detach of conf records. The grace periods are
  not clocks: a client may be timed out whenever it is in the state that can time
  out.
* *AuthResolver.* The DNS wire format, query ids (a reply matches a request or is
  ignored), the text of ident answers, and the `!request->sent` branch of
  `res_readreply`.
* *NickTS.* Introductions without a UID (servers older than TS6), lazy links,
  servers hidden by a fakename, KILLs for malformed nicks, users or hosts, changes
  of case only, KILL by nick through `find_chasing`, virtual opers, SID
  introductions (they precede the UIDs of their server in the same stream), the
  direction check of `parse` (with links in a tree and streams in order a line
  never comes from the wrong side: `LegalQueues`). The branch of `ms_uid` for an
  id that exists is never taken (`NoIdCollision`).
* A KILL whose operator lost a collision on the way is dropped by the server that
  no longer knows the operator, after others acted on it. No document says
  otherwise; the runs that ask for agreement allow no KILL.
* *ChannelTS.* Voices, and the difference between the four operator statuses; modes with a
  parameter (they merge by maximum, as flags by union); invites, KNOCK, the creation of
  modeless channels, `CHFL_DEOPPED` in lazy links. Users who quit are a leave.
* *ServerTree.* Names and passwords (right wherever there is a block), TLS and
  servlinks, servers older than TS6, fakenames, clients behind a server.
* *Streams.* To whom a message is sent (loops over the lists of A, C and D), the
  larger queues and blocked reads of server connections, the servlink helper's queue. Time is
  the order of timers, without seconds.
* *ConfAttach.* connect{}, hub_mask{} and leaf_mask{} items, passwords, and SET. RESVs are in
  *Lines*.
* *Events.* What events other than `check_splitmode` do, which is in the modules of their
  components; a REHASH that ends split mode for good.
* *ServiceLists.* What an entry does to a client; G-line expiry, which each server
  decides by its own `gline_time`; the checks of a mask that depend on a server's own
  configuration (`gline_min_cidr`).
* *Lines.* Who may issue a command and what mask it is given, `ON <server>` and cluster relays,
  the text of a reason. Time counts ticks; `MaxTime` of 1 is enough for a hold to end.

### Not modelled

About a fifth of the implementation's lines are a generated grammar and lexer
(`y.tab.c`, `lex.yy.c`) and the vendored `pcre`; most of the rest formats replies and
messages (WHO, WHOIS, STATS, INFO, LIST, notices), reads files, or is one of six interfaces to the
kernel's poll. A model of any of these would be a transliteration: there is no order
of steps in them to explore and no state that another part could find stale. What
does hold state and is left for the plan: the table of fds (L), the servlink helper (M),
ACCEPT lists and the whowas ring (N), lazy links (O).
