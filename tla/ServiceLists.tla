---------------------------- MODULE ServiceLists ----------------------------
(***************************************************************************)
(* What services tell every server to remember: G-lines (mo_gline), and    *)
(* the PROXY, IPBR, SPAMSG and VLINK lists of unirc.c, which are one code  *)
(* four times.  A server relays what was news to it, bursts its whole list *)
(* over a new link, and forgets everything when services say SVSINFO.      *)
(* An entry of the last four is a mask, and is not added when one that is  *)
(* there matches it; a G-line is only compared.  A G-line is relayed       *)
(* twice, `user host' before `user@host': who gets the first takes user    *)
(* alone for the one to ban, a mask of hosts or somebody's nick, and what  *)
(* that says is placed and relayed like what services said.                *)
(***************************************************************************)
EXTENDS Naturals, Sequences, SequencesExt

CONSTANTS
    Server,
    Link,       \* pairs of neighbours, both ways
    Hub,        \* the server that services are linked to
    Entry,      \* masks
    Covers,     \* pairs of masks: the first, stored, matches the second
    ReadAs,     \* pairs: user and host of the first, apart, may be read as the second
    Budgets     \* bound: how many adds, deletes, clears and breaks may happen

Happening == {"add", "delete", "clear", "break"}

\* By toward[s], its neighbour, every other server s reaches the hub.
LeadsToHub(toward) ==
    /\ Link = UNION {{<<s, toward[s]>>, <<toward[s], s>>} : s \in Server \ {Hub}}
    /\ \A S \in SUBSET Server :
         /\ Hub \in S
         /\ \A s \in Server \ {Hub} : toward[s] \in S => s \in S
         => S = Server

\* The links form a tree.  A mask matches itself, and what a mask matches that it
\* matches: match() is so for masks with "*" alone (with "?" it is not, as "?" would
\* match the mask "*").
ASSUME ListAssumption ==
    /\ Hub \in Server
    /\ \E toward \in [Server \ {Hub} -> Server] : LeadsToHub(toward)
    /\ \A e \in Entry : <<e, e>> \in Covers
    /\ \A a, b, c \in Entry :
         <<a, b>> \in Covers /\ <<b, c>> \in Covers => <<a, c>> \in Covers
    /\ ReadAs \subseteq Entry \X Entry
    /\ Budgets \subseteq [Happening -> Nat]

VARIABLES
    masks,      \* whether entries are masks; for G-lines they are not
    entries,    \* of a server: its list, the newest first
    established,    \* ends of links: <<s, t>> when s has t in its serv_list
    wire,       \* lines on their way
    said,       \* history: what services have told, and not taken back
    misread,    \* history: what was added because user and host came apart
    crossed,    \* history: something was taken back across a split or a burst, or
                \* the G-line of a burst was read as another
    budget      \* what may still happen

listVars == <<masks, entries, established, wire, said, misread, crossed, budget>>

\* The burst mark is no part of a line: it tells who said it first, services or
\* a server.
AddMsg(e, burst) == [cmd |-> "ADD", entry |-> e, burst |-> burst]
ApartMsg(e, burst) == [cmd |-> "APART", entry |-> e, burst |-> burst]
DeleteMsg(e) == [cmd |-> "DELETE", entry |-> e]
ClearMsg == [cmd |-> "CLEAR"]
Messages ==
    {ClearMsg} \cup {DeleteMsg(e) : e \in Entry}
    \cup {AddMsg(e, b) : e \in Entry, b \in BOOLEAN}
    \cup {ApartMsg(e, b) : e \in Entry, b \in BOOLEAN}

ListTypeOK ==
    /\ masks \in BOOLEAN
    /\ entries \in [Server -> Seq(Entry)]
    /\ established \subseteq Link
    /\ wire \in [Link -> Seq(Messages)]
    /\ said \subseteq Entry /\ misread \subseteq Entry /\ crossed \in BOOLEAN
    /\ budget \in [Happening -> Nat]

-----------------------------------------------------------------------------
(* The handlers, of any line that comes from `from`. *)

\* find_proxy, find_ipbr, ...: a stored mask matches.  _find_gline: it is equal.
Matches(stored, e) == IF masks THEN <<stored, e>> \in Covers ELSE stored = e
Known(s, e) == \E i \in DOMAIN entries[s] : Matches(entries[s][i], e)

\* The first line that irccmp finds is taken off the list.
Removed(s, e) == RemoveFirst(entries[s], e)

\* sendto_server: all but the one it came from (which also gets the G-line apart,
\* and drops it: its source is not in that direction).
Relayed(s, from, lines) ==
    [l \in Link |->
        IF l[1] = s /\ l \in established /\ l[2] # from THEN lines ELSE <<>>]

After(w, out) == [l \in Link |-> w[l] \o out[l]]

\* mo_gline sends user and host apart, then in one word.
AddLines(line) ==
    IF masks THEN <<line>> ELSE <<ApartMsg(line.entry, line.burst), line>>

\* PROXY and the others, mo_gline; UNPROXY and the others, mo_ungline; SVSINFO.
Add(s, from, line, w) ==
    /\ line.cmd = "ADD"
    /\ entries' = [entries EXCEPT
                     ![s] = IF Known(s, line.entry) THEN @ ELSE <<line.entry>> \o @]
    /\ wire' = IF Known(s, line.entry) THEN w
               ELSE After(w, Relayed(s, from, AddLines(line)))

Delete(s, from, line, w) ==
    /\ line.cmd = "DELETE"
    /\ entries' = [entries EXCEPT ![s] = Removed(s, line.entry)]
    /\ wire' = IF entries[s] = Removed(s, line.entry) THEN w
               ELSE After(w, Relayed(s, from, <<line>>))

SvsInfo(s, from, line, w) ==
    /\ line.cmd = "CLEAR"
    /\ entries' = [entries EXCEPT ![s] = <<>>]
    /\ wire' = After(w, Relayed(s, from, <<line>>))

Handler(s, from, line, w) ==
    Add(s, from, line, w) \/ Delete(s, from, line, w) \/ SvsInfo(s, from, line, w)

\* find_user_host finds nobody of that nick, or one who is exempt.
NobodyFound(line, w) ==
    /\ line.cmd = "APART"
    /\ wire' = w
    /\ UNCHANGED <<entries, misread, crossed>>

\* It takes user for a mask of hosts, or for the nick of somebody.
Misread(s, from, line, w) ==
    /\ line.cmd = "APART"
    /\ \E e \in Entry :
         /\ <<line.entry, e>> \in ReadAs
         /\ Add(s, from, AddMsg(e, line.burst), w)
         /\ misread' = IF Known(s, e) THEN misread ELSE misread \cup {e}
         /\ crossed' = (crossed \/ (line.burst /\ ~Known(s, e)))

-----------------------------------------------------------------------------
(* Services, behind their server. *)

Spends(what) == budget[what] > 0 /\ budget' = [budget EXCEPT ![what] = @ - 1]

Burst == {AddMsg(e, TRUE) : e \in Entry} \cup {ApartMsg(e, TRUE) : e \in Entry}

\* No end of a link is missing and no burst is on its way.
Together ==
    established = Link /\ \A l \in Link : \A i \in DOMAIN wire[l] : wire[l][i] \notin Burst

\* One of two masks matches the other: whether a list keeps both depends on
\* which came first.
Overlapped(e) ==
    masks /\ \E other \in said \ {e} : {<<e, other>>, <<other, e>>} \cap Covers # {}

FromServices(what, line) ==
    /\ Spends(what)
    /\ Handler(Hub, Hub, line, wire)
    /\ UNCHANGED <<masks, established, misread>>

ServicesAdd(e) ==
    /\ FromServices("add", AddMsg(e, FALSE))
    /\ said' = said \cup {e}
    /\ UNCHANGED crossed

ServicesDelete(e) ==
    /\ FromServices("delete", DeleteMsg(e))
    /\ said' = said \ {e}
    /\ crossed' = (crossed \/ ~Together \/ Overlapped(e))

ServicesClear ==
    /\ FromServices("clear", ClearMsg)
    /\ said' = {}
    /\ crossed' = (crossed \/ ~Together)

-----------------------------------------------------------------------------
(* Servers. *)

Receive(s, t) ==
    /\ <<s, t>> \in established
    /\ wire[<<t, s>>] # <<>>
    /\ LET line == Head(wire[<<t, s>>])
           w == [wire EXCEPT ![<<t, s>>] = Tail(@)]
       IN  \/ Handler(s, t, line, w) /\ UNCHANGED <<misread, crossed>>
           \/ NobodyFound(line, w)
           \/ Misread(s, t, line, w)
    /\ UNCHANGED <<masks, established, said, budget>>

\* Mutant: server_estab forgets the list.
SendNothing(s) == <<>>

\* SEND_PROXYS and the others: the list from its head.
SendList(s) ==
    [i \in DOMAIN entries[s] |-> AddMsg(entries[s][i], TRUE)]

\* server_estab of s for t.
ServerEstab(s, t) ==
    /\ <<s, t>> \in Link \ established
    /\ established' = established \cup {<<s, t>>}
    /\ wire' = [wire EXCEPT ![<<s, t>>] = SendList(s)]
    /\ UNCHANGED <<masks, entries, said, misread, crossed, budget>>

\* A connection is lost, with what was on its way both ways.
Break(s, t) ==
    /\ Spends("break")
    /\ {<<s, t>>, <<t, s>>} \subseteq established
    /\ established' = established \ {<<s, t>>, <<t, s>>}
    /\ wire' = [wire EXCEPT ![<<s, t>>] = <<>>, ![<<t, s>>] = <<>>]
    /\ crossed' = (crossed \/ \E l \in Link : \E i \in DOMAIN wire[l] :
                            wire[l][i].cmd \in {"DELETE", "CLEAR"})
    /\ UNCHANGED <<masks, entries, said, misread>>

ListInit ==
    /\ masks \in BOOLEAN
    /\ entries = [s \in Server |-> <<>>]
    /\ established = Link
    /\ wire = [l \in Link |-> <<>>]
    /\ said = {} /\ misread = {} /\ crossed = FALSE
    /\ budget \in Budgets

ListNext ==
    \/ \E e \in Entry : ServicesAdd(e) \/ ServicesDelete(e)
    \/ ServicesClear
    \/ \E s, t \in Server : Receive(s, t) \/ ServerEstab(s, t) \/ Break(s, t)

ListSpec == ListInit /\ [][ListNext]_listVars

-----------------------------------------------------------------------------
\* What the entries of a set stand for: themselves, or all they match.
Meaning(E) == IF masks THEN {e \in Entry : \E m \in E : <<m, e>> \in Covers} ELSE E

\* At rest every server remembers all that services said, in whatever order lists
\* and bursts met, and nothing else but what a G-line apart was read as, as long as
\* nothing was taken back, and no burst's line read as another, across a split or a burst.
ListsAgree ==
    established = Link /\ (\A l \in Link : wire[l] = <<>>) /\ ~crossed =>
      \A s \in Server :
        LET held == ToSet(entries[s])
        IN  Meaning(said) \subseteq Meaning(held) /\ Meaning(held) \subseteq Meaning(said \cup misread)
=============================================================================
