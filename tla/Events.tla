------------------------------- MODULE Events -------------------------------
(***************************************************************************)
(* The table of timed events, the cached time of the next one, and a clock *)
(* that may be set back (event.c, set_time); with check_splitmode, the     *)
(* event that comes and goes, and the split mode it is to end.             *)
(* A turn of io_loop runs what is due, waits in comm_select, which sets    *)
(* the clock, and then runs handlers.                                      *)
(***************************************************************************)
EXTENDS Integers, FiniteSets

CONSTANTS
    MAX_EVENTS,
    Period,         \* of the events that are always there, by name
    SplitPeriod,    \* what eventAddIsh may make of check_splitmode's
    MaxClock,       \* bound: the latest time
    MaxBack,        \* bound: times the clock is set back
    MaxSets         \* bound: commands of operators

\* The table has room for every event there is, and one event is due every second.
ASSUME EventAssumption ==
    /\ MAX_EVENTS \in Nat /\ MAX_EVENTS >= 3
    /\ {MaxClock, MaxBack, MaxSets} \subseteq Nat
    /\ SplitPeriod \subseteq Nat \ {0} /\ SplitPeriod # {}
    /\ Period \in [{"timeout_resolver", "comm_checktimeouts"} -> Nat \ {0}]
    /\ Period["comm_checktimeouts"] = 1

VARIABLES
    event_table,    \* slots
    event_time_min, \* the cached time of the next event; -1: ask the table
    CurrentTime,
    at,             \* of io_loop: its events, the slot eventRun is at, its handlers
    splitmode, splitchecking,
    network,        \* servers and users against split_servers and split_users
    lag,            \* history: how far the clock went back under the cache
    unwatched,      \* history: AUTO was said of a split mode that was ON
    spent           \* what was used of the bounds

splitVars == <<splitmode, splitchecking, network, unwatched>>
eventVars == <<event_table, event_time_min, CurrentTime, at, lag, spent, splitVars>>

Slot == 1..MAX_EVENTS
AtEvents == 0
AtHandlers == MAX_EVENTS + 1
EventName == DOMAIN Period \cup {"check_splitmode"}
Network == {"below", "between", "above"}

EventTypeOK ==
    /\ event_table \in
         [Slot -> [active : BOOLEAN, name : EventName, when : Nat, frequency : Nat]]
    /\ event_time_min \in Nat \cup {-1} /\ {CurrentTime, lag} \subseteq Nat
    /\ at \in Slot \cup {AtEvents, AtHandlers}
    /\ {splitmode, splitchecking, unwatched} \subseteq BOOLEAN
    /\ network \in Network
    /\ spent \in [{"back", "set"} -> Nat]

Active(table) == {i \in Slot : table[i].active}
Called(table, name) == {i \in Active(table) : table[i].name = name}
Lowest(S) == CHOOSE x \in S : \A y \in S : x <= y

-----------------------------------------------------------------------------
(* event.c: what a call makes of the table and the cached minimum, in pairs. *)

Timers == [table |-> event_table, min |-> event_time_min]
TimersAre(e) == event_table' = e.table /\ event_time_min' = e.min

\* The minimum with one more event.
Cached(when, min) == IF when < min \/ min = -1 THEN when ELSE min

\* eventAdd takes the first free slot, a full table nothing.
EventAdd(e, name, period) ==
    LET free == Slot \ Active(e.table)
        entry == [active |-> TRUE, name |-> name,
                  when |-> CurrentTime + period, frequency |-> period] IN
    IF free = {} THEN e
    ELSE [table |-> [e.table EXCEPT ![Lowest(free)] = entry],
          min   |-> Cached(entry.when, e.min)]

\* eventDelete leaves the cache as it is.
EventDelete(e, name) ==
    IF Called(e.table, name) = {} THEN e
    ELSE [table |-> [e.table EXCEPT ![Lowest(Called(e.table, name))].active = FALSE],
          min   |-> e.min]

EventNextTime ==
    IF event_time_min # -1 \/ Active(event_table) = {} THEN event_time_min
    ELSE Lowest({event_table[i].when : i \in Active(event_table)})

\* Mutant: the walk ends at the first free slot.
SetBackFirst(by) ==
    [i \in Slot |->
        IF 1..i \subseteq Active(event_table) THEN [event_table[i] EXCEPT !.when = @ - by]
        ELSE event_table[i]]

\* So does set_back_events.
SetBackEvents(by) ==
    [i \in Slot |-> [event_table[i] EXCEPT !.when = IF @ > by THEN @ - by ELSE 0]]

-----------------------------------------------------------------------------
(* check_splitmode, as long as the configuration asks for it. *)

Starts(net) == ~splitmode /\ net = "below"
Stops(net) == splitmode /\ net = "above"

\* Mutant: the event that finds the network whole again stays.
CheckedKeeps(e, net, period) ==
    IF Starts(net) THEN EventAdd(e, "check_splitmode", period) ELSE e

Checked(e, net, period) ==
    IF Starts(net) THEN EventAdd(e, "check_splitmode", period)
    ELSE IF Stops(net) THEN EventDelete(e, "check_splitmode")
    ELSE e

\* The mode afterwards, for a caller that does, or does not, check.
SplitmodeAfter(checks, net) ==
    /\ network' = net
    /\ splitmode' = IF checks /\ (Starts(net) \/ Stops(net)) THEN ~splitmode ELSE splitmode
    /\ unwatched' = (unwatched /\ ~(checks /\ Stops(net)))

\* Clients who exit check too, unless the mode is on: update_client_exit_stats.
ExitChecks == splitchecking /\ ~splitmode
Lower(net) ==
    IF net = "above" THEN Network
    ELSE IF net = "between" THEN {"between", "below"} ELSE {"below"}

-----------------------------------------------------------------------------
(* io_loop's events. *)

\* The while loop asks eventNextTime, which fills the cache.
Asks ==
    /\ at = AtEvents
    /\ event_time_min' = EventNextTime
    /\ lag' = IF event_time_min = -1 THEN 0 ELSE lag
    /\ UNCHANGED <<event_table, splitVars>>

EventRun ==
    /\ Asks
    /\ EventNextTime <= CurrentTime
    /\ at' = 1
    /\ UNCHANGED <<CurrentTime, spent>>

\* comm_select: the clock may have been set back meanwhile.
CommSelect(now) ==
    /\ at = AtEvents /\ EventNextTime > CurrentTime
    /\ at' = AtHandlers
    /\ CurrentTime' = now
    /\ event_time_min' = EventNextTime
    /\ IF now >= CurrentTime
       THEN /\ lag' = IF event_time_min = -1 THEN 0 ELSE lag
            /\ UNCHANGED <<event_table, spent>>
       ELSE /\ spent.back < MaxBack
            /\ event_table' = SetBackEvents(CurrentTime - now)
            /\ lag' = CurrentTime - now + IF event_time_min = -1 THEN 0 ELSE lag
            /\ spent' = [spent EXCEPT !.back = @ + 1]
    /\ UNCHANGED splitVars

NextSlot == at' = IF at = MAX_EVENTS THEN AtEvents ELSE at + 1

Skip ==
    /\ at \in Slot
    /\ ~event_table[at].active \/ event_table[at].when > CurrentTime
    /\ NextSlot
    /\ UNCHANGED <<event_table, event_time_min, CurrentTime, lag, spent, splitVars>>

\* The event's function, then its next time by the clock and the slot as they
\* are after it.  Functions other than check_splitmode may make clients exit.
RunSlot(net, period) ==
    /\ at \in Slot
    /\ event_table[at].active /\ event_table[at].when <= CurrentTime
    /\ LET self == event_table[at].name = "check_splitmode"
           checks == IF self THEN splitchecking ELSE ExitChecks
           e == IF checks THEN Checked(Timers, net, period) ELSE Timers IN
       /\ self => net = network
       /\ event_table' = [e.table EXCEPT ![at].when = CurrentTime + e.table[at].frequency]
       /\ SplitmodeAfter(checks, net)
    /\ event_time_min' = -1
    /\ NextSlot
    /\ UNCHANGED <<CurrentTime, lag, splitchecking, spent>>

-----------------------------------------------------------------------------
(* Handlers. *)

InHandlers == at = AtHandlers /\ UNCHANGED <<CurrentTime, at, lag>>

EndTurn ==
    /\ at = AtHandlers /\ at' = AtEvents
    /\ UNCHANGED <<event_table, event_time_min, CurrentTime, lag, spent, splitVars>>

Exits(net, period) ==
    /\ InHandlers
    /\ TimersAre(IF ExitChecks THEN Checked(Timers, net, period) ELSE Timers)
    /\ SplitmodeAfter(ExitChecks, net)
    /\ UNCHANGED <<splitchecking, spent>>

\* Servers link and users register: nobody checks.
Arrives(net) ==
    /\ InHandlers
    /\ network' = net
    /\ UNCHANGED <<event_table, event_time_min, splitmode, splitchecking, unwatched, spent>>

Commanded ==
    /\ InHandlers
    /\ spent.set < MaxSets /\ spent' = [spent EXCEPT !.set = @ + 1]

\* SET SPLITMODE OFF and ON.
SetSplitmode(on) ==
    /\ Commanded
    /\ TimersAre(EventDelete(Timers, "check_splitmode"))
    /\ splitmode' = on /\ splitchecking' = FALSE /\ unwatched' = FALSE
    /\ UNCHANGED network

\* SET SPLITMODE AUTO.
SetSplitmodeAuto(period) ==
    /\ Commanded
    /\ splitchecking' = TRUE
    /\ TimersAre(Checked(Timers, network, period))
    /\ splitmode' = (splitmode # (Starts(network) \/ Stops(network)))
    /\ unwatched' = (splitmode' /\ (unwatched \/ (splitmode /\ ~splitchecking)))
    /\ UNCHANGED network

\* SET SPLITNUM and SPLITUSERS move what the network is measured by.
SetSplitNumbers(net, period) ==
    /\ Commanded
    /\ TimersAre(IF splitchecking THEN Checked(Timers, net, period) ELSE Timers)
    /\ SplitmodeAfter(splitchecking, net)
    /\ UNCHANGED splitchecking

\* restart_resolver, whose socket may not open again.
RestartResolver(opens) ==
    /\ Commanded
    /\ LET e == EventDelete(Timers, "timeout_resolver") IN
       TimersAre(IF opens THEN EventAdd(e, "timeout_resolver", Period["timeout_resolver"]) ELSE e)
    /\ UNCHANGED splitVars

-----------------------------------------------------------------------------

Boot == [active |-> FALSE, name |-> "check_splitmode", when |-> 0, frequency |-> 0]

\* main: the resolver's event, then the others; split mode is on if there is any.
EventInit ==
    /\ CurrentTime = MaxBack /\ at = AtEvents /\ lag = 0
    /\ network = "below"
    /\ splitmode \in BOOLEAN /\ splitchecking = splitmode /\ unwatched = FALSE
    /\ \E period \in SplitPeriod :
         LET a == EventAdd([table |-> [i \in Slot |-> Boot], min |-> -1],
                           "timeout_resolver", Period["timeout_resolver"])
             b == EventAdd(a, "comm_checktimeouts", Period["comm_checktimeouts"])
             c == IF splitmode THEN EventAdd(b, "check_splitmode", period) ELSE b IN
         event_table = c.table /\ event_time_min = c.min
    /\ spent = [back |-> 0, set |-> 0]

EventNext ==
    \/ EventRun \/ Skip \/ EndTurn
    \/ \E now \in 0..MaxClock : CommSelect(now)
    \/ \E net \in Network : Arrives(net)
    \/ \E net \in Lower(network), period \in SplitPeriod : RunSlot(net, period) \/ Exits(net, period)
    \/ \E on \in BOOLEAN : SetSplitmode(on) \/ RestartResolver(on)
    \/ \E net \in Network, period \in SplitPeriod : SetSplitNumbers(net, period)
    \/ \E period \in SplitPeriod : SetSplitmodeAuto(period)

EventSpec == EventInit /\ [][EventNext]_eventVars

-----------------------------------------------------------------------------
\* No event is ever further off than its period, whatever the clock did; the
\* cached time that io_loop goes by is later than an event by no more than the
\* clock was set back under it; and when it is reached some event is due, so
\* that the while loop over eventRun ends.
EventsOnTime ==
    /\ \A i \in Active(event_table) :
         /\ event_table[i].when <= CurrentTime + event_table[i].frequency
         /\ event_time_min # -1 => event_time_min <= event_table[i].when + lag
    /\ at = 1 => \E i \in Active(event_table) : event_table[i].when <= CurrentTime

\* An automatic split mode has the one event that will end it, except one that
\* an operator had turned ON before; and nothing else has one.
SplitmodeWatched ==
    Cardinality(Called(event_table, "check_splitmode")) =
      IF splitmode /\ splitchecking /\ ~unwatched THEN 1 ELSE 0
=============================================================================
