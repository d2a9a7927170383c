----------------------------- MODULE Loop_proof -----------------------------
(***************************************************************************)
(* What io_loop goes by, for any periods, clock and order of calls: the    *)
(* table of events with the one event that comes and goes, a connection    *)
(* between its socket and its queues, and the bytes of the queues.         *)
(***************************************************************************)
EXTENDS Events, Streams, Dbuf, Induction, FiniteSetTheorems, SequenceTheorems, TLAPS

-----------------------------------------------------------------------------
(* Calls of event.c.                                                       *)

Comm == "comm_checktimeouts"
Resolver == "timeout_resolver"
Check == "check_splitmode"

EventEntry == [active : BOOLEAN, name : EventName, when : Nat, frequency : Nat]
TimerSet == [table : [Slot -> EventEntry], min : Nat \cup {-1}]
PutEntry(table, k, entry) == [table EXCEPT ![k] = entry]
Freed(entry) == [entry EXCEPT !.active = FALSE]
New(name, period) ==
    [active |-> TRUE, name |-> name, when |-> CurrentTime + period, frequency |-> period]

LEMMA EventNames ==
    /\ EventName = {Comm, Resolver, Check}
    /\ Comm # Resolver /\ Comm # Check /\ Resolver # Check
BY EventAssumption DEF EventName, Comm, Resolver, Check

LEMMA LowestIs ==
    ASSUME NEW S, S \subseteq Nat, S # {}
    PROVE  Lowest(S) \in S /\ \A y \in S : Lowest(S) <= y
BY LeastNatural DEF Lowest

LEMMA SlotFacts == Slot \subseteq Nat /\ {1, 2, 3} \subseteq Slot
BY EventAssumption DEF Slot

\* eventAdd takes a free slot for the event.
LEMMA AddEffect ==
    ASSUME NEW e, Active(e.table) # Slot, NEW name, NEW period
    PROVE  \E k \in Slot : /\ ~e.table[k].active
                           /\ EventAdd(e, name, period) =
                                [table |-> PutEntry(e.table, k, New(name, period)),
                                 min |-> Cached(New(name, period).when, e.min)]
<1> DEFINE free == Slot \ Active(e.table)
           k == Lowest(free)
<1>1. free # {} /\ free \subseteq Nat
  BY SlotFacts DEF Active
<1>2. k \in free
  BY <1>1, LowestIs
<1>3. k \in Slot /\ ~e.table[k].active
  BY <1>2 DEF Active
<1>4. EventAdd(e, name, period) =
        [table |-> PutEntry(e.table, k, New(name, period)),
         min |-> Cached(New(name, period).when, e.min)]
  BY <1>1 DEF EventAdd, New, PutEntry
<1> QED
  BY <1>3, <1>4

\* eventDelete frees the slot of the event, if there is one.
LEMMA DeleteEffect ==
    ASSUME NEW e \in TimerSet, NEW name, Called(e.table, name) # {}
    PROVE  \E k \in Called(e.table, name) :
             EventDelete(e, name) =
               [table |-> PutEntry(e.table, k, Freed(e.table[k])), min |-> e.min]
<1> DEFINE k == Lowest(Called(e.table, name))
<1>1. k \in Called(e.table, name)
  <2>1. Called(e.table, name) \subseteq Nat
    BY SlotFacts DEF Called, Active
  <2> QED
    BY <2>1, LowestIs
<1>2. EventDelete(e, name) =
        [table |-> PutEntry(e.table, k, Freed(e.table[k])), min |-> e.min]
  BY DEF EventDelete, Freed, PutEntry
<1> QED
  BY <1>1, <1>2

\* The table has each event once at most, check_splitmode's if w.
Once(table, w) ==
    /\ \E c \in Slot : Called(table, Comm) = {c}
    /\ \E r \in Slot : Called(table, Resolver) \subseteq {r}
    /\ IF w THEN \E k \in Slot : Called(table, Check) = {k} ELSE Called(table, Check) = {}

\* Every event has a time that is no further off than its period, those of the
\* slots before n one that is still to come.
Sound(e, w, n) ==
    /\ e \in TimerSet
    /\ Once(e.table, w)
    /\ \A i \in Active(e.table) :
         /\ e.table[i].frequency > 0
         /\ e.table[i].when <= CurrentTime + e.table[i].frequency
         /\ i < n => e.table[i].when > CurrentTime
    /\ \A c \in Called(e.table, Comm) : e.table[c].frequency = 1

\* comm_checktimeouts is the first, and the cached time is not before it.
Leads(e) ==
    /\ e.min \in Nat
    /\ \A i \in Active(e.table) : e.min <= e.table[i].when + lag
    /\ \A c \in Called(e.table, Comm) :
         /\ e.table[c].when <= e.min
         /\ \A i \in Active(e.table) : e.table[c].when <= e.table[i].when

LEMMA HasRoom ==
    ASSUME NEW table \in [Slot -> EventEntry], NEW w \in BOOLEAN, Once(table, w),
           Called(table, Check) = {} \/ Called(table, Resolver) = {}
    PROVE  Active(table) # Slot
<1>1. \A i \in Active(table) : \E name \in {Comm, Resolver, Check} : i \in Called(table, name)
  BY EventNames DEF Active, Called, EventEntry
<1>2. PICK c, r : Active(table) \subseteq {c, r}
  <2>1. PICK c : Called(table, Comm) = {c}
    BY DEF Once
  <2>2. PICK r : Called(table, Resolver) \cup Called(table, Check) \subseteq {r}
    BY DEF Once
  <2> QED
    BY <1>1, <2>1, <2>2
<1> QED
  BY <1>2, SlotFacts

\* What an added event changes of the table.
LEMMA AddCalls ==
    ASSUME NEW table \in [Slot -> EventEntry], NEW k \in Slot, ~table[k].active,
           NEW name \in EventName, NEW period \in Nat, CurrentTime \in Nat,
           NEW t, t = PutEntry(table, k, New(name, period))
    PROVE  /\ t \in [Slot -> EventEntry]
           /\ Active(t) = Active(table) \cup {k} /\ k \notin Active(table)
           /\ t[k] = New(name, period) /\ \A i \in Slot \ {k} : t[i] = table[i]
           /\ Called(t, name) = Called(table, name) \cup {k}
           /\ \A n \in EventName \ {name} : Called(t, n) = Called(table, n)
<1>1. New(name, period) \in EventEntry /\ New(name, period).active /\ New(name, period).name = name
  BY DEF New, EventEntry
<1>2. t \in [Slot -> EventEntry] /\ t[k] = New(name, period) /\ \A i \in Slot \ {k} : t[i] = table[i]
  BY <1>1 DEF PutEntry
<1>3. Active(t) = Active(table) \cup {k} /\ k \notin Active(table)
  BY <1>1, <1>2 DEF Active
<1>4. /\ \A i \in Active(table) : t[i].name = table[i].name
      /\ t[k].name = name
  BY <1>1, <1>2, <1>3 DEF Active
<1>5. Called(t, name) = Called(table, name) \cup {k}
  BY <1>3, <1>4 DEF Called
<1>6. ASSUME NEW n \in EventName \ {name}
      PROVE  Called(t, n) = Called(table, n)
  BY <1>3, <1>4, <1>6 DEF Called
<1> QED
  BY <1>2, <1>3, <1>5, <1>6

\* And a deleted one.
LEMMA DeleteCalls ==
    ASSUME NEW table \in [Slot -> EventEntry], NEW name \in EventName, NEW k \in Called(table, name),
           NEW t, t = PutEntry(table, k, Freed(table[k]))
    PROVE  /\ t \in [Slot -> EventEntry]
           /\ Active(t) = Active(table) \ {k}
           /\ \A i \in Slot \ {k} : t[i] = table[i]
           /\ Called(t, name) = Called(table, name) \ {k}
           /\ \A n \in EventName \ {name} : Called(t, n) = Called(table, n)
<1>1. k \in Slot /\ table[k].name = name /\ table[k].active
  BY DEF Called, Active
<1>2. /\ t \in [Slot -> EventEntry] /\ \A i \in Slot \ {k} : t[i] = table[i]
      /\ t[k] = Freed(table[k]) /\ table[k] \in EventEntry
  BY <1>1 DEF EventEntry, Freed, PutEntry
<1>3. ~t[k].active
  BY <1>2 DEF EventEntry, Freed
<1>4. Active(t) = Active(table) \ {k}
  BY <1>1, <1>2, <1>3 DEF Active
<1>5. \A i \in Active(t) : t[i].name = table[i].name
  BY <1>2, <1>4 DEF Active
<1>6. Called(t, name) = Called(table, name) \ {k}
  BY <1>4, <1>5 DEF Called
<1>7. ASSUME NEW n \in EventName \ {name}
      PROVE  Called(t, n) = Called(table, n)
  BY <1>1, <1>4, <1>5, <1>7 DEF Called
<1> QED
  BY <1>2, <1>4, <1>6, <1>7

\* An added event that was not there: name is check_splitmode or timeout_resolver.
LEMMA AddKeeps ==
    ASSUME CurrentTime \in Nat, NEW e, NEW n, NEW w \in BOOLEAN, Sound(e, w, n),
           NEW name \in {Check, Resolver}, Called(e.table, name) = {},
           NEW period \in Nat \ {0}, NEW a, a = EventAdd(e, name, period)
    PROVE  Sound(a, w \/ name = Check, n) /\ (lag \in Nat /\ Leads(e) => Leads(a))
<1>0. e.table \in [Slot -> EventEntry] /\ e.min \in Nat \cup {-1} /\ e \in TimerSet
  BY DEF Sound, TimerSet
<1>1. Active(e.table) # Slot
  BY <1>0, HasRoom DEF Sound, Once
<1>2. PICK k \in Slot :
         /\ ~e.table[k].active
         /\ a = [table |-> PutEntry(e.table, k, New(name, period)),
                 min |-> Cached(New(name, period).when, e.min)]
  BY <1>1, AddEffect
<1> DEFINE t == a.table
<1>3. t = PutEntry(e.table, k, New(name, period)) /\ a.min = Cached(New(name, period).when, e.min)
  BY <1>2
<1>4. /\ t \in [Slot -> EventEntry]
      /\ Active(t) = Active(e.table) \cup {k} /\ k \notin Active(e.table)
      /\ t[k] = New(name, period) /\ \A i \in Slot \ {k} : t[i] = e.table[i]
      /\ Called(t, name) = Called(e.table, name) \cup {k}
      /\ \A m \in EventName \ {name} : Called(t, m) = Called(e.table, m)
  <2>1. name \in EventName /\ period \in Nat
    BY EventNames
  <2> QED
    BY <1>0, <1>2, <1>3, <2>1, AddCalls
<1>5. /\ New(name, period).when = CurrentTime + period /\ New(name, period).frequency = period
      /\ CurrentTime + period > CurrentTime /\ CurrentTime + period \in Nat
  BY DEF New
<1>6. a \in TimerSet
  BY <1>0, <1>2, <1>3, <1>4, <1>5 DEF TimerSet, Cached
<1>7. Once(t, w \/ name = Check)
  <2>1. Called(t, name) = {k}
    BY <1>4
  <2>2. \A m \in {Comm, Resolver, Check} : m # name => Called(t, m) = Called(e.table, m)
    BY <1>4, EventNames
  <2> QED
    BY <2>1, <2>2, EventNames DEF Sound, Once
<1>8. /\ Active(e.table) \subseteq Slot
      /\ \A i \in Active(e.table) : t[i] = e.table[i]
      /\ Called(t, Comm) = Called(e.table, Comm) /\ Called(e.table, Comm) \subseteq Active(e.table)
  <2>1. Active(e.table) \subseteq Slot /\ Called(e.table, Comm) \subseteq Active(e.table)
    BY DEF Active, Called
  <2> QED
    BY <2>1, <1>4, EventNames
<1> HIDE DEF t
<1>9. \A i \in Active(t) : /\ t[i].frequency > 0
                           /\ t[i].when <= CurrentTime + t[i].frequency
                           /\ i < n => t[i].when > CurrentTime
  BY <1>4, <1>5, <1>8 DEF Sound
<1>10. \A c \in Called(t, Comm) : t[c].frequency = 1
  BY <1>8 DEF Sound
<1>11. ASSUME lag \in Nat, Leads(e) PROVE Leads(a)
  <2>1. e.min \in Nat /\ a.min \in Nat /\ a.min <= e.min /\ a.min <= CurrentTime + period
        /\ (a.min = e.min \/ a.min = CurrentTime + period)
    BY <1>0, <1>3, <1>5, <1>11 DEF Cached, Leads
  <2>2. \A i \in Active(e.table) : e.table[i].when \in Nat
    BY <1>0, <1>8 DEF EventEntry
  <2>3. \A i \in Active(t) : a.min <= t[i].when + lag
    BY <1>4, <1>5, <1>8, <1>11, <2>1, <2>2 DEF Leads
  <2>4. \A c \in Called(t, Comm) : t[c].when <= CurrentTime + 1 /\ t[c].when \in Nat
    BY <1>8, <2>2 DEF Sound
  <2>5. \A c \in Called(t, Comm) : t[c].when <= a.min
    <3>1. \A c \in Called(t, Comm) : t[c].when <= e.min
      BY <1>8, <1>11 DEF Leads
    <3> QED
      BY <2>1, <2>4, <3>1
  <2>6. \A c \in Called(t, Comm) : \A i \in Active(t) : t[c].when <= t[i].when
    <3>1. \A c \in Called(t, Comm) : \A i \in Active(e.table) : t[c].when <= t[i].when
      BY <1>8, <1>11 DEF Leads
    <3> QED
      BY <1>4, <1>5, <2>4, <3>1
  <2> QED
    BY <2>1, <2>3, <2>5, <2>6 DEF Leads, t
<1> QED
  BY <1>6, <1>7, <1>9, <1>10, <1>11 DEF Sound, t

\* A deleted event: name is check_splitmode or timeout_resolver.
LEMMA DeleteKeeps ==
    ASSUME CurrentTime \in Nat, NEW e, NEW n, NEW w \in BOOLEAN, Sound(e, w, n),
           NEW name \in {Check, Resolver}, NEW d, d = EventDelete(e, name)
    PROVE  /\ Sound(d, w /\ name # Check, n) /\ Called(d.table, name) = {}
           /\ Leads(e) => Leads(d)
<1>0. e.table \in [Slot -> EventEntry] /\ e.min \in Nat \cup {-1} /\ e \in TimerSet
  BY DEF Sound, TimerSet
<1>1. CASE Called(e.table, name) = {}
  <2>1. d = e
    BY <1>1 DEF EventDelete
  <2>2. Once(e.table, w /\ name # Check)
    BY <1>1 DEF Sound, Once
  <2> QED
    BY <1>1, <2>1, <2>2 DEF Sound
<1>2. CASE Called(e.table, name) # {}
  <2>1. PICK k \in Called(e.table, name) :
          d = [table |-> PutEntry(e.table, k, Freed(e.table[k])), min |-> e.min]
    BY <1>0, <1>2, DeleteEffect
  <2> DEFINE t == d.table
  <2>2. t = PutEntry(e.table, k, Freed(e.table[k])) /\ d.min = e.min
    BY <2>1
  <2>3. /\ t \in [Slot -> EventEntry]
        /\ Active(t) = Active(e.table) \ {k}
        /\ \A i \in Slot \ {k} : t[i] = e.table[i]
        /\ Called(t, name) = Called(e.table, name) \ {k}
        /\ \A m \in EventName \ {name} : Called(t, m) = Called(e.table, m)
    <3>1. name \in EventName
      BY EventNames
    <3> HIDE DEF t
    <3> QED
      BY <1>0, <2>2, <3>1, DeleteCalls
  <2>4. Called(e.table, name) = {k} /\ Called(t, name) = {}
    <3>1. \E r : Called(e.table, name) \subseteq {r}
      BY DEF Sound, Once
    <3> QED
      BY <2>3, <3>1
  <2>5. Once(t, w /\ name # Check)
    <3>1. Called(t, Comm) = Called(e.table, Comm)
      BY <2>3, EventNames
    <3>2. Called(t, Resolver) = Called(e.table, Resolver) \/ Called(t, Resolver) = {}
      BY <2>3, <2>4, EventNames
    <3>3. name # Check => Called(t, Check) = Called(e.table, Check)
      BY <2>3, EventNames
    <3> QED
      BY <2>4, <3>1, <3>2, <3>3 DEF Sound, Once
  <2>6. /\ Active(t) \subseteq Active(e.table)
        /\ \A i \in Active(t) : t[i] = e.table[i]
        /\ Called(t, Comm) = Called(e.table, Comm) /\ Called(t, Comm) \subseteq Active(t)
    <3>1. Active(e.table) \subseteq Slot /\ Called(t, Comm) \subseteq Active(t)
      BY DEF Active, Called
    <3> QED
      BY <3>1, <2>3, EventNames
  <2>7. d \in TimerSet
    BY <1>0, <2>1, <2>2, <2>3 DEF TimerSet
  <2> HIDE DEF t
  <2>8. /\ \A i \in Active(t) : /\ t[i].frequency > 0
                                /\ t[i].when <= CurrentTime + t[i].frequency
                                /\ i < n => t[i].when > CurrentTime
        /\ \A c \in Called(t, Comm) : t[c].frequency = 1
    BY <2>6 DEF Sound
  <2>9. ASSUME Leads(e) PROVE Leads(d)
    BY <2>2, <2>6, <2>9 DEF Leads, t
  <2> QED
    BY <2>4, <2>5, <2>7, <2>8, <2>9 DEF Sound, t
<1> QED
  BY <1>1, <1>2

-----------------------------------------------------------------------------
(* The inductive invariant.                                                *)

Watched == splitmode /\ splitchecking /\ ~unwatched
Passed == IF at = AtHandlers THEN 0 ELSE at

\* The cached time, while there is one.
CacheOnTime ==
    event_time_min # -1 =>
      /\ \A i \in Active(event_table) : event_time_min <= event_table[i].when + lag
      /\ \A c \in Called(event_table, Comm) : event_table[c].when <= event_time_min

\* comm_checktimeouts, which runs every second, is the first event, but while
\* eventRun walks over the table.
CommFirst ==
    at \notin Slot =>
      \A c \in Called(event_table, Comm), i \in Active(event_table) :
        event_table[c].when <= event_table[i].when

EventInd ==
    /\ EventTypeOK
    /\ Sound(Timers, Watched, Passed)
    /\ unwatched => splitmode /\ splitchecking
    /\ CacheOnTime
    /\ CommFirst
    /\ at = AtHandlers => event_time_min # -1
    /\ at = 1 => \A c \in Called(event_table, Comm) : event_table[c].when <= CurrentTime

LEMMA TimersFacts ==
    ASSUME EventTypeOK
    PROVE  /\ Timers \in TimerSet /\ Timers.table = event_table /\ Timers.min = event_time_min
           /\ event_table \in [Slot -> EventEntry] /\ event_time_min \in Nat \cup {-1}
           /\ CurrentTime \in Nat /\ lag \in Nat
BY DEF EventTypeOK, Timers, TimerSet, EventEntry

LEMMA OnTime == EventInd => EventsOnTime
<1> SUFFICES ASSUME EventInd PROVE EventsOnTime
  OBVIOUS
<1>1. EventTypeOK /\ Sound(Timers, Watched, Passed) /\ Timers.table = event_table
  BY TimersFacts DEF EventInd
<1>2. PICK c \in Slot : Called(event_table, Comm) = {c}
  BY <1>1 DEF Sound, Once
<1>3. c \in Active(event_table)
  BY <1>2 DEF Called
<1>4. \A i \in Active(event_table) : event_table[i].when <= CurrentTime + event_table[i].frequency
  BY <1>1 DEF Sound
<1> QED
  BY <1>2, <1>3, <1>4 DEF EventInd, CacheOnTime, EventsOnTime

LEMMA IsWatched == EventInd => SplitmodeWatched
<1> SUFFICES ASSUME EventInd PROVE SplitmodeWatched
  OBVIOUS
<1>1. Once(event_table, Watched)
  BY TimersFacts DEF EventInd, Sound
<1>2. CASE Watched
  <2>1. PICK k \in Slot : Called(event_table, Check) = {k}
    BY <1>1, <1>2 DEF Once
  <2>2. Cardinality({k}) = 1
    BY FS_Singleton
  <2> QED
    BY <1>2, <2>1, <2>2 DEF SplitmodeWatched, Watched, Check
<1>3. CASE ~Watched
  <2>1. Called(event_table, Check) = {}
    BY <1>1, <1>3 DEF Once
  <2>2. Cardinality({}) = 0
    BY FS_EmptySet
  <2> QED
    BY <1>3, <2>1, <2>2 DEF SplitmodeWatched, Watched, Check
<1> QED
  BY <1>2, <1>3

LEMMA EventIndInit == EventInit => EventInd
<1> SUFFICES ASSUME EventInit PROVE EventInd
  OBVIOUS
<1>1. PICK p \in Nat \ {0} : p = Period[Resolver] /\ Period[Comm] = 1
  BY EventAssumption DEF Resolver, Comm
<1> DEFINE boot == [i \in Slot |-> Boot]
           z == [table |-> boot, min |-> -1]
           a == EventAdd(z, Resolver, p)
           b == EventAdd(a, Comm, 1)
<1>0. /\ CurrentTime \in Nat /\ at = AtEvents /\ lag = 0 /\ splitchecking = splitmode
      /\ splitmode \in BOOLEAN /\ unwatched = FALSE /\ 0 # AtHandlers /\ 0 \notin Slot /\ 1 \in Slot
  BY EventAssumption DEF EventInit, Slot, AtHandlers
<1>2. /\ boot \in [Slot -> EventEntry] /\ Active(boot) = {} /\ z.table = boot /\ z.min = -1
      /\ \A name : Called(boot, name) = {}
  <2>1. Boot \in EventEntry /\ ~Boot.active
    BY EventNames DEF Boot, EventEntry, Check
  <2> QED
    BY <2>1 DEF Active, Called
<1>3. PICK k \in Slot : a = [table |-> PutEntry(z.table, k, New(Resolver, p)),
                             min |-> Cached(New(Resolver, p).when, z.min)]
  <2>1. Active(z.table) # Slot
    BY <1>0, <1>2
  <2> HIDE DEF z
  <2> QED
    BY <2>1, AddEffect
<1>4. /\ a.table = PutEntry(boot, k, New(Resolver, p))
      /\ a.min = CurrentTime + p
  <2>1. New(Resolver, p).when = CurrentTime + p
    BY DEF New
  <2> HIDE DEF a, boot
  <2>2. z.table = boot /\ z.min = -1
    OBVIOUS
  <2> HIDE DEF z
  <2> QED
    BY <1>3, <2>1, <2>2 DEF Cached
<1>5. /\ a.table \in [Slot -> EventEntry] /\ Active(a.table) = {k}
      /\ a.table[k] = New(Resolver, p)
      /\ Called(a.table, Resolver) = {k} /\ Called(a.table, Comm) = {} /\ Called(a.table, Check) = {}
  <2> HIDE DEF boot, a
  <2>1. ~boot[k].active /\ Resolver \in EventName
    BY <1>2, EventNames DEF Active
  <2>2. /\ a.table \in [Slot -> EventEntry]
        /\ Active(a.table) = Active(boot) \cup {k} /\ k \notin Active(boot)
        /\ a.table[k] = New(Resolver, p)
        /\ Called(a.table, Resolver) = Called(boot, Resolver) \cup {k}
        /\ \A n \in EventName \ {Resolver} : Called(a.table, n) = Called(boot, n)
    <3>1. /\ boot \in [Slot -> EventEntry] /\ CurrentTime \in Nat
          /\ a.table = PutEntry(boot, k, New(Resolver, p))
      BY <1>0, <1>2, <1>4
    <3> QED
      BY <2>1, <3>1, AddCalls
  <2> QED
    BY <1>2, <2>2, EventNames
<1> HIDE DEF a
<1>6. PICK c \in Slot : /\ ~a.table[c].active
                        /\ b = [table |-> PutEntry(a.table, c, New(Comm, 1)),
                                min |-> Cached(New(Comm, 1).when, a.min)]
  <2>1. Active(a.table) # Slot
    BY <1>5, SlotFacts
  <2> QED
    BY <2>1, AddEffect
<1>7. /\ b.table = PutEntry(a.table, c, New(Comm, 1))
      /\ b.min = Cached(CurrentTime + 1, CurrentTime + p)
  <2>1. New(Comm, 1).when = CurrentTime + 1
    BY <1>1 DEF New
  <2> QED
    BY <1>4, <1>6, <2>1
<1>8. /\ b.table \in [Slot -> EventEntry] /\ Active(b.table) = {k, c} /\ k # c
      /\ b.table[c] = New(Comm, 1) /\ b.table[k] = New(Resolver, p)
      /\ Called(b.table, Resolver) = {k} /\ Called(b.table, Comm) = {c} /\ Called(b.table, Check) = {}
  <2> HIDE DEF b
  <2> QED
    BY <1>0, <1>1, <1>5, <1>6, <1>7, EventNames, AddCalls
<1>9. b \in TimerSet /\ b.min = CurrentTime + 1
  BY <1>0, <1>1, <1>6, <1>7, <1>8 DEF TimerSet, Cached
<1> HIDE DEF b
<1>10. /\ b.table[c].when = CurrentTime + 1 /\ b.table[c].frequency = 1
       /\ b.table[k].when = CurrentTime + p
       /\ b.table[k].frequency = p
  BY <1>1, <1>8 DEF New
<1>11. Sound(b, FALSE, 0) /\ Leads(b)
  <2>1. Once(b.table, FALSE)
    BY <1>8 DEF Once
  <2>2. /\ \A i \in Active(b.table) :
              /\ b.table[i].frequency > 0
              /\ b.table[i].when <= CurrentTime + b.table[i].frequency
              /\ i < 0 => b.table[i].when > CurrentTime
        /\ \A d \in Called(b.table, Comm) : b.table[d].frequency = 1
    BY <1>0, <1>1, <1>8, <1>10
  <2>3. Leads(b)
    BY <1>0, <1>1, <1>8, <1>9, <1>10 DEF Leads
  <2> QED
    BY <1>9, <2>1, <2>2, <2>3 DEF Sound
<1>12. PICK period \in SplitPeriod :
         LET e == IF splitmode THEN EventAdd(b, Check, period) ELSE b
         IN  event_table = e.table /\ event_time_min = e.min
  BY <1>1 DEF EventInit, Comm, Resolver, Check, a, b
<1> DEFINE e == IF splitmode THEN EventAdd(b, Check, period) ELSE b
<1>13. Sound(e, splitmode, 0) /\ Leads(e)
  <2>1. CASE splitmode
    <3>1. Sound(e, FALSE \/ Check = Check, 0) /\ Leads(e)
      BY <1>0, <1>8, <1>11, <2>1, AddKeeps, EventAssumption
    <3> QED
      BY <2>1, <3>1
  <2>2. CASE ~splitmode
    BY <1>0, <1>11, <2>2
  <2> QED
    BY <2>1, <2>2
<1>14. event_table = e.table /\ event_time_min = e.min
  BY <1>12
<1> HIDE DEF e
<1>15. Timers = e /\ Watched = splitmode /\ Passed = 0
  <2>1. e = [table |-> e.table, min |-> e.min]
    BY <1>13 DEF Sound, TimerSet
  <2> QED
    BY <1>0, <1>14, <2>1 DEF Timers, Watched, Passed, AtEvents
<1>16. EventTypeOK
  <2>1. event_table \in [Slot -> EventEntry] /\ event_time_min \in Nat
    BY <1>13, <1>14 DEF Sound, Leads, TimerSet
  <2>2. spent \in [{"back", "set"} -> Nat]
    BY DEF EventInit
  <2> QED
    BY <1>0, <2>1, <2>2 DEF EventTypeOK, EventInit, EventEntry, Network, AtEvents
<1>17. CacheOnTime /\ CommFirst
  BY <1>13, <1>14 DEF CacheOnTime, CommFirst, Leads
<1> QED
  BY <1>0, <1>13, <1>15, <1>16, <1>17 DEF EventInd, AtEvents

-----------------------------------------------------------------------------
(* Handlers.                                                               *)

\* What holds of the timers in a handler.
LEMMA HandlerFacts ==
    ASSUME EventInd, at = AtHandlers
    PROVE  /\ CurrentTime \in Nat /\ lag \in Nat /\ AtHandlers # 1 /\ AtHandlers \notin Slot
           /\ Sound(Timers, Watched, 0) /\ Leads(Timers)
<1>1. /\ EventTypeOK /\ Sound(Timers, Watched, 0) /\ CacheOnTime /\ CommFirst
      /\ event_time_min # -1
  BY DEF EventInd, Passed
<1>2. AtHandlers # 1 /\ AtHandlers \notin Slot
  BY EventAssumption DEF AtHandlers, Slot
<1>3. Leads(Timers)
  BY <1>1, <1>2, TimersFacts DEF Leads, CacheOnTime, CommFirst
<1> QED
  BY <1>1, <1>2, <1>3, TimersFacts

LEMMA HandlerKeeps ==
    ASSUME EventInd, at = AtHandlers, InHandlers,
           NEW e, TimersAre(e), NEW w \in BOOLEAN, Sound(e, w, 0), Leads(e),
           w = Watched', unwatched' => splitmode' /\ splitchecking',
           {splitmode', splitchecking', unwatched'} \subseteq BOOLEAN, network' \in Network,
           spent' \in [{"back", "set"} -> Nat]
    PROVE  EventInd'
<1>1. /\ CurrentTime' = CurrentTime /\ lag' = lag /\ at' = AtHandlers
      /\ event_table' = e.table /\ event_time_min' = e.min
  BY DEF InHandlers, TimersAre
<1>2. Timers' = e
  <2>1. e = [table |-> e.table, min |-> e.min]
    BY DEF Sound, TimerSet
  <2> QED
    BY <1>1, <2>1 DEF Timers
<1>3. EventTypeOK'
  <2>1. event_table' \in [Slot -> EventEntry] /\ event_time_min' \in Nat
    BY <1>1 DEF Sound, TimerSet, Leads
  <2> QED
    BY <1>1, <2>1 DEF EventTypeOK, EventInd, EventEntry
<1>4. Sound(Timers, Watched, Passed)'
  <2>1. Passed' = 0 /\ Watched' = w
    BY <1>1 DEF Passed
  <2> QED
    BY <1>1, <1>2, <2>1 DEF Sound
<1>5. CacheOnTime' /\ CommFirst' /\ event_time_min' # -1
  BY <1>1 DEF CacheOnTime, CommFirst, Leads
<1>6. AtHandlers # 1
  BY HandlerFacts
<1> QED
  BY <1>1, <1>3, <1>4, <1>5, <1>6 DEF EventInd

\* check_splitmode, called from anywhere, is its own event's keeper.
LEMMA SplitmodeKeeps ==
    ASSUME CurrentTime \in Nat, NEW e, NEW n, Sound(e, Watched, n),
           NEW checks \in BOOLEAN, checks => splitchecking,
           unwatched => splitmode /\ splitchecking, NEW net \in Network, NEW period \in SplitPeriod,
           {splitmode, splitchecking, unwatched} \subseteq BOOLEAN,
           splitchecking' = splitchecking, SplitmodeAfter(checks, net),
           NEW d, d = IF checks THEN Checked(e, net, period) ELSE e
    PROVE  /\ Sound(d, Watched', n) /\ (lag \in Nat /\ Leads(e) => Leads(d))
           /\ unwatched' => splitmode' /\ splitchecking'
           /\ {splitmode', splitchecking', unwatched'} \subseteq BOOLEAN /\ network' \in Network
<1>1. /\ unwatched' => splitmode' /\ splitchecking'
      /\ {splitmode', splitchecking', unwatched'} \subseteq BOOLEAN /\ network' \in Network
  BY DEF SplitmodeAfter, Starts, Stops
<1>2. CASE checks /\ Starts(net)
  <2>1. d = EventAdd(e, Check, period) /\ period \in Nat \ {0}
    BY <1>2, EventAssumption DEF Checked, Check
  <2>2. ~Watched /\ Watched'
    BY <1>2 DEF Watched, Starts, Stops, SplitmodeAfter
  <2>3. Sound(e, FALSE, n)
    BY <2>2 DEF Sound, Once
  <2>4. Called(e.table, Check) = {}
    BY <2>3 DEF Sound, Once
  <2>5. Sound(d, FALSE \/ Check = Check, n) /\ (lag \in Nat /\ Leads(e) => Leads(d))
    BY <2>1, <2>3, <2>4, AddKeeps
  <2>6. Sound(d, Watched', n)
    BY <2>2, <2>5 DEF Sound, Once
  <2> QED
    BY <1>1, <2>5, <2>6
<1>3. CASE checks /\ Stops(net)
  <2>1. d = EventDelete(e, Check)
    BY <1>3 DEF Checked, Check, Starts, Stops
  <2>2. ~Watched' /\ Watched \in BOOLEAN
    BY <1>3 DEF Watched, Starts, Stops, SplitmodeAfter
  <2>3. Sound(d, Watched /\ Check # Check, n) /\ (Leads(e) => Leads(d))
    BY <2>1, <2>2, DeleteKeeps
  <2>4. Sound(d, Watched', n)
    BY <2>2, <2>3 DEF Sound, Once
  <2> QED
    BY <1>1, <2>3, <2>4
<1>4. CASE ~(checks /\ (Starts(net) \/ Stops(net)))
  <2>1. d = e
    BY <1>4 DEF Checked
  <2>2. Watched' = Watched
    BY <1>4 DEF SplitmodeAfter, Watched
  <2> QED
    BY <1>1, <2>1, <2>2
<1> QED
  BY <1>2, <1>3, <1>4

LEMMA SpentType ==
    ASSUME EventTypeOK, UNCHANGED spent \/ Commanded
    PROVE  spent' \in [{"back", "set"} -> Nat]
BY DEF EventTypeOK, Commanded

LEMMA ExitsKeep ==
    ASSUME EventInd, NEW net \in Network, NEW period \in SplitPeriod,
           \/ Exits(net, period) \/ SetSplitNumbers(net, period)
    PROVE  EventInd'
<1>1. at = AtHandlers /\ InHandlers /\ EventTypeOK /\ splitchecking' = splitchecking
  BY DEF Exits, SetSplitNumbers, Commanded, InHandlers, EventInd
<1>2. PICK checks \in BOOLEAN :
         /\ checks => splitchecking
         /\ TimersAre(IF checks THEN Checked(Timers, net, period) ELSE Timers)
         /\ SplitmodeAfter(checks, net)
  <2>1. ExitChecks \in BOOLEAN /\ splitchecking \in BOOLEAN /\ (ExitChecks => splitchecking)
    BY <1>1 DEF ExitChecks, EventTypeOK
  <2> QED
    BY <2>1 DEF Exits, SetSplitNumbers
<1>3. CurrentTime \in Nat /\ lag \in Nat /\ Sound(Timers, Watched, 0) /\ Leads(Timers)
  BY <1>1, HandlerFacts
<1>4. spent' \in [{"back", "set"} -> Nat]
  BY <1>1, SpentType DEF Exits, SetSplitNumbers
<1> DEFINE d == IF checks THEN Checked(Timers, net, period) ELSE Timers
<1>5. /\ unwatched => splitmode /\ splitchecking
      /\ {splitmode, splitchecking, unwatched} \subseteq BOOLEAN
  BY <1>1 DEF EventInd, EventTypeOK
<1>6. /\ Sound(d, Watched', 0) /\ Leads(d)
      /\ unwatched' => splitmode' /\ splitchecking'
      /\ {splitmode', splitchecking', unwatched'} \subseteq BOOLEAN /\ network' \in Network
  BY <1>1, <1>2, <1>3, <1>5, SplitmodeKeeps
<1>7. TimersAre(d)
  BY <1>2
<1>8. Watched' \in BOOLEAN
  BY DEF Watched
<1> HIDE DEF d
<1> QED
  BY <1>1, <1>4, <1>6, <1>7, <1>8, HandlerKeeps

LEMMA ArrivesKeeps ==
    ASSUME EventInd, NEW net \in Network, Arrives(net)
    PROVE  EventInd'
<1>1. /\ at = AtHandlers /\ InHandlers /\ EventTypeOK /\ network' = net
      /\ UNCHANGED <<event_table, event_time_min, splitmode, splitchecking, unwatched, spent>>
  BY DEF Arrives, InHandlers, EventInd
<1>2. Sound(Timers, Watched, 0) /\ Leads(Timers) /\ TimersAre(Timers)
  BY <1>1, HandlerFacts, TimersFacts DEF TimersAre
<1>3. Watched' = Watched /\ Watched \in BOOLEAN
  BY <1>1 DEF Watched
<1>4. /\ {splitmode', splitchecking', unwatched'} \subseteq BOOLEAN /\ network' \in Network
      /\ spent' \in [{"back", "set"} -> Nat] /\ (unwatched' => splitmode' /\ splitchecking')
  BY <1>1, SpentType DEF EventInd, EventTypeOK
<1> QED
  BY <1>1, <1>2, <1>3, <1>4, HandlerKeeps

LEMMA SetSplitmodeKeeps ==
    ASSUME EventInd, NEW on \in BOOLEAN, SetSplitmode(on)
    PROVE  EventInd'
<1>1. /\ at = AtHandlers /\ InHandlers /\ EventTypeOK /\ Commanded
      /\ TimersAre(EventDelete(Timers, Check))
      /\ splitmode' = on /\ splitchecking' = FALSE /\ unwatched' = FALSE /\ network' = network
  BY DEF SetSplitmode, Commanded, InHandlers, EventInd, Check
<1>2. CurrentTime \in Nat /\ Sound(Timers, Watched, 0) /\ Leads(Timers) /\ Watched \in BOOLEAN
  BY <1>1, HandlerFacts DEF Watched
<1>3. /\ Sound(EventDelete(Timers, Check), Watched /\ Check # Check, 0)
      /\ Leads(EventDelete(Timers, Check))
  BY <1>2, DeleteKeeps
<1>4. Watched' = (Watched /\ Check # Check) /\ Watched' \in BOOLEAN
  BY <1>1 DEF Watched
<1>5. /\ {splitmode', splitchecking', unwatched'} \subseteq BOOLEAN /\ network' \in Network
      /\ spent' \in [{"back", "set"} -> Nat]
  BY <1>1, SpentType DEF EventTypeOK
<1> QED
  BY <1>1, <1>3, <1>4, <1>5, HandlerKeeps

\* AUTO, whether it starts, ends or finds a split mode.
LEMMA SetSplitmodeAutoKeeps ==
    ASSUME EventInd, NEW period \in SplitPeriod, SetSplitmodeAuto(period)
    PROVE  EventInd'
<1>1. /\ at = AtHandlers /\ InHandlers /\ EventTypeOK /\ Commanded
      /\ splitchecking' = TRUE /\ network' = network
      /\ TimersAre(Checked(Timers, network, period))
      /\ splitmode' = (splitmode # (Starts(network) \/ Stops(network)))
      /\ unwatched' = (splitmode' /\ (unwatched \/ (splitmode /\ ~splitchecking)))
  BY DEF SetSplitmodeAuto, Commanded, InHandlers, EventInd
<1>2. /\ CurrentTime \in Nat /\ lag \in Nat
      /\ Sound(Timers, Watched, 0) /\ Leads(Timers) /\ Watched \in BOOLEAN
  BY <1>1, HandlerFacts DEF Watched
<1>3. /\ {splitmode, splitchecking, unwatched} \subseteq BOOLEAN
      /\ unwatched => splitmode /\ splitchecking
  BY <1>1 DEF EventInd, EventTypeOK
<1> DEFINE d == Checked(Timers, network, period)
<1>4. Sound(d, Watched', 0) /\ Leads(d)
  <2>1. CASE Starts(network)
    <3>1. d = EventAdd(Timers, Check, period) /\ period \in Nat \ {0}
      BY <2>1, EventAssumption DEF Checked, Check
    <3>2. ~Watched /\ Watched'
      BY <1>1, <1>3, <2>1 DEF Watched, Starts, Stops
    <3>3. Sound(Timers, FALSE, 0)
      BY <1>2, <3>2 DEF Sound, Once
    <3>4. Called(Timers.table, Check) = {}
      BY <3>3 DEF Sound, Once
    <3>5. Sound(d, FALSE \/ Check = Check, 0) /\ Leads(d)
      BY <1>2, <3>1, <3>3, <3>4, AddKeeps
    <3>6. Sound(d, Watched', 0)
      BY <3>2, <3>5 DEF Sound, Once
    <3> QED
      BY <3>5, <3>6
  <2>2. CASE Stops(network)
    <3>1. d = EventDelete(Timers, Check)
      BY <2>2 DEF Checked, Check, Starts, Stops
    <3>2. ~Watched'
      BY <1>1, <1>3, <2>2 DEF Watched, Starts, Stops
    <3>3. Sound(d, Watched /\ Check # Check, 0) /\ Leads(d)
      BY <1>2, <3>1, DeleteKeeps
    <3>4. Sound(d, Watched', 0)
      BY <3>2, <3>3 DEF Sound, Once
    <3> QED
      BY <3>3, <3>4
  <2>3. CASE ~Starts(network) /\ ~Stops(network)
    <3>1. d = Timers
      BY <2>3 DEF Checked
    <3>2. Watched' = Watched
      BY <1>1, <1>3, <2>3 DEF Watched
    <3> QED
      BY <1>2, <3>1, <3>2
  <2> QED
    BY <2>1, <2>2, <2>3
<1>5. /\ {splitmode', splitchecking', unwatched'} \subseteq BOOLEAN /\ network' \in Network
      /\ spent' \in [{"back", "set"} -> Nat] /\ (unwatched' => splitmode' /\ splitchecking')
      /\ Watched' \in BOOLEAN
  BY <1>1, SpentType DEF EventTypeOK, Watched
<1>6. TimersAre(d)
  BY <1>1
<1> HIDE DEF d
<1> QED
  BY <1>1, <1>4, <1>5, <1>6, HandlerKeeps

LEMMA RestartResolverKeeps ==
    ASSUME EventInd, NEW opens \in BOOLEAN, RestartResolver(opens)
    PROVE  EventInd'
<1> DEFINE e == EventDelete(Timers, Resolver)
           d == IF opens THEN EventAdd(e, Resolver, Period[Resolver]) ELSE e
<1>1. /\ at = AtHandlers /\ InHandlers /\ EventTypeOK /\ Commanded
      /\ TimersAre(d) /\ UNCHANGED splitVars
  BY DEF RestartResolver, Commanded, InHandlers, EventInd, Resolver
<1>2. /\ CurrentTime \in Nat /\ lag \in Nat
      /\ Sound(Timers, Watched, 0) /\ Leads(Timers) /\ Watched \in BOOLEAN
  BY <1>1, HandlerFacts DEF Watched
<1>3. Sound(e, Watched /\ Resolver # Check, 0) /\ Leads(e) /\ Called(e.table, Resolver) = {}
  <2>1. e = EventDelete(Timers, Resolver) /\ Resolver \in {Check, Resolver}
    OBVIOUS
  <2> HIDE DEF e
  <2>2. PICK w \in BOOLEAN : w = Watched
    BY <1>2
  <2>3. Sound(Timers, w, 0)
    BY <1>2, <2>2
  <2>4. Sound(e, w /\ Resolver # Check, 0) /\ (Leads(Timers) => Leads(e))
        /\ Called(e.table, Resolver) = {}
    BY <1>2, <2>1, <2>3, DeleteKeeps, EventNames
  <2> QED
    BY <1>2, <2>2, <2>4
<1>4. Sound(e, Watched, 0)
  <2>1. (Watched /\ Resolver # Check) = Watched
    BY <1>2, EventNames
  <2> QED
    BY <1>3, <2>1
<1> HIDE DEF e
<1>5. Sound(d, Watched, 0) /\ Leads(d)
  <2>1. CASE opens
    <3>1. PICK p \in Nat \ {0} : p = Period[Resolver]
      BY EventAssumption DEF Resolver
    <3>2. Sound(d, Watched \/ Resolver = Check, 0) /\ Leads(d)
      BY <1>2, <1>3, <1>4, <2>1, <3>1, AddKeeps
    <3>3. (Watched \/ Resolver = Check) = Watched
      BY <1>2, EventNames
    <3> QED
      BY <3>2, <3>3
  <2>2. CASE ~opens
    BY <1>3, <1>4, <2>2
  <2> QED
    BY <2>1, <2>2
<1>6. Watched' = Watched
  BY <1>1 DEF Watched, splitVars
<1>7. /\ {splitmode', splitchecking', unwatched'} \subseteq BOOLEAN /\ network' \in Network
      /\ spent' \in [{"back", "set"} -> Nat] /\ (unwatched' => splitmode' /\ splitchecking')
  BY <1>1, SpentType DEF EventInd, EventTypeOK, splitVars
<1> HIDE DEF d
<1> QED
  BY <1>1, <1>2, <1>5, <1>6, <1>7, HandlerKeeps

-----------------------------------------------------------------------------
(* io_loop's events.                                                       *)

\* What eventNextTime returns is no later than an event, and not before the
\* first one.
LEMMA NextTime ==
    ASSUME EventInd, at = AtEvents
    PROVE  /\ EventNextTime \in Nat
           /\ \A i \in Active(event_table) :
                /\ EventNextTime <= event_table[i].when + lag
                /\ event_time_min = -1 => EventNextTime <= event_table[i].when
           /\ \A c \in Called(event_table, Comm) : event_table[c].when <= EventNextTime
<1>1. /\ EventTypeOK /\ CacheOnTime /\ CommFirst /\ at \notin Slot
      /\ event_table \in [Slot -> EventEntry] /\ event_time_min \in Nat \cup {-1} /\ lag \in Nat
      /\ \E c \in Slot : Called(event_table, Comm) = {c}
  <2>1. at \notin Slot
    BY DEF AtEvents, Slot
  <2>2. \E c \in Slot : Called(event_table, Comm) = {c}
    BY TimersFacts DEF EventInd, Sound, Once
  <2> QED
    BY <2>1, <2>2, TimersFacts DEF EventInd
<1>2. Active(event_table) # {} /\ Active(event_table) \subseteq Slot
      /\ Called(event_table, Comm) \subseteq Active(event_table)
  BY <1>1 DEF Called, Active
<1>3. CASE event_time_min # -1
  BY <1>1, <1>2, <1>3 DEF EventNextTime, CacheOnTime
<1>4. CASE event_time_min = -1
  <2> DEFINE T == {event_table[i].when : i \in Active(event_table)}
  <2>1. T # {} /\ T \subseteq Nat
    BY <1>1, <1>2 DEF EventEntry
  <2>2. EventNextTime = Lowest(T)
    BY <1>2, <1>4 DEF EventNextTime
  <2> HIDE DEF T
  <2>3. Lowest(T) \in T /\ \A y \in T : Lowest(T) <= y
    BY <2>1, LowestIs
  <2>4. \A i \in Active(event_table) : EventNextTime <= event_table[i].when
    BY <2>2, <2>3 DEF T
  <2>5. PICK j \in Active(event_table) : EventNextTime = event_table[j].when
    BY <2>2, <2>3 DEF T
  <2>6. \A i \in Active(event_table) : event_table[i].when \in Nat
    BY <1>1, <1>2 DEF EventEntry
  <2> QED
    BY <1>1, <1>4, <2>4, <2>5, <2>6 DEF CommFirst
<1> QED
  BY <1>1, <1>3, <1>4

LEMMA EventRunKeeps ==
    ASSUME EventInd, EventRun
    PROVE  EventInd'
<1>1. /\ at = AtEvents /\ EventTypeOK /\ EventNextTime <= CurrentTime
      /\ event_time_min' = EventNextTime /\ at' = 1
      /\ lag' = IF event_time_min = -1 THEN 0 ELSE lag
      /\ UNCHANGED <<event_table, CurrentTime, spent, splitmode, splitchecking, network, unwatched>>
  BY DEF EventRun, Asks, splitVars, EventInd
<1>2. /\ EventNextTime \in Nat
      /\ \A i \in Active(event_table) :
           /\ EventNextTime <= event_table[i].when + lag
           /\ event_time_min = -1 => EventNextTime <= event_table[i].when
      /\ \A c \in Called(event_table, Comm) : event_table[c].when <= EventNextTime
  BY <1>1, NextTime
<1>3. /\ event_table \in [Slot -> EventEntry] /\ CurrentTime \in Nat /\ lag \in Nat
      /\ Timers.table = event_table /\ 1 \in Slot /\ AtHandlers # 1 /\ Slot \subseteq Nat \ {0}
  BY <1>1, TimersFacts, EventAssumption DEF Slot, AtHandlers
<1>4. EventTypeOK'
  BY <1>1, <1>2, <1>3 DEF EventTypeOK
<1>5. Sound(Timers, Watched, Passed)'
  <2>1. Timers' \in TimerSet /\ Timers'.table = event_table
    BY <1>1, <1>2, <1>3 DEF Timers, TimerSet
  <2>2. Watched' = Watched /\ Passed' = 1
    BY <1>1, <1>3 DEF Watched, Passed
  <2>3. /\ Once(event_table, Watched)
        /\ \A i \in Active(event_table) :
             /\ event_table[i].frequency > 0
             /\ event_table[i].when <= CurrentTime + event_table[i].frequency
        /\ \A c \in Called(event_table, Comm) : event_table[c].frequency = 1
    BY <1>3 DEF EventInd, Sound
  <2>4. \A i \in Active(event_table) : ~(i < 1)
    BY <1>3 DEF Active
  <2> QED
    BY <1>1, <2>1, <2>2, <2>3, <2>4 DEF Sound
<1>6. CacheOnTime'
  <2>1. \A i \in Active(event_table) : event_table[i].when \in Nat
    BY <1>3 DEF Active, EventEntry
  <2>2. \A i \in Active(event_table) : EventNextTime <= event_table[i].when + lag'
    BY <1>1, <1>2, <2>1
  <2> QED
    BY <1>1, <1>2, <2>2 DEF CacheOnTime
<1>7. CommFirst'
  BY <1>1, <1>3 DEF CommFirst
<1>8. \A c \in Called(event_table, Comm) : event_table[c].when <= CurrentTime
  <2>1. \A c \in Called(event_table, Comm) : event_table[c].when \in Nat
    BY <1>3 DEF Active, Called, EventEntry
  <2> QED
    BY <1>1, <1>2, <1>3, <2>1
<1> QED
  BY <1>1, <1>3, <1>4, <1>5, <1>6, <1>7, <1>8 DEF EventInd

\* The events keep their order when the clock is set back.
LEMMA CommSelectKeeps ==
    ASSUME EventInd, NEW now \in Nat, CommSelect(now)
    PROVE  EventInd'
<1> DEFINE by == CurrentTime - now
           Before == IF event_time_min = -1 THEN 0 ELSE lag
<1>1. /\ at = AtEvents /\ EventTypeOK
      /\ event_time_min' = EventNextTime /\ at' = AtHandlers /\ CurrentTime' = now
      /\ UNCHANGED <<splitmode, splitchecking, network, unwatched>>
  BY DEF CommSelect, splitVars, EventInd
<1>2. /\ EventNextTime \in Nat
      /\ \A i \in Active(event_table) :
           /\ EventNextTime <= event_table[i].when + lag
           /\ event_time_min = -1 => EventNextTime <= event_table[i].when
      /\ \A c \in Called(event_table, Comm) : event_table[c].when <= EventNextTime
  BY <1>1, NextTime
<1>3. /\ event_table \in [Slot -> EventEntry] /\ CurrentTime \in Nat /\ lag \in Nat
      /\ Timers.table = event_table /\ AtHandlers # 1 /\ Slot \subseteq Nat \ {0}
      /\ AtHandlers \notin Slot /\ AtEvents \notin Slot
  BY <1>1, TimersFacts, EventAssumption DEF Slot, AtHandlers, AtEvents
<1>4. /\ Once(event_table, Watched)
      /\ \A i \in Active(event_table) :
           /\ event_table[i].frequency > 0
           /\ event_table[i].when <= CurrentTime + event_table[i].frequency
      /\ \A c \in Called(event_table, Comm) : event_table[c].frequency = 1
  BY <1>3 DEF EventInd, Sound
<1>5. /\ \A i \in Active(event_table) : event_table[i].when \in Nat /\ event_table[i].frequency \in Nat
      /\ Called(event_table, Comm) \subseteq Active(event_table) /\ Active(event_table) \subseteq Slot
  BY <1>3 DEF Active, Called, EventEntry
<1>6. \A c \in Called(event_table, Comm), i \in Active(event_table) :
        event_table[c].when <= event_table[i].when
  BY <1>1, <1>3 DEF EventInd, CommFirst
<1>7. Before \in Nat /\ \A i \in Active(event_table) : EventNextTime <= event_table[i].when + Before
  BY <1>2, <1>3, <1>5
<1>8. /\ event_table' \in [Slot -> EventEntry] /\ lag' \in Nat
      /\ spent' \in [{"back", "set"} -> Nat]
      /\ \A i \in Slot : /\ event_table'[i].active = event_table[i].active
                         /\ event_table'[i].name = event_table[i].name
                         /\ event_table'[i].frequency = event_table[i].frequency
      /\ \A i \in Active(event_table) :
           /\ event_table'[i].when <= now + event_table[i].frequency
           /\ event_table'[i].when <= event_table[i].when
           /\ EventNextTime <= event_table'[i].when + lag'
      /\ \A c \in Called(event_table, Comm), i \in Active(event_table) :
           event_table'[c].when <= event_table'[i].when
  <2>1. CASE now >= CurrentTime
    <3>1. lag' = Before /\ UNCHANGED <<event_table, spent>>
      BY <2>1 DEF CommSelect
    <3> HIDE DEF Before
    <3>2. \A i \in Active(event_table) : event_table[i].when <= now + event_table[i].frequency
      BY <1>3, <1>4, <1>5, <2>1
    <3>3. spent' \in [{"back", "set"} -> Nat]
      BY <1>1, <3>1 DEF EventTypeOK
    <3>4. \A i \in Active(event_table) : event_table[i].when <= event_table[i].when
      BY <1>5
    <3> QED
      BY <1>3, <1>6, <1>7, <3>1, <3>2, <3>3, <3>4
  <2>2. CASE ~(now >= CurrentTime)
    <3>1. /\ event_table' = SetBackEvents(by) /\ lag' = by + Before
          /\ spent' = [spent EXCEPT !.back = @ + 1]
      BY <2>2 DEF CommSelect
    <3>2. by \in Nat /\ by > 0 /\ CurrentTime = now + by
      BY <1>3, <2>2
    <3> HIDE DEF by, Before
    <3>3. \A i \in Slot :
            /\ event_table'[i].when =
                 IF event_table[i].when > by THEN event_table[i].when - by ELSE 0
            /\ event_table'[i].active = event_table[i].active
            /\ event_table'[i].name = event_table[i].name
            /\ event_table'[i].frequency = event_table[i].frequency
            /\ event_table'[i] \in EventEntry
      BY <1>3, <3>1, <3>2 DEF SetBackEvents, EventEntry
    <3>4. event_table' \in [Slot -> EventEntry]
      BY <3>1, <3>3 DEF SetBackEvents
    <3>5. spent' \in [{"back", "set"} -> Nat]
      BY <1>1, <3>1 DEF EventTypeOK
    <3>6. lag' \in Nat
      BY <1>7, <3>1, <3>2
    <3>7. \A i \in Active(event_table) :
           /\ event_table'[i].when <= now + event_table[i].frequency
           /\ event_table'[i].when <= event_table[i].when
           /\ EventNextTime <= event_table'[i].when + lag'
      <4> SUFFICES ASSUME NEW i \in Active(event_table)
                   PROVE  /\ event_table'[i].when <= now + event_table[i].frequency
                          /\ event_table'[i].when <= event_table[i].when
                          /\ EventNextTime <= event_table'[i].when + lag'
        OBVIOUS
      <4>1. /\ event_table'[i].when =
                 IF event_table[i].when > by THEN event_table[i].when - by ELSE 0
            /\ event_table[i].when \in Nat /\ event_table[i].frequency \in Nat
            /\ event_table[i].when <= CurrentTime + event_table[i].frequency
            /\ EventNextTime <= event_table[i].when + Before
        BY <1>4, <1>5, <1>7, <3>3
      <4> QED
        BY <1>2, <1>7, <3>1, <3>2, <4>1
    <3>8. \A c \in Called(event_table, Comm), i \in Active(event_table) :
            event_table'[c].when <= event_table'[i].when
      <4> SUFFICES ASSUME NEW c \in Called(event_table, Comm), NEW i \in Active(event_table)
                   PROVE  event_table'[c].when <= event_table'[i].when
        OBVIOUS
      <4>1. /\ event_table'[i].when =
                 IF event_table[i].when > by THEN event_table[i].when - by ELSE 0
            /\ event_table'[c].when =
                 IF event_table[c].when > by THEN event_table[c].when - by ELSE 0
            /\ event_table[i].when \in Nat /\ event_table[c].when \in Nat
            /\ event_table[c].when <= event_table[i].when
        BY <1>5, <1>6, <3>3
      <4> QED
        BY <3>2, <4>1
    <3> QED
      BY <3>3, <3>4, <3>5, <3>6, <3>7, <3>8
  <2> QED
    BY <2>1, <2>2
<1> HIDE DEF by, Before
<1>9. /\ Active(event_table') = Active(event_table)
      /\ \A name : Called(event_table', name) = Called(event_table, name)
  <2>1. Active(event_table') = Active(event_table)
    BY <1>8 DEF Active
  <2> QED
    BY <1>8, <2>1 DEF Called, Active
<1>10. EventTypeOK'
  BY <1>1, <1>2, <1>8 DEF EventTypeOK, EventEntry
<1>11. Sound(Timers, Watched, Passed)'
  <2>1. Timers' \in TimerSet /\ Timers'.table = event_table'
    BY <1>1, <1>2, <1>8 DEF Timers, TimerSet
  <2>2. Watched' = Watched /\ Passed' = 0
    BY <1>1, <1>3 DEF Watched, Passed
  <2>3. Once(event_table', Watched)
    BY <1>4, <1>9 DEF Once
  <2>4. \A i \in Active(event_table') :
             /\ event_table'[i].frequency > 0
             /\ event_table'[i].when <= now + event_table'[i].frequency
             /\ ~(i < 0)
    <3> SUFFICES ASSUME NEW i \in Active(event_table)
                 PROVE  /\ event_table'[i].frequency > 0
                        /\ event_table'[i].when <= now + event_table'[i].frequency
                        /\ ~(i < 0)
      BY <1>9
    <3>1. i \in Slot /\ event_table'[i].frequency = event_table[i].frequency
      BY <1>5, <1>8
    <3>2. event_table'[i].when <= now + event_table[i].frequency /\ event_table[i].frequency > 0
      BY <1>4, <1>8
    <3>3. ~(i < 0)
      BY <3>1 DEF Slot
    <3> QED
      BY <3>1, <3>2, <3>3, Zenon
  <2>5. \A c \in Called(event_table', Comm) : event_table'[c].frequency = 1
    BY <1>4, <1>5, <1>8, <1>9
  <2> QED
    BY <1>1, <2>1, <2>2, <2>3, <2>4, <2>5 DEF Sound
<1>12. CacheOnTime'
  <2>1. \A i \in Active(event_table') : EventNextTime <= event_table'[i].when + lag'
    BY <1>8, <1>9
  <2>2. \A c \in Called(event_table', Comm) : event_table'[c].when <= EventNextTime
    <3>1. \A c \in Called(event_table, Comm) :
            /\ event_table'[c].when \in Nat /\ event_table[c].when \in Nat
            /\ event_table'[c].when <= event_table[c].when /\ event_table[c].when <= EventNextTime
      BY <1>2, <1>5, <1>8 DEF EventEntry
    <3> QED
      BY <1>2, <1>9, <3>1
  <2> QED
    BY <1>1, <2>1, <2>2 DEF CacheOnTime
<1>13. CommFirst'
  BY <1>8, <1>9 DEF CommFirst
<1>14. unwatched' => splitmode' /\ splitchecking'
  BY <1>1 DEF EventInd
<1> QED
  BY <1>1, <1>2, <1>3, <1>10, <1>11, <1>12, <1>13, <1>14 DEF EventInd

\* eventRun walks on: at the end of the table all that was due has run, and
\* comm_checktimeouts comes again in a second.
LEMMA WalkedFirst ==
    ASSUME CurrentTime \in Nat, NEW e, NEW w, Sound(e, w, MAX_EVENTS + 1)
    PROVE  \A c \in Called(e.table, Comm), i \in Active(e.table) :
             e.table[c].when <= e.table[i].when
<1> SUFFICES ASSUME NEW c \in Called(e.table, Comm), NEW i \in Active(e.table)
             PROVE  e.table[c].when <= e.table[i].when
  OBVIOUS
<1>1. /\ c \in Active(e.table) /\ c \in Slot /\ i \in Slot
      /\ e.table[c].when \in Nat /\ e.table[i].when \in Nat
  BY DEF Called, Active, Sound, TimerSet, EventEntry
<1>2. i < MAX_EVENTS + 1
  BY <1>1, EventAssumption DEF Slot
<1>3. e.table[i].when > CurrentTime /\ e.table[c].when <= CurrentTime + 1
  BY <1>1, <1>2 DEF Sound
<1> QED
  BY <1>1, <1>3

\* A step of the walk, from slot n on.
LEMMA WalkKeeps ==
    ASSUME EventInd, at \in Slot, NextSlot, UNCHANGED <<CurrentTime, lag>>,
           NEW e, event_table' = e.table, event_time_min' = e.min,
           NEW w \in BOOLEAN, Sound(e, w, at + 1), w = Watched',
           CacheOnTime',
           unwatched' => splitmode' /\ splitchecking',
           {splitmode', splitchecking', unwatched'} \subseteq BOOLEAN, network' \in Network,
           spent' \in [{"back", "set"} -> Nat]
    PROVE  EventInd'
<1>1. /\ at \in Nat /\ 1 <= at /\ at <= MAX_EVENTS /\ MAX_EVENTS \in Nat
      /\ CurrentTime \in Nat /\ EventTypeOK /\ lag \in Nat
  <2>1. EventTypeOK
    BY DEF EventInd
  <2>2. CurrentTime \in Nat /\ lag \in Nat
    BY <2>1 DEF EventTypeOK
  <2>3. MAX_EVENTS \in Nat
    BY EventAssumption
  <2>4. at \in Nat /\ 1 <= at /\ at <= MAX_EVENTS
    BY <2>3 DEF Slot
  <2> QED
    BY <2>1, <2>2, <2>3, <2>4
<1>2. /\ at = MAX_EVENTS => at' = 0
      /\ at # MAX_EVENTS => at' = at + 1 /\ at' \in Slot
      /\ at' # AtHandlers /\ at' # 1
  BY <1>1 DEF NextSlot, AtEvents, AtHandlers, Slot
<1>3. Timers' = e /\ e \in TimerSet
  <2>1. e = [table |-> e.table, min |-> e.min] /\ e \in TimerSet
    BY DEF Sound, TimerSet
  <2> QED
    BY <2>1 DEF Timers
<1>4. EventTypeOK'
  <2>1. event_table' \in [Slot -> EventEntry] /\ event_time_min' \in Nat \cup {-1}
    BY <1>3 DEF TimerSet
  <2>2. at' \in Slot \cup {AtEvents, AtHandlers}
    BY <1>1, <1>2 DEF AtEvents
  <2> QED
    BY <1>1, <2>1, <2>2 DEF EventTypeOK, EventEntry
<1>5. Sound(e, w, Passed')
  <2>1. \A i \in Active(e.table) : i < Passed' => i < at + 1
    <3>1. Active(e.table) \subseteq Slot /\ Slot \subseteq Nat \ {0}
      BY <1>1 DEF Active, Slot
    <3>2. Passed' = 0 \/ Passed' = at + 1
      BY <1>2 DEF Passed
    <3>3. ASSUME NEW i \in Active(e.table), i < Passed'
          PROVE  i < at + 1
      <4>1. i \in Nat /\ i # 0
        BY <3>1
      <4>2. CASE Passed' = 0
        BY <3>3, <4>1, <4>2
      <4>3. CASE Passed' = at + 1
        BY <3>3, <4>3
      <4> QED
        BY <3>2, <4>2, <4>3
    <3> QED
      BY <3>3
  <2> QED
    BY <2>1 DEF Sound
<1>6. Sound(Timers, Watched, Passed)'
  BY <1>3, <1>5 DEF Sound
<1>7. CommFirst'
  <2> SUFFICES ASSUME at' \notin Slot
               PROVE  \A c \in Called(e.table, Comm), i \in Active(e.table) :
                        e.table[c].when <= e.table[i].when
    BY DEF CommFirst
  <2>1. at = MAX_EVENTS
    BY <1>2
  <2>2. Sound(e, w, MAX_EVENTS + 1)
    BY <2>1
  <2> QED
    BY <1>1, <2>2, WalkedFirst
<1> QED
  BY <1>2, <1>4, <1>6, <1>7 DEF EventInd

LEMMA SkipKeeps ==
    ASSUME EventInd, Skip
    PROVE  EventInd'
<1>1. /\ at \in Slot /\ NextSlot /\ EventTypeOK
      /\ ~event_table[at].active \/ event_table[at].when > CurrentTime
      /\ UNCHANGED <<event_table, event_time_min, CurrentTime, lag, spent,
                     splitmode, splitchecking, network, unwatched>>
  BY DEF Skip, EventInd, splitVars
<1>2. Timers \in TimerSet /\ Timers.table = event_table /\ Timers.min = event_time_min
  BY <1>1, TimersFacts
<1>3. Passed = at /\ Slot \subseteq Nat
  BY <1>1, EventAssumption DEF Passed, Slot, AtHandlers
<1>4. Sound(Timers, Watched, at)
  BY <1>3 DEF EventInd
<1>5. Sound(Timers, Watched, at + 1)
  <2>1. \A i \in Active(event_table) : i < at + 1 => i < at \/ i = at
    BY <1>1, <1>3 DEF Active
  <2>2. at \in Active(event_table) => event_table[at].when > CurrentTime
    BY <1>1 DEF Active
  <2> QED
    BY <1>2, <1>4, <2>1, <2>2 DEF Sound
<1>6. Watched \in BOOLEAN /\ Watched' = Watched
  BY <1>1 DEF Watched
<1>7. CacheOnTime'
  BY <1>1 DEF CacheOnTime, EventInd
<1>8. /\ {splitmode', splitchecking', unwatched'} \subseteq BOOLEAN /\ network' \in Network
      /\ spent' \in [{"back", "set"} -> Nat] /\ (unwatched' => splitmode' /\ splitchecking')
  BY <1>1 DEF EventInd, EventTypeOK
<1> QED
  BY <1>1, <1>2, <1>5, <1>6, <1>7, <1>8, WalkKeeps

\* The event that runs may delete itself or add another, before its next time is
\* set by its slot.
LEMMA RunSlotKeeps ==
    ASSUME EventInd, NEW net \in Network, NEW period \in SplitPeriod, RunSlot(net, period)
    PROVE  EventInd'
<1>1. PICK checks \in BOOLEAN :
        /\ checks => splitchecking
        /\ LET d == IF checks THEN Checked(Timers, net, period) ELSE Timers
           IN  event_table' = [d.table EXCEPT ![at].when = CurrentTime + d.table[at].frequency]
        /\ SplitmodeAfter(checks, net)
  <2> DEFINE self == event_table[at].name = "check_splitmode"
             ch == IF self THEN splitchecking ELSE ExitChecks
  <2>1. ch \in BOOLEAN /\ (ch => splitchecking)
    BY DEF ExitChecks, EventInd, EventTypeOK
  <2>2. /\ LET d == IF ch THEN Checked(Timers, net, period) ELSE Timers
           IN  event_table' = [d.table EXCEPT ![at].when = CurrentTime + d.table[at].frequency]
        /\ SplitmodeAfter(ch, net)
    BY DEF RunSlot
  <2> HIDE DEF ch
  <2> QED
    BY <2>1, <2>2
<1>2. /\ at \in Slot /\ NextSlot /\ EventTypeOK /\ event_time_min' = -1
      /\ UNCHANGED <<CurrentTime, lag, splitchecking, spent>>
  BY DEF RunSlot, EventInd
<1> DEFINE d == IF checks THEN Checked(Timers, net, period) ELSE Timers
           t == [d.table EXCEPT ![at].when = CurrentTime + d.table[at].frequency]
           e == [table |-> t, min |-> -1]
<1>3. event_table' = t
  BY <1>1
<1>4. Passed = at /\ Slot \subseteq Nat /\ CurrentTime \in Nat
  BY <1>2, EventAssumption, TimersFacts DEF Passed, Slot, AtHandlers
<1>5. Sound(Timers, Watched, at)
  BY <1>4 DEF EventInd
<1>6. /\ unwatched => splitmode /\ splitchecking
      /\ {splitmode, splitchecking, unwatched} \subseteq BOOLEAN
  BY <1>2 DEF EventInd, EventTypeOK
<1>7. /\ Sound(d, Watched', at)
      /\ unwatched' => splitmode' /\ splitchecking'
      /\ {splitmode', splitchecking', unwatched'} \subseteq BOOLEAN /\ network' \in Network
  BY <1>1, <1>2, <1>4, <1>5, <1>6, SplitmodeKeeps
<1> HIDE DEF d
<1>8. d.table \in [Slot -> EventEntry]
  BY <1>7 DEF Sound, TimerSet
<1>9. /\ \A i \in Slot : /\ t[i].active = d.table[i].active /\ t[i].name = d.table[i].name
                         /\ t[i].frequency = d.table[i].frequency
                         /\ i # at => t[i].when = d.table[i].when
      /\ t[at].when = CurrentTime + d.table[at].frequency
      /\ d.table[at].frequency \in Nat /\ t \in [Slot -> EventEntry]
  <2>1. d.table[at].frequency \in Nat /\ d.table[at] \in EventEntry
    BY <1>2, <1>8 DEF EventEntry
  <2>2. /\ t[at] = [d.table[at] EXCEPT !.when = CurrentTime + d.table[at].frequency]
        /\ \A i \in Slot : i # at => t[i] = d.table[i]
    BY <1>2, <1>8
  <2>3. t[at] \in EventEntry /\ t[at].when = CurrentTime + d.table[at].frequency
        /\ t[at].active = d.table[at].active /\ t[at].name = d.table[at].name
        /\ t[at].frequency = d.table[at].frequency
    BY <1>4, <2>1, <2>2 DEF EventEntry
  <2>4. t \in [Slot -> EventEntry]
    BY <1>2, <1>8, <2>2, <2>3
  <2> HIDE DEF t
  <2> QED
    BY <2>1, <2>2, <2>3, <2>4
<1> HIDE DEF t
<1>10. /\ Active(t) = Active(d.table) /\ Active(t) \subseteq Slot
       /\ \A name : Called(t, name) = Called(d.table, name)
       /\ Called(t, Comm) \subseteq Active(t)
  <2>1. Active(t) = Active(d.table) /\ Active(t) \subseteq Slot
    BY <1>9 DEF Active
  <2> QED
    BY <1>9, <2>1 DEF Called
<1>11. e \in TimerSet /\ e.table = t /\ e.min = -1
  BY <1>9 DEF TimerSet
<1>12. Sound(e, Watched', at + 1)
  <2>1. Once(t, Watched')
    BY <1>7, <1>10 DEF Sound, Once
  <2>2. \A i \in Active(t) :
             /\ t[i].frequency > 0
             /\ t[i].when <= CurrentTime + t[i].frequency
             /\ i < at + 1 => t[i].when > CurrentTime
    <3> SUFFICES ASSUME NEW i \in Active(t)
                 PROVE  /\ t[i].frequency > 0
                        /\ t[i].when <= CurrentTime + t[i].frequency
                        /\ i < at + 1 => t[i].when > CurrentTime
      OBVIOUS
    <3>1. /\ d.table[i].frequency > 0
          /\ d.table[i].when <= CurrentTime + d.table[i].frequency
          /\ i < at => d.table[i].when > CurrentTime
          /\ d.table[i].frequency \in Nat
      BY <1>7, <1>8, <1>10 DEF Sound, EventEntry
    <3>2. i \in Nat /\ at \in Nat /\ i \in Slot
      BY <1>2, <1>4, <1>10
    <3>3. CASE i = at
      <4>1. t[i].frequency = d.table[i].frequency /\ t[i].when = CurrentTime + d.table[i].frequency
        BY <1>9, <3>2, <3>3
      <4> QED
        BY <1>4, <3>1, <4>1
    <3>4. CASE i # at
      BY <1>9, <3>1, <3>2, <3>4
    <3> QED
      BY <3>3, <3>4
  <2>3. \A c \in Called(t, Comm) : t[c].frequency = 1
    BY <1>7, <1>9, <1>10 DEF Sound
  <2> HIDE DEF e
  <2> QED
    BY <1>11, <2>1, <2>2, <2>3 DEF Sound
<1>13. Watched' \in BOOLEAN
  BY DEF Watched
<1>14. CacheOnTime'
  BY <1>2 DEF CacheOnTime
<1>15. spent' \in [{"back", "set"} -> Nat]
  BY <1>2 DEF EventTypeOK
<1> HIDE DEF e
<1> QED
  BY <1>2, <1>3, <1>7, <1>11, <1>12, <1>13, <1>14, <1>15, WalkKeeps

LEMMA EndTurnKeeps ==
    ASSUME EventInd, EndTurn
    PROVE  EventInd'
<1>1. /\ at = AtHandlers /\ at' = AtEvents /\ EventTypeOK
      /\ UNCHANGED <<event_table, event_time_min, CurrentTime, lag, spent,
                     splitmode, splitchecking, network, unwatched>>
  BY DEF EndTurn, EventInd, splitVars
<1>2. AtHandlers \notin Slot /\ AtHandlers # AtEvents /\ AtEvents # 1
  BY EventAssumption DEF AtHandlers, AtEvents, Slot
<1>3. Passed = 0 /\ Passed' = 0 /\ Watched' = Watched /\ Timers' = Timers
  BY <1>1, <1>2 DEF Passed, AtEvents, Watched, Timers
<1>4. Sound(Timers, Watched, Passed)'
  BY <1>1, <1>3 DEF EventInd, Sound
<1>5. EventTypeOK' /\ CacheOnTime' /\ CommFirst'
  BY <1>1, <1>2 DEF EventInd, EventTypeOK, CacheOnTime, CommFirst
<1>6. unwatched' => splitmode' /\ splitchecking'
  BY <1>1 DEF EventInd
<1> QED
  BY <1>1, <1>2, <1>4, <1>5, <1>6 DEF EventInd

\* The table, the cached time and split mode keep to one another: comm_checktimeouts
\* runs every second, is not overtaken when the clock goes back, and so is due when
\* the cached time is reached, although eventDelete leaves that as it was.
THEOREM EventIndHolds == EventSpec => []EventInd
<1>1. EventInd /\ [EventNext]_eventVars => EventInd'
  <2> SUFFICES ASSUME EventInd, [EventNext]_eventVars
               PROVE  EventInd'
    OBVIOUS
  <2>1. CASE UNCHANGED eventVars
    <3>1. Sound(Timers, Watched, Passed)'
      BY <2>1 DEF EventInd, Sound, Timers, Watched, Passed, eventVars, splitVars
    <3>2. EventTypeOK' /\ CacheOnTime' /\ CommFirst'
      BY <2>1 DEF EventInd, EventTypeOK, CacheOnTime, CommFirst, eventVars, splitVars
    <3> QED
      BY <2>1, <3>1, <3>2 DEF EventInd, eventVars, splitVars
  <2>2. CASE EventRun \/ Skip \/ EndTurn
    BY <2>2, EventRunKeeps, SkipKeeps, EndTurnKeeps
  <2>3. ASSUME NEW now \in 0..MaxClock, CommSelect(now)
        PROVE  EventInd'
    <3>1. now \in Nat
      BY EventAssumption
    <3> QED
      BY <2>3, <3>1, CommSelectKeeps
  <2>4. ASSUME NEW net \in Lower(network), NEW period \in SplitPeriod,
               RunSlot(net, period) \/ Exits(net, period)
        PROVE  EventInd'
    <3>1. net \in Network
      BY DEF Lower, Network
    <3> QED
      BY <2>4, <3>1, RunSlotKeeps, ExitsKeep
  <2>5. ASSUME NEW on \in BOOLEAN, SetSplitmode(on) \/ RestartResolver(on)
        PROVE  EventInd'
    BY <2>5, SetSplitmodeKeeps, RestartResolverKeeps
  <2>6. ASSUME NEW net \in Network, NEW period \in SplitPeriod, SetSplitNumbers(net, period)
        PROVE  EventInd'
    BY <2>6, ExitsKeep
  <2> QED
    BY <2>1, <2>2, <2>3, <2>4, <2>5, <2>6, ArrivesKeeps, SetSplitmodeAutoKeeps DEF EventNext
<1> QED
  BY <1>1, EventIndInit, PTL DEF EventSpec

\* The variables have their types.
THEOREM EventsTyped == EventSpec => []EventTypeOK
<1>1. EventInd => EventTypeOK
  BY DEF EventInd
<1> QED
  BY <1>1, EventIndHolds, PTL

\* However the clock moves and the table changes, no event is further off than its
\* period, and when the time io_loop waits for is there, an event is due.
THEOREM EventsStayOnTime == EventSpec => []EventsOnTime
  BY EventIndHolds, OnTime, PTL

\* In whatever order exits, SETs and check_splitmode itself add and delete its
\* event: a split mode that is to end by itself has it, once.
THEOREM SplitmodeStaysWatched == EventSpec => []SplitmodeWatched
  BY EventIndHolds, IsWatched, PTL

-----------------------------------------------------------------------------
(* One connection: what its handlers keep.                                  *)

LEMMA StreamConstants ==
    /\ MaxFlood \in Nat /\ MaxFlood > 0 /\ BurstFactor \in Nat
    /\ ClientFlood \in Nat /\ MaxSendq \in Nat /\ WriteAt \in Nat /\ MaxRoom \in Nat
    /\ MaxTicks \in Nat /\ NoOperFlood \in BOOLEAN
BY StreamAssumption

LEMMA EmptyQueues == <<>> \in Seq(LineKind) /\ 0 \in 0..MaxSendq /\ MaxRoom \in 0..MaxRoom
BY StreamConstants

\* The sockets it waits for are those it needs (NeverDeaf).
Waits(c) ==
    /\ c.wantRead \/ (c.pendingRead /\ c.wantWrite)
    /\ c.blocked => c.wantWrite
    /\ c.flush

\* After the grace period what was parsed is within the flood limit.
Limit(status) == IF status = "oper" /\ NoOperFlood THEN 4 * MaxFlood ELSE MaxFlood

Governed(c) ==
    c.floodDone =>
      IsClient(c) /\ c.allowRead = MaxFlood /\ c.sentParsed <= Limit(c.status)

\* d is c, or what writes have made of it.
Wrote(c, d) ==
    /\ d.status = c.status /\ d.recvq = c.recvq /\ d.net = c.net
    /\ d.wantRead = c.wantRead /\ d.pendingRead = c.pendingRead /\ d.flush = c.flush
    /\ d.floodDone = c.floodDone /\ d.allowRead = c.allowRead
    /\ d.sentParsed = c.sentParsed /\ d.parsed = c.parsed
    /\ c.wantWrite => d.wantWrite
    /\ (c.blocked => c.wantWrite) => (d.blocked => d.wantWrite)

\* d is c after lines of its queue were parsed, or is gone.
Parsed(c, d) ==
    IsDefunct(d) \/
      /\ ~IsDefunct(c)
      /\ d.wantRead = c.wantRead /\ d.pendingRead = c.pendingRead /\ d.flush = c.flush
      /\ c.wantWrite => d.wantWrite
      /\ (c.blocked => c.wantWrite) => (d.blocked => d.wantWrite)
      /\ c.status = "oper" => d.status = "oper"
      /\ Governed(c) => Governed(d)
      /\ Governed(c) /\ c.floodDone =>
           d.floodDone /\ d.parsed - c.parsed = d.sentParsed - c.sentParsed

LEMMA ParsedReflexive == ASSUME NEW c \in Connection PROVE Parsed(c, c)
BY DEF Parsed, Connection

LEMMA ParsedTransitive ==
    ASSUME NEW c \in Connection, NEW d \in Connection, NEW e \in Connection,
           Parsed(c, d), Parsed(d, e)
    PROVE  Parsed(c, e)
<1>1. CASE IsDefunct(e)
  BY <1>1 DEF Parsed
<1>2. CASE ~IsDefunct(e)
  <2>1. ~IsDefunct(d)
    BY <1>2 DEF Parsed
  <2>2. /\ c.parsed \in Int /\ d.parsed \in Int /\ e.parsed \in Int
        /\ c.sentParsed \in Int /\ d.sentParsed \in Int /\ e.sentParsed \in Int
    BY DEF Connection
  <2>3. Governed(c) /\ c.floodDone =>
          e.floodDone /\ e.parsed - c.parsed = e.sentParsed - c.sentParsed
    BY <1>2, <2>1, <2>2 DEF Parsed
  <2> QED
    BY <1>2, <2>1, <2>3 DEF Parsed
<1> QED
  BY <1>1, <1>2

LEMMA QueuedWriteKeeps ==
    ASSUME NEW c \in Connection
    PROVE  SendQueuedWrite(c) \in Connection /\ Wrote(c, SendQueuedWrite(c))
<1> DEFINE n == Least(c.room, c.sendq)
<1>1. n \in Nat /\ n <= c.room /\ n <= c.sendq /\ c.sendq - n \in 0..MaxSendq
      /\ c.room - n \in 0..MaxRoom
  BY StreamConstants DEF Least, Connection
<1>2. CASE IsDefunct(c) \/ c.blocked \/ c.sendq = 0 \/ c.ssl = "wantRead"
  BY <1>2 DEF SendQueuedWrite, Wrote
<1>3. CASE ~(IsDefunct(c) \/ c.blocked \/ c.sendq = 0 \/ c.ssl = "wantRead")
  <2>1. SendQueuedWrite(c) =
           [c EXCEPT !.ssl = IF n > 0 THEN "open" ELSE @,
                     !.sendq = @ - n, !.room = @ - n,
                     !.blocked = n < c.sendq,
                     !.wantWrite = @ \/ n < c.sendq]
    BY <1>3 DEF SendQueuedWrite
  <2> HIDE DEF n
  <2>2. (n < c.sendq) \in BOOLEAN /\ (c.wantWrite \/ n < c.sendq) \in BOOLEAN
    OBVIOUS
  <2> QED
    BY <1>1, <2>1, <2>2, ZenonT(60) DEF Connection, Wrote
<1> QED
  BY <1>2, <1>3

LEMMA SendMessageKeeps ==
    ASSUME NEW c \in Connection
    PROVE  /\ SendMessage(c) \in Connection
           /\ IsDefunct(SendMessage(c)) \/ Wrote(c, SendMessage(c))
<1> DEFINE queued == [c EXCEPT !.sendq = @ + 1]
<1>1. CASE IsDefunct(c)
  BY <1>1 DEF SendMessage
<1>2. CASE ~IsDefunct(c) /\ c.sendq + 1 > MaxSendq
  <2>1. SendMessage(c) = DeadLinkOnWrite(c)
    BY <1>2 DEF SendMessage
  <2>2. DeadLinkOnWrite(c) \in Connection /\ IsDefunct(DeadLinkOnWrite(c))
    BY EmptyQueues DEF DeadLinkOnWrite, Connection, IsDefunct
  <2> QED
    BY <2>1, <2>2
<1>3. CASE ~IsDefunct(c) /\ ~(c.sendq + 1 > MaxSendq)
  <2>1. SendMessage(c) \in {SendQueuedWrite(queued), queued}
    BY <1>3 DEF SendMessage
  <2>2. queued \in Connection /\ Wrote(c, queued)
    <3>1. c.sendq + 1 \in 0..MaxSendq
      BY <1>3, StreamConstants DEF Connection
    <3> QED
      BY <3>1 DEF Connection, Wrote
  <2>3. SendQueuedWrite(queued) \in Connection /\ Wrote(queued, SendQueuedWrite(queued))
    BY <2>2, QueuedWriteKeeps
  <2>4. Wrote(c, SendQueuedWrite(queued))
    BY <2>2, <2>3 DEF Wrote
  <2> QED
    BY <2>1, <2>2, <2>3, <2>4
<1> QED
  BY <1>1, <1>2, <1>3

LEMMA CloseEnds ==
    ASSUME NEW c \in Connection
    PROVE  Close(c) \in Connection /\ IsDefunct(Close(c))
BY EmptyQueues DEF Close, Connection, IsDefunct

LEMMA EndgraceKeeps ==
    ASSUME NEW c \in Connection
    PROVE  LET d == FloodEndgrace(c) IN
           /\ d \in Connection /\ d.floodDone
           /\ d.status = c.status /\ d.recvq = c.recvq /\ d.parsed = c.parsed
           /\ d.wantRead = c.wantRead /\ d.pendingRead = c.pendingRead /\ d.flush = c.flush
           /\ d.wantWrite = c.wantWrite /\ d.blocked = c.blocked
           /\ IF c.floodDone THEN d.sentParsed = c.sentParsed /\ d.allowRead = c.allowRead
                             ELSE d.sentParsed = 0 /\ d.allowRead = MaxFlood
<1>1. MaxFlood \in Nat /\ 0 \in Nat
  BY StreamConstants
<1>2. CASE c.floodDone
  BY <1>2 DEF FloodEndgrace
<1>3. CASE ~c.floodDone
  <2>1. FloodEndgrace(c) = [c EXCEPT !.floodDone = TRUE, !.allowRead = MaxFlood, !.sentParsed = 0]
    BY <1>3 DEF FloodEndgrace
  <2>2. FloodEndgrace(c) \in Connection
    BY <1>1, <2>1 DEF Connection
  <2> QED
    BY <1>3, <2>1, <2>2 DEF Connection
<1> QED
  BY <1>2, <1>3

\* What the handler of a line leaves of a connection that goes on.
Handled(c, d) ==
    /\ d.recvq = c.recvq /\ d.parsed = c.parsed
    /\ d.wantRead = c.wantRead /\ d.pendingRead = c.pendingRead /\ d.flush = c.flush
    /\ c.wantWrite => d.wantWrite
    /\ (c.blocked => c.wantWrite) => (d.blocked => d.wantWrite)
    /\ IsClient(c) => IsClient(d)
    /\ c.status = "oper" => d.status = "oper"
    /\ d.floodDone =>
         IF c.floodDone THEN d.sentParsed = c.sentParsed /\ (IsClient(c) => d.allowRead = c.allowRead)
         ELSE IsClient(c) /\ d.sentParsed = 0 /\ d.allowRead = MaxFlood
    /\ c.floodDone => d.floodDone

LEMMA HandleKeeps ==
    ASSUME NEW c \in Connection, NEW line \in LineKind
    PROVE  /\ Handle(c, line) \in Connection
           /\ IsDefunct(Handle(c, line)) \/ Handled(c, Handle(c, line))
<1>1. CASE line = "quit"
  BY <1>1, CloseEnds DEF Handle
<1>2. CASE line = "register" /\ ~IsClient(c)
  <2> DEFINE d == [c EXCEPT !.status = "client", !.allowRead = BurstFactor * MaxFlood]
  <2>1. Handle(c, line) = SendMessage(d)
    BY <1>2 DEF Handle
  <2>2. BurstFactor * MaxFlood \in Nat
    BY StreamConstants
  <2>3. d \in Connection /\ Wrote(c, [d EXCEPT !.status = c.status, !.allowRead = c.allowRead])
    BY <2>2 DEF Connection, Wrote
  <2>4. SendMessage(d) \in Connection /\ (IsDefunct(SendMessage(d)) \/ Wrote(d, SendMessage(d)))
    BY <2>3, SendMessageKeeps
  <2>5. /\ d.status = "client" /\ d.recvq = c.recvq /\ d.parsed = c.parsed
        /\ d.wantRead = c.wantRead /\ d.pendingRead = c.pendingRead /\ d.flush = c.flush
        /\ d.wantWrite = c.wantWrite /\ d.blocked = c.blocked
        /\ d.floodDone = c.floodDone /\ d.sentParsed = c.sentParsed
    BY DEF Connection
  <2> HIDE DEF d
  <2>6. Wrote(d, SendMessage(d)) => Handled(c, SendMessage(d))
    BY <1>2, <2>5 DEF Wrote, Handled, IsClient
  <2> QED
    BY <2>1, <2>4, <2>6
<1>3. CASE line = "message" /\ IsClient(c)
  <2>1. Handle(c, line) = FloodEndgrace(c)
    BY <1>3 DEF Handle
  <2> QED
    BY <1>3, <2>1, EndgraceKeeps DEF Handled, IsClient
<1>4. CASE line = "oper" /\ IsClient(c)
  <2> DEFINE g == FloodEndgrace(c)
             d == [g EXCEPT !.status = "oper"]
  <2>1. Handle(c, line) = SendMessage(d)
    BY <1>4 DEF Handle
  <2>2. /\ g \in Connection /\ g.floodDone
        /\ g.status = c.status /\ g.recvq = c.recvq /\ g.parsed = c.parsed
        /\ g.wantRead = c.wantRead /\ g.pendingRead = c.pendingRead /\ g.flush = c.flush
        /\ g.wantWrite = c.wantWrite /\ g.blocked = c.blocked
        /\ IF c.floodDone THEN g.sentParsed = c.sentParsed /\ g.allowRead = c.allowRead
                          ELSE g.sentParsed = 0 /\ g.allowRead = MaxFlood
    BY EndgraceKeeps
  <2> HIDE DEF g
  <2>3. d \in Connection /\ d.status = "oper" /\ Wrote(g, [d EXCEPT !.status = g.status])
    BY <2>2 DEF Connection, Wrote
  <2>4. SendMessage(d) \in Connection /\ (IsDefunct(SendMessage(d)) \/ Wrote(d, SendMessage(d)))
    BY <2>3, SendMessageKeeps
  <2>5. Wrote(d, SendMessage(d)) => Handled(c, SendMessage(d))
    BY <1>4, <2>2 DEF Connection, Wrote, Handled, IsClient
  <2> QED
    BY <2>1, <2>4, <2>5
<1>5. CASE ~(line = "quit" \/ (line = "register" /\ ~IsClient(c))
             \/ (line = "message" /\ IsClient(c)) \/ (line = "oper" /\ IsClient(c)))
  <2>1. Handle(c, line) = SendMessage(c)
    BY <1>5 DEF Handle
  <2> QED
    BY <2>1, SendMessageKeeps DEF Wrote, Handled, IsClient
<1> QED
  BY <1>1, <1>2, <1>3, <1>4, <1>5

\* One turn of the loop, on what is left of the queue.
Turn == [client : Connection, lines : Nat]

LEMMA ParseLineKeeps ==
    ASSUME NEW acc \in Turn, NEW line \in LineKind, NEW was,
           was = "oper" => IsDefunct(acc.client) \/ acc.client.status = "oper",
           IsDefunct(acc.client) \/ acc.client.recvq # <<>>
    PROVE  LET after == ParseLine(was, acc, line) IN
           /\ after \in Turn /\ Parsed(acc.client, after.client)
           /\ IsDefunct(after.client)
                \/ after.client.recvq \in {acc.client.recvq, Tail(acc.client.recvq)}
<1> DEFINE c == acc.client
           taken == [c EXCEPT !.recvq = Tail(@), !.parsed = @ + 1]
           h == Handle(taken, line)
           next == IF IsClient(c) THEN [acc EXCEPT !.client = [h EXCEPT !.sentParsed = @ + 1]]
                                  ELSE [client |-> h, lines |-> acc.lines + 1]
<1>1. c \in Connection /\ acc.lines \in Nat
  BY DEF Turn
<1>2. CASE ~MayParse(was, c, acc.lines)
  <2>1. ParseLine(was, acc, line) = acc
    BY <1>2 DEF ParseLine
  <2> QED
    BY <1>1, <2>1, ParsedReflexive
<1>3. CASE MayParse(was, c, acc.lines)
  <2>1. ~IsDefunct(c) /\ c.recvq # <<>>
    BY <1>3 DEF MayParse
  <2>2. ParseLine(was, acc, line) = next
    <3>1. \A f : {IF IsClient(c) THEN [acc EXCEPT !.client = [z EXCEPT !.sentParsed = @ + 1]]
                                  ELSE [client |-> z, lines |-> acc.lines + 1] : z \in {f}}
             = {IF IsClient(c) THEN [acc EXCEPT !.client = [f EXCEPT !.sentParsed = @ + 1]]
                                  ELSE [client |-> f, lines |-> acc.lines + 1]}
      OBVIOUS
    <3> QED
      BY <1>3, <3>1 DEF ParseLine, Using
  <2>3. /\ taken \in Connection
        /\ taken.status = c.status /\ taken.recvq = Tail(c.recvq) /\ taken.parsed = c.parsed + 1
        /\ taken.wantRead = c.wantRead /\ taken.pendingRead = c.pendingRead
        /\ taken.flush = c.flush /\ taken.wantWrite = c.wantWrite /\ taken.blocked = c.blocked
        /\ taken.floodDone = c.floodDone /\ taken.sentParsed = c.sentParsed
        /\ taken.allowRead = c.allowRead
    <3>1. Tail(c.recvq) \in Seq(LineKind) /\ c.parsed + 1 \in Nat
      BY <1>1, <2>1 DEF Connection
    <3> QED
      BY <1>1, <3>1 DEF Connection
  <2> HIDE DEF taken
  <2>4. h \in Connection /\ (IsDefunct(h) \/ Handled(taken, h))
    BY <2>3, HandleKeeps
  <2> HIDE DEF h
  <2>5. CASE IsClient(c)
    <3> DEFINE d == [h EXCEPT !.sentParsed = @ + 1]
    <3>1. /\ d \in Connection /\ d.status = h.status /\ d.recvq = h.recvq
          /\ d.parsed = h.parsed /\ d.wantRead = h.wantRead /\ d.pendingRead = h.pendingRead
          /\ d.flush = h.flush /\ d.wantWrite = h.wantWrite /\ d.blocked = h.blocked
          /\ d.floodDone = h.floodDone /\ d.allowRead = h.allowRead
          /\ d.sentParsed = h.sentParsed + 1
      <4>1. h.sentParsed + 1 \in Nat
        BY <2>4 DEF Connection
      <4> QED
        BY <2>4, <4>1 DEF Connection
    <3> HIDE DEF d
    <3>2. next = [acc EXCEPT !.client = d]
      BY <2>5 DEF d
    <3>3. next \in Turn /\ next.client = d
      BY <1>1, <3>1, <3>2 DEF Turn
    <3>4. ASSUME Handled(taken, h), ~IsDefunct(h)
          PROVE  Parsed(c, d) /\ d.recvq = Tail(c.recvq)
      <4>1. /\ d.wantRead = c.wantRead /\ d.pendingRead = c.pendingRead /\ d.flush = c.flush
            /\ c.wantWrite => d.wantWrite
            /\ (c.blocked => c.wantWrite) => (d.blocked => d.wantWrite)
            /\ c.status = "oper" => d.status = "oper"
            /\ IsClient(d) /\ d.recvq = Tail(c.recvq)
            /\ c.floodDone => d.floodDone
            /\ d.parsed = c.parsed + 1
        BY <2>3, <2>5, <3>1, <3>4 DEF Handled, IsClient
      <4>2. /\ c.sentParsed \in Nat /\ c.parsed \in Nat /\ d.sentParsed \in Nat
            /\ MaxFlood \in Nat /\ MaxFlood > 0 /\ c.allowRead \in Nat
        BY <1>1, <3>1, StreamConstants DEF Connection
      <4>3. ASSUME Governed(c), c.floodDone
            PROVE  Governed(d) /\ d.sentParsed = c.sentParsed + 1
        <5>1. d.sentParsed = c.sentParsed + 1 /\ d.allowRead = MaxFlood
          BY <2>3, <2>5, <3>1, <3>4, <4>1, <4>3 DEF Handled, Governed, IsClient
        <5>2. c.sentParsed < (IF was = "oper" /\ NoOperFlood THEN 4 ELSE 1) * MaxFlood
          BY <1>3, <2>5, <4>3 DEF MayParse, Governed
        <5>3. d.sentParsed <= Limit(d.status)
          <6>1. CASE was = "oper" /\ NoOperFlood
            <7>1. Limit(d.status) = 4 * MaxFlood
              BY <2>1, <4>1, <6>1 DEF Limit
            <7> QED
              BY <4>2, <5>1, <5>2, <6>1, <7>1
          <6>2. CASE ~(was = "oper" /\ NoOperFlood)
            <7>1. Limit(d.status) >= MaxFlood
              BY <4>2 DEF Limit
            <7>2. c.sentParsed < MaxFlood
              BY <4>2, <5>2, <6>2
            <7>3. Limit(d.status) \in Nat
              BY <4>2 DEF Limit
            <7> QED
              BY <4>2, <5>1, <7>1, <7>2, <7>3
          <6> QED
            BY <6>1, <6>2
        <5> QED
          BY <4>1, <5>1, <5>3 DEF Governed
      <4>4. ASSUME ~c.floodDone, d.floodDone
            PROVE  Governed(d)
        <5>1. d.sentParsed = 1 /\ d.allowRead = MaxFlood
          BY <2>3, <3>1, <3>4, <4>4 DEF Handled
        <5>2. 1 <= Limit(d.status)
          BY <4>2 DEF Limit
        <5> QED
          BY <4>1, <5>1, <5>2 DEF Governed
      <4>5. Governed(c) => Governed(d)
        BY <4>3, <4>4 DEF Governed
      <4>6. Governed(c) /\ c.floodDone =>
              d.floodDone /\ d.parsed - c.parsed = d.sentParsed - c.sentParsed
        BY <4>1, <4>2, <4>3
      <4> QED
        BY <2>1, <4>1, <4>5, <4>6 DEF Parsed
    <3>5. IsDefunct(h) => IsDefunct(d)
      BY <3>1 DEF IsDefunct
    <3>6. Parsed(c, d) /\ (IsDefunct(d) \/ d.recvq = Tail(c.recvq))
      BY <2>4, <3>4, <3>5 DEF Parsed
    <3> QED
      BY <2>2, <3>3, <3>6
  <2>6. CASE ~IsClient(c)
    <3>1. next = [client |-> h, lines |-> acc.lines + 1]
      BY <2>6
    <3>2. next \in Turn /\ next.client = h
      BY <1>1, <2>4, <3>1 DEF Turn
    <3>3. ASSUME Handled(taken, h), ~IsDefunct(h)
          PROVE  Parsed(c, h) /\ h.recvq = Tail(c.recvq)
      <4>1. Governed(c) => ~c.floodDone /\ ~h.floodDone
        BY <2>3, <2>6, <3>3 DEF Governed, Handled, IsClient
      <4>2. c.status # "oper"
        BY <2>6 DEF IsClient
      <4> QED
        BY <2>1, <2>3, <3>3, <4>1, <4>2 DEF Handled, Parsed, Governed
    <3>4. Parsed(c, h) /\ (IsDefunct(h) \/ h.recvq = Tail(c.recvq))
      BY <2>4, <3>3 DEF Parsed
    <3> QED
      BY <2>2, <3>2, <3>4
  <2> QED
    BY <2>5, <2>6
<1> QED
  BY <1>2, <1>3

\* What the loop may have after n turns, of the queue it began with.
Good(c, n) ==
    {x \in Turn : /\ Parsed(c, x.client)
                  /\ IsDefunct(x.client) \/ Len(x.client.recvq) >= Len(c.recvq) - n}

LEMMA TurnIsGood ==
    ASSUME NEW c \in Connection, NEW n \in 1..Len(c.recvq), NEW x \in Good(c, n - 1)
    PROVE  ParseLine(c.status, x, c.recvq[n]) \in Good(c, n)
<1> DEFINE after == ParseLine(c.status, x, c.recvq[n])
           L == Len(c.recvq)
<1>1. c.recvq \in Seq(LineKind) /\ L \in Nat /\ n \in Nat /\ 1 <= n /\ n <= L
  BY DEF Connection
<1>2. c.recvq[n] \in LineKind
  BY <1>1
<1>3. /\ x \in Turn /\ x.client \in Connection /\ Parsed(c, x.client)
      /\ IsDefunct(x.client) \/ Len(x.client.recvq) >= L - (n - 1)
  BY DEF Good, Turn
<1>4. x.client.recvq \in Seq(LineKind)
  BY <1>3 DEF Connection
<1>5. IsDefunct(x.client) \/ x.client.recvq # <<>>
  BY <1>1, <1>3, <1>4
<1>6. c.status = "oper" => IsDefunct(x.client) \/ x.client.status = "oper"
  BY <1>3 DEF Parsed
<1>7. /\ after \in Turn /\ Parsed(x.client, after.client)
      /\ IsDefunct(after.client)
           \/ after.client.recvq \in {x.client.recvq, Tail(x.client.recvq)}
  BY <1>2, <1>3, <1>5, <1>6, ParseLineKeeps
<1> HIDE DEF after
<1>8. Parsed(c, after.client)
  BY <1>3, <1>7, ParsedTransitive DEF Turn
<1>9. IsDefunct(after.client) \/ Len(after.client.recvq) >= L - n
  <2>1. CASE IsDefunct(x.client)
    BY <1>7, <2>1 DEF Parsed
  <2>2. CASE ~IsDefunct(x.client)
    <3>1. Len(Tail(x.client.recvq)) = Len(x.client.recvq) - 1 /\ Len(x.client.recvq) \in Nat
      BY <1>4, <1>5, <2>2
    <3>2. Len(x.client.recvq) >= L - (n - 1)
      BY <1>3, <2>2
    <3>3. Len(x.client.recvq) >= L - n /\ Len(Tail(x.client.recvq)) >= L - n
      BY <1>1, <3>1, <3>2
    <3> QED
      BY <1>7, <3>3
  <2> QED
    BY <2>1, <2>2
<1>10. after \in Good(c, n)
  BY <1>7, <1>8, <1>9 DEF Good
<1> QED
  BY <1>10 DEF after

LEMMA LoopIsGood ==
    ASSUME NEW c \in Connection, NEW g,
           g[0] = [client |-> c, lines |-> 0],
           \A i \in 1..Len(c.recvq) : g[i - 1] \in Good(c, i - 1) =>
             g[i] = ParseLine(c.status, g[i - 1], c.recvq[i])
    PROVE  \A n \in 0..Len(c.recvq) : g[n] \in Good(c, n)
<1> DEFINE L == Len(c.recvq)
           S == {n \in 0..L : g[n] \in Good(c, n)}
<1>1. L \in Nat
  BY DEF Connection
<1>2. 0 \in S
  <2>1. [client |-> c, lines |-> 0] \in Turn
    BY DEF Turn
  <2>2. [client |-> c, lines |-> 0] \in Good(c, 0)
    BY <1>1, <2>1, ParsedReflexive DEF Good
  <2> QED
    BY <1>1, <2>2
<1>3. ASSUME NEW n \in 1..L, n - 1 \in S PROVE n \in S
  <2>1. g[n - 1] \in Good(c, n - 1)
    BY <1>3
  <2>2. g[n] \in Good(c, n)
    BY <2>1, TurnIsGood
  <2> QED
    BY <1>1, <2>2
<1> HIDE DEF S
<1>4. \A n \in 0..L : n \in S
  BY <1>1, <1>2, <1>3, BoundedInduction
<1> QED
  BY <1>4 DEF S

LEMMA ParseKeeps ==
    ASSUME NEW c \in Connection
    PROVE  ParseClientQueued(c) \in Connection /\ Parsed(c, ParseClientQueued(c))
<1> DEFINE L == Len(c.recvq)
           Start == [client |-> c, lines |-> 0]
           Step(x, i) == ParseLine(c.status, x, c.recvq[i])
           Loop(g) == [n \in 0..L |->
                         IF n = 0 THEN Start
                         ELSE Using(g[n - 1], LAMBDA acc : ParseLine(c.status, acc, c.recvq[n]))]
           after == CHOOSE g : g = Loop(g)
           Total(i, x) == IF Step(x, i) \in Turn THEN Step(x, i) ELSE Start
           G == [i \in 1..L |-> [x \in Turn |-> Total(i, x)]]
<1>1. L \in Nat /\ Start \in Turn
  BY DEF Connection, Turn
<1>2. \A g : \A n \in 1..L : Loop(g)[n] = Step(g[n - 1], n)
  <2>1. \A x, n : {ParseLine(c.status, z, c.recvq[n]) : z \in {x}} = {Step(x, n)}
    OBVIOUS
  <2>2. \A x, n : Using(x, LAMBDA acc : ParseLine(c.status, acc, c.recvq[n])) = Step(x, n)
    BY <2>1 DEF Using
  <2>3. \A n \in 1..L : n \in 0..L /\ n # 0
    BY <1>1
  <2>4. \A g : \A n \in 1..L :
          Loop(g)[n] = Using(g[n - 1], LAMBDA acc : ParseLine(c.status, acc, c.recvq[n]))
    BY <2>3
  <2> HIDE DEF Loop, Step
  <2> QED
    BY <2>2, <2>4
<1>3. \A g : Loop(g)[0] = Start
  BY <1>1
<1>4. G \in [1..L -> [Turn -> Turn]]
  BY <1>1
<1>5. PICK f : f \in [0..L -> Turn] /\ f[0] = Start /\ \A i \in 1..L : f[i] = G[i][f[i - 1]]
  <2> HIDE DEF G, L, Start
  <2>1. PICK f : IsRun(f, L, Turn, Start, G)
    BY <1>1, <1>4, LoopExists
  <2> QED
    BY <2>1 DEF IsRun
<1>6. \A i \in 1..L : f[i] = Total(i, f[i - 1])
  <2>1. \A i \in 1..L : i - 1 \in 0..L
    BY <1>1
  <2> HIDE DEF Total, L, Start
  <2> QED
    BY <1>5, <2>1
<1> HIDE DEF G
<1>7. \A i \in 1..L : f[i - 1] \in Good(c, i - 1) => f[i] = Step(f[i - 1], i)
  <2>1. ASSUME NEW i \in 1..L, f[i - 1] \in Good(c, i - 1)
        PROVE  f[i] = Step(f[i - 1], i)
    <3>1. Step(f[i - 1], i) \in Good(c, i)
      BY <2>1, TurnIsGood
    <3>2. Step(f[i - 1], i) \in Turn
      BY <3>1 DEF Good
    <3> QED
      BY <1>6, <2>1, <3>2
  <2> QED
    BY <2>1
<1>8. \A n \in 0..L : f[n] \in Good(c, n)
  BY <1>5, <1>7, LoopIsGood
<1>9. f = Loop(f)
  <2>1. \A n \in 1..L : n - 1 \in 0..L
    BY <1>1
  <2>2. \A n \in 1..L : f[n] = Loop(f)[n]
    BY <1>2, <1>7, <1>8, <2>1
  <2>3. f[0] = Loop(f)[0]
    BY <1>3, <1>5
  <2>4. \A n \in 0..L : n = 0 \/ n \in 1..L
    BY <1>1
  <2>5. \A n \in 0..L : f[n] = Loop(f)[n]
    BY <2>2, <2>3, <2>4
  <2>6. f = [n \in 0..L |-> f[n]] /\ Loop(f) = [n \in 0..L |-> Loop(f)[n]]
    BY <1>5
  <2> HIDE DEF Loop, L
  <2> QED
    BY <2>5, <2>6
<1>10. after = Loop(after)
  <2> HIDE DEF Loop
  <2> QED
    BY <1>9
<1>11. ParseClientQueued(c) = after[L].client
  BY DEF ParseClientQueued
<1> HIDE DEF after
<1>12. after[0] = Start /\ \A i \in 1..L : after[i] = Step(after[i - 1], i)
  <2> HIDE DEF Loop, Step, Start
  <2> QED
    BY <1>2, <1>3, <1>10
<1>13. \A n \in 0..L : after[n] \in Good(c, n)
  BY <1>12, LoopIsGood
<1>14. after[L] \in Good(c, L)
  BY <1>1, <1>13
<1> QED
  BY <1>11, <1>14 DEF Good, Turn

\* What a whole event does to the count of lines.
Rates(c, d) ==
    IsDefunct(d) \/
      /\ ~IsDefunct(c)
      /\ Governed(c) => Governed(d)
      /\ Governed(c) /\ c.floodDone =>
           d.floodDone /\ d.parsed - c.parsed = d.sentParsed - c.sentParsed

LEMMA ReceivedKeeps ==
    ASSUME NEW c \in Connection, c.flush, c.blocked => c.wantWrite
    PROVE  LET d == Received(c) IN
           d \in Connection /\ Rates(c, d) /\ (IsDefunct(d) \/ Waits(d))
<1> DEFINE q == [c EXCEPT !.net = <<>>, !.recvq = @ \o c.net]
           p == ParseClientQueued(q)
           End(z) == IF c.net = <<>> /\ c.eof THEN Close(c)
                     ELSE IF IsDefunct(z) THEN z
                     ELSE IF ExcessFlood(z) THEN Close(z)
                     ELSE IF c.transport = "tls" /\ c.eof THEN Close(z)
                     ELSE [z EXCEPT !.wantRead = TRUE]
<1>1. /\ q \in Connection
      /\ q.status = c.status /\ q.flush = c.flush /\ q.blocked = c.blocked
      /\ q.wantWrite = c.wantWrite /\ q.floodDone = c.floodDone
      /\ q.sentParsed = c.sentParsed /\ q.allowRead = c.allowRead /\ q.parsed = c.parsed
  <2>1. c.recvq \o c.net \in Seq(LineKind)
    BY DEF Connection
  <2> QED
    BY <2>1, EmptyQueues DEF Connection
<1> HIDE DEF q
<1>2. p \in Connection /\ Parsed(q, p)
  BY <1>1, ParseKeeps
<1>3. Received(c) = End(p)
  <2>1. \A z : {End(y) : y \in {z}} = {End(z)}
    OBVIOUS
  <2> QED
    BY <2>1 DEF Received, Using, q
<1> HIDE DEF p
<1>4. Close(c) \in Connection /\ IsDefunct(Close(c)) /\ Close(p) \in Connection /\ IsDefunct(Close(p))
  BY <1>2, CloseEnds
<1>5. CASE End(p) = [p EXCEPT !.wantRead = TRUE] /\ ~IsDefunct(p)
  <2> DEFINE d == [p EXCEPT !.wantRead = TRUE]
  <2>1. /\ d \in Connection /\ d.status = p.status /\ d.wantRead /\ d.flush = p.flush
        /\ d.blocked = p.blocked /\ d.wantWrite = p.wantWrite /\ d.floodDone = p.floodDone
        /\ d.sentParsed = p.sentParsed /\ d.allowRead = p.allowRead /\ d.parsed = p.parsed
    BY <1>2 DEF Connection
  <2> HIDE DEF d
  <2>2. Waits(d)
    BY <1>1, <1>2, <1>5, <2>1 DEF Waits, Parsed
  <2>3. Rates(c, d)
    BY <1>1, <1>2, <1>5, <2>1 DEF Rates, Parsed, Governed, IsDefunct, IsClient
  <2>4. d = [p EXCEPT !.wantRead = TRUE]
    BY DEF d
  <2> QED
    BY <1>3, <1>5, <2>1, <2>2, <2>3, <2>4
<1>6. CASE End(p) \in {Close(c), Close(p)} \/ (End(p) = p /\ IsDefunct(p))
  BY <1>2, <1>3, <1>4, <1>6 DEF Rates
<1> QED
  BY <1>5, <1>6

\* The handlers of read and write events and of the flush timer, on a
\* connection whose event has been taken off.
LEMMA ReadPacketKeeps ==
    ASSUME NEW c \in Connection, ~IsDefunct(c), c.flush, c.blocked => c.wantWrite
    PROVE  LET d == StreamReadPacket(c) IN
           d \in Connection /\ Rates(c, d) /\ (IsDefunct(d) \/ Waits(d))
<1>1. CASE c.ssl # "open" /\ c.eof
  BY <1>1, CloseEnds DEF StreamReadPacket, Rates
<1>2. CASE ~(c.ssl # "open" /\ c.eof) /\ c.ssl = "wantRead"
  <2> DEFINE d == [c EXCEPT !.wantRead = TRUE]
  <2>1. StreamReadPacket(c) = d
    BY <1>2 DEF StreamReadPacket
  <2>2. d \in Connection /\ Waits(d)
    BY DEF Connection, Waits
  <2>3. Rates(c, d)
    BY DEF Rates, Governed, IsClient, Connection
  <2> QED
    BY <2>1, <2>2, <2>3
<1>3. CASE ~(c.ssl # "open" /\ c.eof) /\ c.ssl = "wantWrite" /\ c.room = 0
  <2> DEFINE d == [c EXCEPT !.pendingRead = TRUE, !.blocked = TRUE, !.wantWrite = TRUE]
  <2>1. StreamReadPacket(c) = d
    BY <1>3 DEF StreamReadPacket
  <2>2. d \in Connection /\ Waits(d)
    BY DEF Connection, Waits
  <2>3. Rates(c, d)
    BY DEF Rates, Governed, IsClient, Connection
  <2> QED
    BY <2>1, <2>2, <2>3
<1>4. CASE ~(c.ssl # "open" /\ c.eof) /\ c.ssl # "wantRead" /\ ~(c.ssl = "wantWrite" /\ c.room = 0)
  <2> DEFINE o == [c EXCEPT !.ssl = "open"]
  <2>1. StreamReadPacket(c) = Received(o)
    BY <1>4 DEF StreamReadPacket
  <2>2. /\ o \in Connection
        /\ o.status = c.status /\ o.flush = c.flush /\ o.blocked = c.blocked
        /\ o.wantWrite = c.wantWrite /\ o.floodDone = c.floodDone
        /\ o.sentParsed = c.sentParsed /\ o.allowRead = c.allowRead /\ o.parsed = c.parsed
    BY DEF Connection
  <2> HIDE DEF o
  <2>3. Received(o) \in Connection /\ Rates(o, Received(o))
        /\ (IsDefunct(Received(o)) \/ Waits(Received(o)))
    BY <2>2, ReceivedKeeps
  <2>4. Rates(c, Received(o))
    BY <2>2, <2>3 DEF Rates, Governed, IsClient, IsDefunct
  <2> QED
    BY <2>1, <2>3, <2>4
<1> QED
  BY <1>1, <1>2, <1>3, <1>4

LEMMA SendqUnblockedKeeps ==
    ASSUME NEW c \in Connection, ~IsDefunct(c), c.flush, c.wantRead \/ c.pendingRead
    PROVE  LET d == SendqUnblocked(c) IN
           d \in Connection /\ Rates(c, d) /\ (IsDefunct(d) \/ Waits(d))
<1> DEFINE u == [c EXCEPT !.blocked = FALSE, !.pendingRead = FALSE]
<1>1. /\ u \in Connection
      /\ u.status = c.status /\ u.flush = c.flush /\ ~u.blocked /\ u.wantRead = c.wantRead
      /\ u.wantWrite = c.wantWrite /\ u.floodDone = c.floodDone
      /\ u.sentParsed = c.sentParsed /\ u.allowRead = c.allowRead /\ u.parsed = c.parsed
  BY DEF Connection
<1>2. SendqUnblocked(c) = IF c.pendingRead THEN StreamReadPacket(u) ELSE u
  BY DEF SendqUnblocked
<1> HIDE DEF u
<1>3. CASE c.pendingRead
  <2>1. LET d == StreamReadPacket(u) IN
        d \in Connection /\ Rates(u, d) /\ (IsDefunct(d) \/ Waits(d))
    BY <1>1, ReadPacketKeeps DEF IsDefunct
  <2>2. Rates(c, StreamReadPacket(u))
    BY <1>1, <2>1 DEF Rates, Governed, IsClient, IsDefunct
  <2> QED
    BY <1>2, <1>3, <2>1, <2>2
<1>4. CASE ~c.pendingRead
  <2>1. Waits(u)
    BY <1>1, <1>4 DEF Waits
  <2>2. Rates(c, u)
    <3>1. u.parsed - c.parsed = u.sentParsed - c.sentParsed
      BY <1>1 DEF Connection
    <3> QED
      BY <1>1, <3>1 DEF Rates, Governed, IsClient
  <2> QED
    BY <1>1, <1>2, <1>4, <2>1, <2>2
<1> QED
  BY <1>3, <1>4

\* flood_recalc gives two lines back.
LEMMA FloodRecalcKeeps ==
    ASSUME NEW c \in Connection, ~IsDefunct(c), c.blocked => c.wantWrite,
           c.wantRead \/ (c.pendingRead /\ c.wantWrite)
    PROVE  LET d == FloodRecalc(c) IN
           /\ d \in Connection
           /\ IsDefunct(d) \/
                /\ Waits(d)
                /\ Governed(c) => Governed(d)
                /\ Governed(c) /\ c.floodDone =>
                     d.floodDone /\ d.parsed - c.parsed <= d.sentParsed - c.sentParsed + 2
<1> DEFINE less == IF c.floodDone /\ c.sentParsed > 2 THEN c.sentParsed - 2 ELSE 0
           a == [c EXCEPT !.sentParsed = less]
           p == ParseClientQueued(a)
           Again(z) == [z EXCEPT !.flush = ~IsDefunct(z)]
<1>1. less \in Nat /\ less <= c.sentParsed
      /\ (c.floodDone => c.sentParsed <= less + 2)
  BY DEF Connection
<1> HIDE DEF less
<1>2. /\ a \in Connection
      /\ a.status = c.status /\ a.blocked = c.blocked /\ a.wantRead = c.wantRead
      /\ a.pendingRead = c.pendingRead
      /\ a.wantWrite = c.wantWrite /\ a.floodDone = c.floodDone
      /\ a.sentParsed = less /\ a.allowRead = c.allowRead /\ a.parsed = c.parsed
  BY <1>1 DEF Connection
<1>3. Governed(c) => Governed(a)
  <2>1. Limit(c.status) \in Nat /\ c.sentParsed \in Nat
    BY StreamConstants DEF Limit, Connection
  <2> QED
    BY <1>1, <1>2, <2>1 DEF Governed, IsClient
<1>4. FloodRecalc(c) = Again(p)
  <2>1. \A z : {Again(y) : y \in {z}} = {Again(z)}
    OBVIOUS
  <2>2. [c EXCEPT !.sentParsed = IF c.floodDone /\ @ > 2 THEN @ - 2 ELSE 0] = a
    BY DEF less
  <2> QED
    BY <2>1, <2>2 DEF FloodRecalc, Using
<1> HIDE DEF a
<1>5. p \in Connection /\ Parsed(a, p)
  BY <1>2, ParseKeeps
<1> HIDE DEF p
<1> DEFINE d == Again(p)
<1>6. /\ d \in Connection /\ d.status = p.status /\ d.flush = ~IsDefunct(p)
      /\ d.wantRead = p.wantRead /\ d.pendingRead = p.pendingRead
      /\ d.blocked = p.blocked /\ d.wantWrite = p.wantWrite /\ d.floodDone = p.floodDone
      /\ d.sentParsed = p.sentParsed /\ d.allowRead = p.allowRead /\ d.parsed = p.parsed
  <2>1. (~IsDefunct(p)) \in BOOLEAN
    OBVIOUS
  <2> QED
    BY <1>5, <2>1 DEF Connection
<1> HIDE DEF d
<1>7. ASSUME ~IsDefunct(d)
      PROVE  /\ Waits(d)
             /\ Governed(c) => Governed(d)
             /\ Governed(c) /\ c.floodDone =>
                  d.floodDone /\ d.parsed - c.parsed <= d.sentParsed - c.sentParsed + 2
  <2>1. ~IsDefunct(p)
    BY <1>6, <1>7 DEF IsDefunct
  <2>2. Waits(d)
    BY <1>2, <1>5, <1>6, <2>1 DEF Waits, Parsed
  <2>3. Governed(c) => Governed(d)
    BY <1>3, <1>5, <1>6, <2>1 DEF Parsed, Governed, IsClient
  <2>4. ASSUME Governed(c), c.floodDone
        PROVE  d.floodDone /\ d.parsed - c.parsed <= d.sentParsed - c.sentParsed + 2
    <3>1. d.floodDone /\ d.parsed - a.parsed = d.sentParsed - a.sentParsed
      BY <1>2, <1>3, <1>5, <1>6, <2>1, <2>4 DEF Parsed
    <3>2. /\ d.parsed \in Nat /\ c.parsed \in Nat /\ d.sentParsed \in Nat
          /\ c.sentParsed \in Nat
      BY <1>6 DEF Connection
    <3> QED
      BY <1>1, <1>2, <2>4, <3>1, <3>2
  <2> QED
    BY <2>2, <2>3, <2>4
<1>8. FloodRecalc(c) = d
  BY <1>4 DEF d
<1> QED
  BY <1>6, <1>7, <1>8

-----------------------------------------------------------------------------
(* The connection and its window.                                           *)

\* Inductive: a window counts no line that is not in sentParsed, or was taken
\* off it by a flood timer.
StreamInd ==
    /\ StreamTypeOK
    /\ Alive => Waits(client) /\ Governed(client)
    /\ window # NoWindow =>
         Alive /\ client.floodDone /\ window.lines <= 2 * window.ticks + client.sentParsed

LEMMA BecomesKeeps ==
    ASSUME StreamInd, NEW d \in Connection, NEW t \in {0, 1}, Becomes(d, t),
           IsDefunct(d) \/
             /\ Alive /\ Waits(d)
             /\ Governed(client) => Governed(d)
             /\ Governed(client) /\ client.floodDone =>
                  d.floodDone /\ d.parsed - client.parsed <= d.sentParsed - client.sentParsed + 2 * t,
           sent' \in Nat, delivered' \in Nat
    PROVE  StreamInd'
<1>1. /\ client' = d
      /\ window' = IF window = NoWindow \/ IsDefunct(d) \/ window.ticks + t > MaxTicks
                   THEN NoWindow
                   ELSE [lines |-> window.lines + d.parsed - client.parsed,
                         ticks |-> window.ticks + t]
  BY DEF Becomes
<1>2. /\ client \in Connection /\ window \in [lines : Int, ticks : Nat]
      /\ client.parsed \in Nat /\ client.sentParsed \in Nat
      /\ d.parsed \in Nat /\ d.sentParsed \in Nat
      /\ window.lines \in Int /\ window.ticks \in Nat
  BY DEF StreamInd, StreamTypeOK, Connection
<1>3. window' \in [lines : Int, ticks : Nat]
  BY <1>1, <1>2 DEF NoWindow
<1>4. Alive' = ~IsDefunct(d)
  BY <1>1 DEF Alive
<1>5. Alive' => Waits(client') /\ Governed(client')
  BY <1>1, <1>4 DEF StreamInd
<1>6. ASSUME window' # NoWindow
      PROVE  Alive' /\ client'.floodDone
               /\ window'.lines <= 2 * window'.ticks + client'.sentParsed
  <2>1. /\ window # NoWindow /\ ~IsDefunct(d)
        /\ window'.lines = window.lines + d.parsed - client.parsed
        /\ window'.ticks = window.ticks + t
    BY <1>1, <1>6
  <2>2. Alive /\ client.floodDone /\ window.lines <= 2 * window.ticks + client.sentParsed
    BY <2>1 DEF StreamInd
  <2>3. d.floodDone /\ d.parsed - client.parsed <= d.sentParsed - client.sentParsed + 2 * t
    BY <2>1, <2>2 DEF StreamInd
  <2>4. window'.lines <= 2 * window'.ticks + d.sentParsed
    BY <1>2, <2>1, <2>2, <2>3
  <2> QED
    BY <1>1, <1>4, <2>1, <2>3, <2>4
<1> QED
  BY <1>1, <1>3, <1>5, <1>6 DEF StreamInd, StreamTypeOK

\* A change of neither flags nor counts.
LEMMA PlainChange ==
    ASSUME StreamInd, NEW d \in Connection, Becomes(d, 0), sent' \in Nat, delivered' \in Nat,
           IsDefunct(d) \/ (Alive /\ d.floodDone = client.floodDone
              /\ d.sentParsed = client.sentParsed /\ d.allowRead = client.allowRead
              /\ d.parsed = client.parsed /\ d.status = client.status /\ d.flush = client.flush
              /\ d.wantRead = client.wantRead /\ d.pendingRead = client.pendingRead
              /\ (client.wantWrite => d.wantWrite)
              /\ ((client.blocked => client.wantWrite) => (d.blocked => d.wantWrite)))
    PROVE  StreamInd'
<1>1. CASE IsDefunct(d)
  BY <1>1, BecomesKeeps
<1>2. CASE ~IsDefunct(d)
  <2>1. Waits(d) /\ Governed(client) /\ Governed(d)
    BY <1>2 DEF StreamInd, Waits, Governed, IsClient
  <2>2. d.parsed - client.parsed <= d.sentParsed - client.sentParsed + 2 * 0
    BY <1>2 DEF Connection
  <2> QED
    BY <1>2, <2>1, <2>2, BecomesKeeps
<1> QED
  BY <1>1, <1>2

LEMMA StreamIndInductive == StreamInd /\ [StreamNext]_streamVars => StreamInd'
<1> SUFFICES ASSUME StreamInd, [StreamNext]_streamVars PROVE StreamInd'
  OBVIOUS
<1>1. client \in Connection /\ sent \in Nat /\ delivered \in Nat
      /\ sent + 1 \in Nat /\ delivered + 1 \in Nat
      /\ (Alive => Waits(client) /\ Governed(client))
  BY DEF StreamInd, StreamTypeOK
<1>2. CASE ReadEvent
  <2> DEFINE c == [client EXCEPT !.wantRead = FALSE]
  <2>1. /\ c \in Connection /\ c.status = client.status /\ c.flush = client.flush
        /\ c.blocked = client.blocked /\ c.wantWrite = client.wantWrite
        /\ c.floodDone = client.floodDone /\ c.sentParsed = client.sentParsed
        /\ c.allowRead = client.allowRead /\ c.parsed = client.parsed
    BY <1>1 DEF Connection
  <2>2. Becomes(StreamReadPacket(c), 0) /\ sent' = sent /\ delivered' = delivered
    BY <1>2 DEF ReadEvent
  <2> HIDE DEF c
  <2>3. CASE Alive
    <3>1. LET d == StreamReadPacket(c) IN
          d \in Connection /\ Rates(c, d) /\ (IsDefunct(d) \/ Waits(d))
      BY <1>1, <2>1, <2>3, ReadPacketKeeps DEF Alive, IsDefunct, Waits
    <3> DEFINE d == StreamReadPacket(c)
    <3>2. d \in Connection /\ client.parsed \in Nat /\ d.parsed \in Nat
          /\ client.sentParsed \in Nat /\ d.sentParsed \in Nat
      BY <1>1, <3>1 DEF Connection
    <3>3. Governed(c) <=> Governed(client)
      BY <2>1 DEF Governed, IsClient
    <3> HIDE DEF d
    <3>4. ASSUME ~IsDefunct(d)
          PROVE  /\ Waits(d) /\ (Governed(client) => Governed(d))
                 /\ Governed(client) /\ client.floodDone =>
                      d.floodDone /\ d.parsed - client.parsed <= d.sentParsed - client.sentParsed + 2 * 0
      BY <2>1, <3>1, <3>2, <3>3, <3>4 DEF d, Rates
    <3> QED
      BY <1>1, <2>2, <2>3, <3>2, <3>4, BecomesKeeps DEF d
  <2>4. CASE ~Alive
    <3>1. StreamReadPacket(c) = c /\ IsDefunct(c)
      BY <2>1, <2>4 DEF StreamReadPacket, Alive, IsDefunct
    <3> QED
      BY <1>1, <2>1, <2>2, <3>1, BecomesKeeps
  <2> QED
    BY <2>3, <2>4
<1>3. CASE WriteEvent
  <2> DEFINE c == [client EXCEPT !.wantWrite = FALSE]
             d == SendqUnblocked(c)
  <2>1. /\ c \in Connection /\ c.status = client.status /\ c.flush = client.flush
        /\ c.wantRead = client.wantRead /\ c.pendingRead = client.pendingRead
        /\ c.floodDone = client.floodDone /\ c.sentParsed = client.sentParsed
        /\ c.allowRead = client.allowRead /\ c.parsed = client.parsed
    BY <1>1 DEF Connection
  <2>2. Becomes(d, 0) /\ sent' = sent /\ delivered' = delivered
    BY <1>3 DEF WriteEvent
  <2> HIDE DEF c
  <2>3. CASE Alive
    <3>1. d \in Connection /\ Rates(c, d) /\ (IsDefunct(d) \/ Waits(d))
      BY <1>1, <2>1, <2>3, SendqUnblockedKeeps DEF Alive, IsDefunct, Waits
    <3>2. d \in Connection /\ client.parsed \in Nat /\ d.parsed \in Nat
          /\ client.sentParsed \in Nat /\ d.sentParsed \in Nat
      BY <1>1, <3>1 DEF Connection
    <3>3. Governed(c) <=> Governed(client)
      BY <2>1 DEF Governed, IsClient
    <3> HIDE DEF d
    <3>4. ASSUME ~IsDefunct(d)
          PROVE  /\ Waits(d) /\ (Governed(client) => Governed(d))
                 /\ Governed(client) /\ client.floodDone =>
                      d.floodDone /\ d.parsed - client.parsed <= d.sentParsed - client.sentParsed + 2 * 0
      BY <2>1, <3>1, <3>2, <3>3, <3>4 DEF Rates
    <3> QED
      BY <1>1, <2>2, <2>3, <3>2, <3>4, BecomesKeeps
  <2>4. CASE ~Alive
    <3> DEFINE u == [c EXCEPT !.blocked = FALSE, !.pendingRead = FALSE]
    <3>1. u \in Connection /\ u.status = c.status /\ IsDefunct(u)
      BY <2>1, <2>4 DEF Connection, Alive, IsDefunct
    <3>2. d = u
      BY <3>1 DEF SendqUnblocked, StreamReadPacket
    <3> HIDE DEF u, d
    <3> QED
      BY <1>1, <2>2, <3>1, <3>2, BecomesKeeps
  <2> QED
    BY <2>3, <2>4
<1>4. CASE FlushTimer
  <2> DEFINE c == [client EXCEPT !.flush = FALSE]
             d == FloodRecalc(c)
  <2>1. /\ c \in Connection /\ c.status = client.status
        /\ c.blocked = client.blocked /\ c.wantWrite = client.wantWrite
        /\ c.wantRead = client.wantRead /\ c.pendingRead = client.pendingRead
        /\ c.floodDone = client.floodDone /\ c.sentParsed = client.sentParsed
        /\ c.allowRead = client.allowRead /\ c.parsed = client.parsed
    BY <1>1 DEF Connection
  <2>2. Becomes(d, 1) /\ sent' = sent /\ delivered' = delivered /\ client.flush
    BY <1>4 DEF FlushTimer
  <2> HIDE DEF c
  <2>3. CASE Alive
    <3>1. /\ d \in Connection
          /\ IsDefunct(d) \/
               /\ Waits(d)
               /\ Governed(c) => Governed(d)
               /\ Governed(c) /\ c.floodDone =>
                    d.floodDone /\ d.parsed - c.parsed <= d.sentParsed - c.sentParsed + 2
      BY <1>1, <2>1, <2>3, FloodRecalcKeeps DEF Alive, IsDefunct, Waits
    <3>2. Governed(c) <=> Governed(client)
      BY <2>1 DEF Governed, IsClient
    <3> HIDE DEF d
    <3>3. ASSUME ~IsDefunct(d)
          PROVE  /\ Waits(d) /\ (Governed(client) => Governed(d))
                 /\ Governed(client) /\ client.floodDone =>
                      d.floodDone /\ d.parsed - client.parsed <= d.sentParsed - client.sentParsed + 2 * 1
      BY <2>1, <3>1, <3>2, <3>3
    <3> QED
      BY <1>1, <2>2, <2>3, <3>1, <3>3, BecomesKeeps
  <2>4. CASE ~Alive
    <3> DEFINE less == IF c.floodDone /\ c.sentParsed > 2 THEN c.sentParsed - 2 ELSE 0
               a == [c EXCEPT !.sentParsed = less]
               p == ParseClientQueued(a)
               e == [p EXCEPT !.flush = ~IsDefunct(p)]
    <3>1. less \in Nat
      BY <2>1 DEF Connection
    <3>2. a \in Connection /\ a.status = c.status
      BY <2>1, <3>1 DEF Connection
    <3>3. [c EXCEPT !.sentParsed = IF c.floodDone /\ @ > 2 THEN @ - 2 ELSE 0] = a
      OBVIOUS
    <3> HIDE DEF less, a
    <3>4. p \in Connection /\ IsDefunct(p)
      BY <2>1, <2>4, <3>2, ParseKeeps DEF Parsed, Alive, IsDefunct
    <3>5. \A z : {[y EXCEPT !.flush = ~IsDefunct(y)] : y \in {z}} = {[z EXCEPT !.flush = ~IsDefunct(z)]}
      OBVIOUS
    <3>6. d = e
      BY <3>3, <3>5 DEF FloodRecalc, Using
    <3> HIDE DEF p, d
    <3>7. e \in Connection /\ e.status = p.status
      BY <3>4 DEF Connection
    <3> HIDE DEF e
    <3>8. IsDefunct(e)
      BY <3>4, <3>7 DEF IsDefunct
    <3> QED
      BY <1>1, <2>2, <3>6, <3>7, <3>8, BecomesKeeps
  <2> QED
    BY <2>3, <2>4
<1>5. CASE SendQueuedAll
  <2>1. CASE Becomes(SendQueuedWrite(client), 0)
    <3>1. SendQueuedWrite(client) \in Connection /\ Wrote(client, SendQueuedWrite(client))
      BY <1>1, QueuedWriteKeeps
    <3> QED
      BY <1>1, <1>5, <2>1, <3>1, PlainChange DEF SendQueuedAll, Wrote
  <2>2. CASE Becomes(DeadLinkOnWrite(client), 0)
    <3>1. DeadLinkOnWrite(client) \in Connection /\ IsDefunct(DeadLinkOnWrite(client))
      BY <1>1, EmptyQueues DEF DeadLinkOnWrite, Connection, IsDefunct
    <3> QED
      BY <1>1, <1>5, <2>2, <3>1, PlainChange DEF SendQueuedAll
  <2> QED
    BY <1>5, <2>1, <2>2 DEF SendQueuedAll
<1>6. CASE ExitAborted
  BY <1>1, <1>6, CloseEnds, PlainChange DEF ExitAborted
<1>7. CASE Deliver
  <2>1. /\ SendMessage(client) \in Connection
        /\ IsDefunct(SendMessage(client)) \/ Wrote(client, SendMessage(client))
    BY <1>1, SendMessageKeeps
  <2>2. Alive /\ Becomes(SendMessage(client), 0) /\ sent' = sent /\ delivered' = delivered + 1
    BY <1>7 DEF Deliver, IsClient, Alive, IsDefunct
  <2> QED
    BY <1>1, <2>1, <2>2, PlainChange DEF Wrote
<1>8. CASE PeerSends
  <2>1. PICK line \in LineKind : Becomes([client EXCEPT !.net = Append(@, line)], 0)
    BY <1>8 DEF PeerSends
  <2> DEFINE d == [client EXCEPT !.net = Append(@, line)]
  <2>2. Append(client.net, line) \in Seq(LineKind)
    BY <1>1 DEF Connection
  <2>3. /\ d \in Connection /\ d.status = client.status /\ d.flush = client.flush
        /\ d.blocked = client.blocked /\ d.wantWrite = client.wantWrite
        /\ d.wantRead = client.wantRead /\ d.pendingRead = client.pendingRead
        /\ d.floodDone = client.floodDone /\ d.sentParsed = client.sentParsed
        /\ d.allowRead = client.allowRead /\ d.parsed = client.parsed
    BY <1>1, <2>2 DEF Connection
  <2>4. Becomes(d, 0) /\ sent' = sent + 1 /\ delivered' = delivered
    BY <1>8, <2>1 DEF PeerSends
  <2> HIDE DEF d
  <2>5. Alive \/ IsDefunct(d)
    BY <2>3 DEF Alive, IsDefunct
  <2> QED
    BY <1>1, <2>3, <2>4, <2>5, PlainChange
<1>9. CASE PeerReads \/ PeerCloses \/ PeerAnswers \/ PeerRenegotiates
  <2>1. PICK d \in {[client EXCEPT !.room = MaxRoom], [client EXCEPT !.eof = TRUE],
                    [client EXCEPT !.ssl = "open"],
                    [client EXCEPT !.ssl = "wantRead", !.renegotiated = TRUE],
                    [client EXCEPT !.ssl = "wantWrite", !.renegotiated = TRUE]} : Becomes(d, 0)
    BY <1>9 DEF PeerReads, PeerCloses, PeerAnswers, PeerRenegotiates
  <2>2. sent' = sent /\ delivered' = delivered
    BY <1>9 DEF PeerReads, PeerCloses, PeerAnswers, PeerRenegotiates
  <2>3. /\ d \in Connection /\ d.status = client.status /\ d.flush = client.flush
        /\ d.blocked = client.blocked /\ d.wantWrite = client.wantWrite
        /\ d.wantRead = client.wantRead /\ d.pendingRead = client.pendingRead
        /\ d.floodDone = client.floodDone /\ d.sentParsed = client.sentParsed
        /\ d.allowRead = client.allowRead /\ d.parsed = client.parsed
    BY <1>1, EmptyQueues, ZenonT(60) DEF Connection
  <2>4. Alive \/ IsDefunct(d)
    BY <2>3 DEF Alive, IsDefunct
  <2> QED
    BY <1>1, <2>1, <2>2, <2>3, <2>4, PlainChange
<1>10. CASE OpenWindow
  <2>1. /\ window' = [lines |-> 0, ticks |-> 0] /\ client' = client /\ sent' = sent
        /\ delivered' = delivered /\ Alive /\ client.floodDone
    BY <1>10 DEF OpenWindow
  <2>2. client.sentParsed \in Nat
    BY <1>1 DEF Connection
  <2>3. Alive' /\ client'.floodDone /\ window'.lines <= 2 * window'.ticks + client'.sentParsed
    BY <2>1, <2>2 DEF Alive
  <2> QED
    BY <1>1, <2>1, <2>3 DEF StreamInd, StreamTypeOK
<1>11. CASE UNCHANGED streamVars
  BY <1>11 DEF streamVars, StreamInd, StreamTypeOK, Alive
<1> QED
  BY <1>2, <1>3, <1>4, <1>5, <1>6, <1>7, <1>8, <1>9, <1>10, <1>11 DEF StreamNext

\* The connection is what its parts say of each other, whatever the peer does.
THEOREM StreamIndHolds == StreamSpec => []StreamInd
<1>1. StreamInit => StreamInd
  <2>1. ASSUME NEW transport \in {"plain", "tls"}
        PROVE  /\ NewConnection(transport) \in Connection
               /\ Waits(NewConnection(transport)) /\ Governed(NewConnection(transport))
    <3>1. MaxFlood \in Nat
      BY StreamConstants
    <3> QED
      BY <3>1, EmptyQueues DEF NewConnection, Connection, Waits, Governed
  <2> QED
    BY <2>1 DEF StreamInit, StreamInd, StreamTypeOK, NoWindow
<1> QED
  BY <1>1, StreamIndInductive, PTL DEF StreamSpec

\* The queues, counts and flags of a connection keep their types through
\* every event, timer and peer.
THEOREM StreamsTyped == StreamSpec => []StreamTypeOK
<1>1. StreamInd => StreamTypeOK
  BY DEF StreamInd
<1> QED
  BY <1>1, StreamIndHolds, PTL

\* Through renegotiations, partial writes, floods and deaths, a connection that
\* is not dead waits for what will wake it (read_packet, sendq_unblocked).
THEOREM StreamsAreNeverDeaf == StreamSpec => []NeverDeaf
<1>1. StreamInd => NeverDeaf
  BY DEF StreamInd, NeverDeaf, Waits
<1> QED
  BY <1>1, StreamIndHolds, PTL

\* For every MAX_FLOOD and burst: a window after the grace period has no more
\* lines than MAX_FLOOD, four times it for an operator, and two a flood timer.
THEOREM RateStaysBounded == StreamSpec => []RateBounded
<1>1. StreamInd => RateBounded
  <2> SUFFICES ASSUME StreamInd, window # NoWindow
               PROVE  window.lines <= 2 * window.ticks
                        + (IF client.status = "oper" /\ NoOperFlood THEN 4 ELSE 1) * MaxFlood
    BY DEF RateBounded
  <2>1. /\ window.lines <= 2 * window.ticks + client.sentParsed
        /\ client.sentParsed <= Limit(client.status)
    BY DEF StreamInd, Governed
  <2>2. /\ window.lines \in Int /\ window.ticks \in Nat /\ client.sentParsed \in Nat
        /\ MaxFlood \in Nat
    BY StreamConstants DEF StreamInd, StreamTypeOK, Connection
  <2>3. CASE client.status = "oper" /\ NoOperFlood
    BY <2>1, <2>2, <2>3 DEF Limit
  <2>4. CASE ~(client.status = "oper" /\ NoOperFlood)
    BY <2>1, <2>2, <2>4 DEF Limit
  <2> QED
    BY <2>3, <2>4
<1> QED
  BY <1>1, StreamIndHolds, PTL

-----------------------------------------------------------------------------
(* The queues of a connection: a chain of blocks is the bytes it holds.     *)

LEMMA Concatenation ==
    /\ \A s, t \in Seq(Byte) : s \o t \in Seq(Byte)
    /\ \A s \in Seq(Byte) : s \o <<>> = s /\ <<>> \o s = s
    /\ \A s, t, u \in Seq(Byte) : (s \o t) \o u = s \o (t \o u)
BY ConcatProperties, ConcatEmptySeq, ConcatAssociative

LEMMA ChainConcatenation ==
    \A s, t, u \in Seq(Seq(Byte)) : (s \o t) \o u = s \o (t \o u)
<1> DEFINE T == Seq(Byte)
<1>1. \A s, t, u \in Seq(T) : (s \o t) \o u = s \o (t \o u)
  <2> HIDE DEF T
  <2> QED
    BY ConcatAssociative
<1> QED
  BY <1>1

LEMMA BytesConcatenation ==
    \A s, t, u \in Seq(Byte) : (s \o t) \o u = s \o (t \o u)
BY ConcatAssociative

LEMMA ConcatAppended ==
    ASSUME NEW T, NEW z \in Seq(T), NEW p \in Seq(T), NEW b \in T
    PROVE  z \o p \in Seq(T) /\ z \o Append(p, b) = Append(z \o p, b)
<1>1. <<b>> \in Seq(T)
  OBVIOUS
<1>2. PICK last \in Seq(T) : last = <<b>>
  BY <1>1
<1>3. PICK u \in Seq(T) : u = z \o p
  BY ConcatProperties
<1>4. u \o last = z \o (p \o last)
  BY <1>3, ConcatAssociative
<1>5. Append(p, b) = p \o last /\ Append(u, b) = u \o last
  BY <1>2, AppendIsConcat
<1> QED
  BY <1>3, <1>4, <1>5, Zenon

\* f goes through the blocks of q and gathers what they hold.
Gathers(f, q) ==
    /\ f \in [0..Len(q) -> Seq(Byte)] /\ f[0] = <<>>
    /\ \A i \in 1..Len(q) : f[i] = f[i - 1] \o q[i]

LEMMA GatherExists ==
    ASSUME NEW q \in Seq(Seq(Byte))
    PROVE  \E f : Gathers(f, q)
<1> DEFINE N == Len(q)
           G == [i \in 1..N |-> [x \in Seq(Byte) |-> x \o q[i]]]
<1>1. N \in Nat /\ \A i \in 1..N : q[i] \in Seq(Byte)
  BY LenProperties, ElementOfSeq
<1>2. \A i \in 1..N : \A x \in Seq(Byte) : x \o q[i] \in Seq(Byte)
  BY <1>1, ConcatProperties
<1>3. G \in [1..N -> [Seq(Byte) -> Seq(Byte)]] /\ <<>> \in Seq(Byte)
  BY <1>2, EmptySeq
<1>4. PICK f : IsRun(f, N, Seq(Byte), <<>>, G)
  <2> HIDE DEF G, N
  <2> QED
    BY <1>1, <1>3, LoopExists
<1>5. \A i \in 1..N : f[i - 1] \in Seq(Byte)
  <2>1. \A i \in 1..N : i - 1 \in 0..N
    BY <1>1
  <2> QED
    BY <1>4, <2>1 DEF IsRun
<1>6. Gathers(f, q)
  BY <1>4, <1>5 DEF IsRun, Gathers
<1> QED
  BY <1>6

LEMMA GatherUnique ==
    ASSUME NEW q \in Seq(Seq(Byte)), NEW f, NEW g, Gathers(f, q),
           g = [i \in 0..Len(q) |-> IF i = 0 THEN <<>> ELSE g[i - 1] \o q[i]]
    PROVE  g = f
<1> DEFINE S == {n \in 0..Len(q) : g[n] = f[n]}
<1>1. Len(q) \in Nat
  BY LenProperties
<1>2. 0 \in S
  BY <1>1 DEF Gathers
<1>3. ASSUME NEW n \in 1..Len(q), n - 1 \in S
      PROVE  n \in S
  <2>1. n \in 0..Len(q) /\ n # 0
    BY <1>1
  <2>2. g[n] = g[n - 1] \o q[n]
    BY <2>1
  <2> QED
    BY <1>3, <2>1, <2>2 DEF Gathers
<1> HIDE DEF S
<1>4. \A n \in 0..Len(q) : n \in S
  BY <1>1, <1>2, <1>3, BoundedInduction
<1>5. \A n \in 0..Len(q) : g[n] = f[n]
  BY <1>4 DEF S
<1> QED
  BY <1>5 DEF Gathers

\* Bytes is what any such loop ends with.
LEMMA BytesGathered ==
    ASSUME NEW q \in Seq(Seq(Byte)), NEW f, Gathers(f, q)
    PROVE  Bytes(q) = f[Len(q)] /\ Bytes(q) \in Seq(Byte)
<1> DEFINE Loop(h) == [i \in 0..Len(q) |-> IF i = 0 THEN <<>> ELSE h[i - 1] \o q[i]]
           g == CHOOSE h : h = Loop(h)
<1>1. f = Loop(f)
  <2>1. Len(q) \in Nat /\ \A i \in 0..Len(q) : i # 0 => i \in 1..Len(q)
    BY LenProperties
  <2> QED
    BY <2>1 DEF Gathers
<1>2. g = Loop(g)
  BY <1>1
<1>3. Bytes(q) = g[Len(q)]
  BY DEF Bytes
<1> HIDE DEF g
<1>4. g = f
  BY <1>2, GatherUnique
<1>5. Len(q) \in 0..Len(q)
  BY LenProperties
<1> QED
  BY <1>3, <1>4, <1>5 DEF Gathers

LEMMA BytesExist ==
    ASSUME NEW q \in Seq(Seq(Byte))
    PROVE  Bytes(q) \in Seq(Byte)
BY GatherExists, BytesGathered

LEMMA BytesOfNone == Bytes(<<>>) = <<>>
<1>1. <<>> \in Seq(Seq(Byte)) /\ Len(<<>>) = 0 /\ <<>> \in Seq(Byte)
  BY EmptySeq
<1>2. PICK f : Gathers(f, <<>>)
  BY <1>1, GatherExists
<1> QED
  BY <1>1, <1>2, BytesGathered DEF Gathers

LEMMA BytesAppended ==
    ASSUME NEW q \in Seq(Seq(Byte)), NEW block \in Seq(Byte)
    PROVE  Bytes(Append(q, block)) = Bytes(q) \o block
<1> DEFINE N == Len(q)
           r == Append(q, block)
<1>1. PICK f : Gathers(f, q)
  BY GatherExists
<1> DEFINE g == [i \in 0..(N + 1) |-> IF i <= N THEN f[i] ELSE f[N] \o block]
<1>2. N \in Nat /\ r \in Seq(Seq(Byte)) /\ Len(r) = N + 1
  BY LenProperties, AppendProperties
<1>3. r[N + 1] = block /\ \A i \in 1..N : r[i] = q[i]
  BY AppendProperties
<1>4. f[N] \o block \in Seq(Byte) /\ \A i \in 0..N : f[i] \in Seq(Byte)
  <2>1. N \in 0..N /\ \A i \in 0..N : f[i] \in Seq(Byte)
    <3>1. N \in 0..N
      BY <1>2
    <3>2. \A i \in 0..N : f[i] \in Seq(Byte)
      BY <1>1 DEF Gathers
    <3> QED
      BY <3>1, <3>2
  <2> QED
    BY <2>1, Concatenation
<1>5. g \in [0..Len(r) -> Seq(Byte)] /\ g[0] = <<>>
  BY <1>1, <1>2, <1>4 DEF Gathers
<1>6. ASSUME NEW i \in 1..Len(r)
      PROVE  g[i] = g[i - 1] \o r[i]
  <2>1. CASE i = N + 1
    <3>1. g[i] = f[N] \o block /\ g[i - 1] = f[N]
      BY <1>2, <2>1
    <3> QED
      BY <1>3, <2>1, <3>1
  <2>2. CASE i # N + 1
    <3>1. i \in 1..N /\ i - 1 \in 0..N /\ i \in 0..N + 1 /\ i - 1 \in 0..N + 1
      BY <1>2, <2>2
    <3>2. g[i] = f[i] /\ g[i - 1] = f[i - 1]
      BY <1>2, <3>1
    <3> QED
      BY <1>1, <1>3, <3>1, <3>2 DEF Gathers
  <2> QED
    BY <2>1, <2>2
<1>7. Gathers(g, r)
  BY <1>5, <1>6 DEF Gathers
<1>8. Bytes(q) = f[N]
  BY <1>1, BytesGathered
<1>9. Bytes(r) = g[N + 1]
  BY <1>2, <1>7, BytesGathered
<1> QED
  BY <1>2, <1>8, <1>9

LEMMA BytesSplit ==
    ASSUME NEW q \in Seq(Seq(Byte)), q # <<>>
    PROVE  Bytes(q) = Head(q) \o Bytes(Tail(q))
<1> DEFINE N == Len(q)
           r == Tail(q)
<1>1. N \in Nat \ {0} /\ r \in Seq(Seq(Byte)) /\ Len(r) = N - 1 /\ Head(q) \in Seq(Byte)
  BY EmptySeq, HeadTailProperties
<1>2. \A i \in 1..(N - 1) : r[i] = q[i + 1]
  BY <1>1, HeadTailProperties
<1>3. Head(q) = q[1] /\ q[1] \in Seq(Byte) /\ \A i \in 1..N : q[i] \in Seq(Byte)
  BY <1>1, ElementOfSeq
<1>4. PICK f : Gathers(f, r)
  BY <1>1, GatherExists
<1>5. \A i \in 0..(N - 1) : f[i] \in Seq(Byte)
  BY <1>1, <1>4 DEF Gathers
<1> DEFINE g == [i \in 0..N |-> IF i = 0 THEN <<>> ELSE Head(q) \o f[i - 1]]
<1>6. g \in [0..N -> Seq(Byte)] /\ g[0] = <<>>
  <2>1. <<>> \in Seq(Byte)
    BY EmptySeq
  <2>2. ASSUME NEW i \in 0..N, i # 0
        PROVE  Head(q) \o f[i - 1] \in Seq(Byte)
    <3>1. i - 1 \in 0..(N - 1)
      BY <1>1, <2>2
    <3> QED
      BY <1>1, <1>5, <3>1, ConcatProperties
  <2> QED
    BY <1>1, <2>1, <2>2
<1>7. ASSUME NEW i \in 1..N
      PROVE  g[i] = g[i - 1] \o q[i]
  <2>1. CASE i = 1
    <3>1. g[1] = Head(q) \o <<>> /\ g[0] = <<>>
      BY <1>1, <1>4, <1>6 DEF Gathers
    <3>2. Head(q) \o <<>> = q[1] /\ <<>> \o q[1] = q[1]
      BY <1>3, Concatenation
    <3>3. g[i - 1] = g[0]
      BY <2>1
    <3> QED
      BY <2>1, <3>1, <3>2, <3>3
  <2>2. CASE i # 1
    <3>1. /\ i - 1 \in 1..(N - 1) /\ i - 1 \in 0..N /\ i \in 0..N /\ (i - 1) - 1 \in 0..(N - 1)
          /\ (i - 1) + 1 = i /\ i - 1 # 0 /\ i # 0
      BY <1>1, <2>2
    <3>2. f[i - 1] = f[(i - 1) - 1] \o q[i]
      BY <1>1, <1>2, <1>4, <3>1 DEF Gathers
    <3>3. Head(q) \o (f[(i - 1) - 1] \o q[i]) = (Head(q) \o f[(i - 1) - 1]) \o q[i]
      <4>1. f[(i - 1) - 1] \in Seq(Byte) /\ q[i] \in Seq(Byte)
        BY <1>3, <1>5, <3>1
      <4>2. Head(q) \in Seq(Byte)
        BY <1>1
      <4> HIDE DEF g, r
      <4> QED
        BY <4>1, <4>2, BytesConcatenation, ZenonT(40)
    <3> QED
      BY <3>1, <3>2, <3>3
  <2> QED
    BY <2>1, <2>2
<1>8. Gathers(g, q)
  BY <1>6, <1>7 DEF Gathers
<1>9. Bytes(q) = g[N] /\ Bytes(r) = f[N - 1]
  BY <1>1, <1>4, <1>8, BytesGathered
<1>10. g[N] = Head(q) \o f[N - 1]
  <2>1. N \in 0..N /\ N # 0
    BY <1>1
  <2> QED
    BY <2>1
<1> QED
  BY <1>9, <1>10

\* One byte more in the last block.
LEMMA BytesGrown ==
    ASSUME NEW q \in Seq(Seq(Byte)), q # <<>>, NEW b \in Byte
    PROVE  /\ [q EXCEPT ![Len(q)] = Append(@, b)] \in Seq(Seq(Byte))
           /\ Bytes([q EXCEPT ![Len(q)] = Append(@, b)]) = Append(Bytes(q), b)
<1> DEFINE N == Len(q)
           r == [q EXCEPT ![N] = Append(@, b)]
<1>1. N \in Nat \ {0} /\ N \in 1..N /\ q[N] \in Seq(Byte)
  BY EmptySeq, ElementOfSeq
<1>2. r = [q EXCEPT ![N] = Append(q[N], b)] /\ Append(q[N], b) \in Seq(Byte)
  BY <1>1, AppendProperties
<1>3. r \in Seq(Seq(Byte)) /\ Len(r) = N
      /\ \A i \in 1..N : r[i] = IF i = N THEN Append(q[N], b) ELSE q[i]
  <2> HIDE DEF r
  <2> QED
    BY <1>1, <1>2, ExceptSeq
<1>4. PICK f : Gathers(f, q)
  BY GatherExists
<1>5. f[N] \in Seq(Byte) /\ f[N - 1] \in Seq(Byte) /\ f[N] = f[N - 1] \o q[N]
  <2>1. N - 1 \in 0..N /\ N \in 0..N
    BY <1>1
  <2> QED
    BY <1>1, <1>4, <2>1 DEF Gathers
<1> DEFINE g == [f EXCEPT ![N] = Append(@, b)]
<1>6. Append(f[N], b) = f[N - 1] \o Append(q[N], b) /\ Append(f[N], b) \in Seq(Byte)
  <2>1. PICK z \in Seq(Byte), p \in Seq(Byte) : z = f[N - 1] /\ p = q[N]
    BY <1>1, <1>5
  <2>2. z \o Append(p, b) = Append(z \o p, b)
    BY ConcatAppended
  <2> QED
    BY <1>1, <1>5, <2>1, <2>2, AppendProperties
<1>7. Gathers(g, r)
  <2>1. g \in [0..N -> Seq(Byte)] /\ g[0] = <<>>
    BY <1>1, <1>4, <1>6 DEF Gathers
  <2>2. ASSUME NEW i \in 1..N
        PROVE  g[i] = g[i - 1] \o r[i]
    <3>1. i \in 0..N /\ i - 1 \in 0..N /\ i - 1 # N
      BY <1>1
    <3>2. CASE i = N
      <4> HIDE DEF r
      <4>1. g[i] = Append(f[N], b) /\ g[i - 1] = f[i - 1]
        BY <1>4, <3>1, <3>2 DEF Gathers
      <4> QED
        BY <1>3, <1>6, <3>2, <4>1
    <3>3. CASE i # N
      <4> HIDE DEF r
      <4>1. g[i] = f[i] /\ g[i - 1] = f[i - 1]
        BY <1>4, <3>1, <3>3 DEF Gathers
      <4> QED
        BY <1>3, <1>4, <3>3, <4>1 DEF Gathers
    <3> QED
      BY <3>2, <3>3
  <2> HIDE DEF g, r
  <2> QED
    BY <1>3, <2>1, <2>2 DEF Gathers
<1>8. Bytes(q) = f[N]
  BY <1>4, BytesGathered
<1>9. Bytes(r) = g[N]
  <2> HIDE DEF g, r
  <2> QED
    BY <1>3, <1>7, BytesGathered
<1>10. g[N] = Append(f[N], b)
  <2>1. N \in 0..N
    BY <1>1
  <2> QED
    BY <1>4, <2>1 DEF Gathers
<1> QED
  BY <1>3, <1>8, <1>9, <1>10

-----------------------------------------------------------------------------
(* dbuf_put and dbuf_delete.                                                *)

Chain == Seq(Seq(Byte))

LEMMA PutKeeps ==
    ASSUME NEW q \in Chain, NEW b \in Byte
    PROVE  Put(q, b) \in Chain /\ Bytes(Put(q, b)) = Append(Bytes(q), b)
<1>1. CASE q = <<>> \/ Len(Last(q)) = BlockSize
  <2>1. <<b>> \in Seq(Byte) /\ Put(q, b) = Append(q, <<b>>)
    BY <1>1 DEF Put
  <2>2. Put(q, b) \in Chain
    BY <2>1 DEF Chain
  <2>4. Bytes(Append(q, <<b>>)) = Bytes(q) \o <<b>>
    BY <2>1, BytesAppended, Zenon DEF Chain
  <2>3. Bytes(q) \o <<b>> = Append(Bytes(q), b)
    BY BytesExist, AppendIsConcat DEF Chain
  <2> QED
    BY <2>1, <2>2, <2>3, <2>4
<1>2. CASE ~(q = <<>> \/ Len(Last(q)) = BlockSize)
  <2>1. Put(q, b) = [q EXCEPT ![Len(q)] = Append(@, b)]
    BY <1>2 DEF Put
  <2> QED
    BY <1>2, <2>1, BytesGrown DEF Chain
<1> QED
  BY <1>1, <1>2

LEMMA DbufPutKeeps ==
    ASSUME NEW q \in Chain, NEW data \in Seq(Byte)
    PROVE  DbufPut(q, data) \in Chain /\ Bytes(DbufPut(q, data)) = Bytes(q) \o data
<1> DEFINE N == Len(data)
           G == [i \in 1..N |-> [x \in Chain |-> Put(x, data[i])]]
           Loop(h) == [i \in 0..N |-> IF i = 0 THEN q ELSE Put(h[i - 1], data[i])]
           steps == CHOOSE h : h = Loop(h)
<1>1. N \in Nat /\ \A i \in 1..N : data[i] \in Byte
  BY LenProperties, ElementOfSeq
<1>2. PICK f : IsRun(f, N, Chain, q, G)
  <2>1. G \in [1..N -> [Chain -> Chain]]
    BY <1>1, PutKeeps
  <2> HIDE DEF G, N
  <2> QED
    BY <1>1, <2>1, LoopExists
<1>3. f = Loop(f)
  <2>1. \A i \in 1..N : i - 1 \in 0..N
    BY <1>1
  <2>2. \A i \in 1..N : f[i] = Put(f[i - 1], data[i])
    BY <1>2, <2>1 DEF IsRun
  <2>3. \A i \in 0..N : i # 0 => i \in 1..N
    BY <1>1
  <2> HIDE DEF N, G
  <2> QED
    BY <1>2, <2>2, <2>3 DEF IsRun
<1>4. steps = Loop(steps)
  BY <1>3
<1>5. DbufPut(q, data) = steps[N]
  BY DEF DbufPut
<1> HIDE DEF steps, G
<1> DEFINE S == {n \in 0..N : steps[n] \in Chain /\ Bytes(steps[n]) = Bytes(q) \o SubSeq(data, 1, n)}
<1>6. Bytes(q) \in Seq(Byte)
  BY BytesExist DEF Chain
<1>7. 0 \in S
  <2>1. 0 \in 0..N /\ steps[0] = q /\ SubSeq(data, 1, 0) = <<>>
    BY <1>1, <1>4, SubSeqEmpty
  <2> QED
    BY <1>6, <2>1, Concatenation
<1>8. ASSUME NEW n \in 1..N, n - 1 \in S
      PROVE  n \in S
  <2>1. n \in 0..N /\ n # 0 /\ steps[n] = Put(steps[n - 1], data[n]) /\ data[n] \in Byte
    BY <1>1, <1>4
  <2>2. steps[n] \in Chain /\ Bytes(steps[n]) = Append(Bytes(steps[n - 1]), data[n])
    BY <1>8, <2>1, PutKeeps
  <2> DEFINE before == SubSeq(data, 1, n - 1)
  <2>3. before \in Seq(Byte)
    <3>1. \A i \in 1..(n - 1) : data[i] \in Byte
      BY <1>1
    <3> QED
      BY <3>1, SubSeqProperties
  <2>4. <<data[n]>> \in Seq(Byte) /\ Bytes(q) \o before \in Seq(Byte)
    BY <1>6, <2>1, <2>3, Concatenation
  <2>5. Append(Bytes(q) \o before, data[n]) = (Bytes(q) \o before) \o <<data[n]>>
    BY <2>1, <2>4, AppendIsConcat
  <2>6. (Bytes(q) \o before) \o <<data[n]>> = Bytes(q) \o (before \o <<data[n]>>)
    <3>1. PICK x, y, z \in Seq(Byte) : x = Bytes(q) /\ y = before /\ z = <<data[n]>>
      BY <1>6, <2>3, <2>4, Zenon
    <3>2. (x \o y) \o z = x \o (y \o z)
      BY BytesConcatenation, ZenonT(40)
    <3> QED
      BY <3>1, <3>2, Zenon
  <2>7. before \o <<data[n]>> = SubSeq(data, 1, n)
    <3>1. 1 \in 1..Len(data) /\ n \in 1..Len(data)
      BY <1>1
    <3> QED
      BY <3>1, SubSeqRecursiveSecond
  <2> QED
    BY <1>8, <2>1, <2>2, <2>5, <2>6, <2>7
<1> HIDE DEF S
<1>9. \A n \in 0..N : n \in S
  BY <1>1, <1>7, <1>8, BoundedInduction
<1>10. N \in S
  BY <1>1, <1>9
<1>11. SubSeq(data, 1, N) = data
  BY SubSeqFull
<1> QED
  BY <1>5, <1>10, <1>11 DEF S

Drop(s, k) == SubSeq(s, k + 1, Len(s))

LEMMA DropFacts ==
    ASSUME NEW s \in Seq(Byte), NEW k \in Nat, k <= Len(s)
    PROVE  /\ Drop(s, k) \in Seq(Byte) /\ Len(Drop(s, k)) = Len(s) - k
           /\ \A i \in 1..(Len(s) - k) : Drop(s, k)[i] = s[k + i]
<1>1. Len(s) \in Nat /\ k + 1 \in Int /\ Len(s) \in Int
  BY LenProperties
<1>2. \A i \in (k + 1)..Len(s) : s[i] \in Byte
  BY <1>1, ElementOfSeq
<1> QED
  BY <1>1, <1>2, SubSeqProperties DEF Drop

LEMMA DropNothing ==
    ASSUME NEW s \in Seq(Byte)
    PROVE  Drop(s, 0) = s
BY SubSeqFull DEF Drop

LEMMA DropOfConcat ==
    ASSUME NEW s \in Seq(Byte), NEW t \in Seq(Byte), NEW k \in Nat, k <= Len(s) + Len(t)
    PROVE  /\ k <= Len(s) => Drop(s \o t, k) = Drop(s, k) \o t
           /\ k >= Len(s) => Drop(s \o t, k) = Drop(t, k - Len(s))
<1>1. Len(s) \in Nat /\ Len(t) \in Nat
  BY LenProperties
<1>2. /\ s \o t \in Seq(Byte) /\ Len(s \o t) = Len(s) + Len(t)
      /\ \A i \in 1..(Len(s) + Len(t)) :
           (s \o t)[i] = IF i <= Len(s) THEN s[i] ELSE t[i - Len(s)]
  BY ConcatProperties
<1> DEFINE d == Drop(s \o t, k)
<1>6. PICK u \in Seq(Byte) : u = s \o t
  BY <1>2
<1>3. /\ d \in Seq(Byte) /\ Len(d) = Len(s) + Len(t) - k
      /\ \A i \in 1..(Len(s) + Len(t) - k) : d[i] = (s \o t)[k + i]
  <2>1. Len(u) = Len(s) + Len(t)
    BY <1>2, <1>6
  <2>2. /\ Drop(u, k) \in Seq(Byte) /\ Len(Drop(u, k)) = Len(u) - k
        /\ \A i \in 1..(Len(u) - k) : Drop(u, k)[i] = u[k + i]
    BY <2>1, DropFacts
  <2>3. d = Drop(u, k)
    BY <1>6
  <2> HIDE DEF d
  <2>4. d \in Seq(Byte) /\ Len(d) = Len(u) - k /\ \A i \in 1..(Len(u) - k) : d[i] = u[k + i]
    BY <2>2, <2>3
  <2> QED
    BY <1>6, <2>1, <2>4
<1> HIDE DEF d
<1>4. ASSUME k <= Len(s)
      PROVE  d = Drop(s, k) \o t
  <2>1. /\ Drop(s, k) \in Seq(Byte) /\ Len(Drop(s, k)) = Len(s) - k
        /\ \A i \in 1..(Len(s) - k) : Drop(s, k)[i] = s[k + i]
    BY <1>4, DropFacts
  <2> DEFINE e == Drop(s, k) \o t
  <2>2. /\ e \in Seq(Byte) /\ Len(e) = Len(s) - k + Len(t)
        /\ \A i \in 1..(Len(s) - k + Len(t)) :
             e[i] = IF i <= Len(s) - k THEN Drop(s, k)[i] ELSE t[i - (Len(s) - k)]
    <3>1. PICK u1 \in Seq(Byte) : u1 = Drop(s, k)
      BY <2>1
    <3>2. /\ u1 \o t \in Seq(Byte) /\ Len(u1 \o t) = Len(u1) + Len(t)
          /\ \A i \in 1..(Len(u1) + Len(t)) :
               (u1 \o t)[i] = IF i <= Len(u1) THEN u1[i] ELSE t[i - Len(u1)]
      BY ConcatProperties
    <3>3. Len(u1) = Len(s) - k
      BY <2>1, <3>1
    <3> QED
      BY <3>1, <3>2, <3>3, Zenon
  <2> HIDE DEF e
  <2>3. ASSUME NEW i \in 1..Len(d)
        PROVE  d[i] = e[i]
    <3>1. k + i \in 1..(Len(s) + Len(t)) /\ i \in 1..(Len(s) + Len(t) - k)
          /\ i \in 1..(Len(s) - k + Len(t))
      BY <1>1, <1>3, <1>4
    <3>2. d[i] = IF k + i <= Len(s) THEN s[k + i] ELSE t[k + i - Len(s)]
      BY <1>2, <1>3, <3>1
    <3>3. e[i] = IF i <= Len(s) - k THEN s[k + i] ELSE t[i - (Len(s) - k)]
      <4>1. e[i] = IF i <= Len(s) - k THEN Drop(s, k)[i] ELSE t[i - (Len(s) - k)]
        BY <2>2, <3>1, Zenon
      <4>2. i <= Len(s) - k => i \in 1..(Len(s) - k)
        BY <1>1, <3>1
      <4>3. i <= Len(s) - k => Drop(s, k)[i] = s[k + i]
        BY <2>1, <4>2, Zenon
      <4> QED
        BY <4>1, <4>3, Zenon
    <3>4. (k + i <= Len(s) <=> i <= Len(s) - k) /\ k + i - Len(s) = i - (Len(s) - k)
      BY <1>1, <3>1
    <3> QED
      BY <3>2, <3>3, <3>4
  <2>4. Len(d) = Len(e)
    BY <1>1, <1>3, <2>2
  <2>5. d = e
    BY <1>3, <2>2, <2>3, <2>4, SeqEqual
  <2> QED
    BY <2>5 DEF e
<1>5. ASSUME k >= Len(s)
      PROVE  d = Drop(t, k - Len(s))
  <2> DEFINE e == Drop(t, k - Len(s))
  <2>1. /\ e \in Seq(Byte) /\ Len(e) = Len(t) - (k - Len(s))
        /\ \A i \in 1..(Len(t) - (k - Len(s))) : e[i] = t[k - Len(s) + i]
    <3>1. k - Len(s) \in Nat /\ k - Len(s) <= Len(t)
      BY <1>1, <1>5
    <3> QED
      BY <3>1, DropFacts
  <2> HIDE DEF e
  <2>2. ASSUME NEW i \in 1..Len(d)
        PROVE  d[i] = e[i]
    <3>1. k + i \in 1..(Len(s) + Len(t)) /\ i \in 1..(Len(s) + Len(t) - k)
          /\ i \in 1..(Len(t) - (k - Len(s))) /\ ~(k + i <= Len(s))
          /\ k + i - Len(s) = k - Len(s) + i
      BY <1>1, <1>3, <1>5
    <3> QED
      BY <1>2, <1>3, <2>1, <3>1
  <2>3. Len(d) = Len(e)
    BY <1>1, <1>3, <2>1
  <2>4. d = e
    BY <1>3, <2>1, <2>2, <2>3, SeqEqual
  <2> QED
    BY <2>4 DEF e
<1> QED
  BY <1>4, <1>5 DEF d

LEMMA BytesOfFirst ==
    ASSUME NEW r \in Chain, NEW x \in Seq(Byte)
    PROVE  <<x>> \o r \in Chain /\ Bytes(<<x>> \o r) = x \o Bytes(r)
<1>1. <<x>> \in Chain
  BY DEF Chain
<1>2. PICK q \in Chain : q = <<x>> \o r
  BY <1>1, ConcatProperties DEF Chain
<1>3. /\ Len(q) = 1 + Len(r) /\ q[1] = x /\ Len(r) \in Nat
      /\ \A i \in 1..Len(r) : q[i + 1] = r[i]
  <2>1. Len(r) \in Nat /\ Len(<<x>>) = 1 /\ <<x>>[1] = x
    BY LenProperties DEF Chain
  <2>2. /\ Len(q) = Len(<<x>>) + Len(r)
        /\ \A i \in 1..(Len(<<x>>) + Len(r)) :
             q[i] = IF i <= Len(<<x>>) THEN <<x>>[i] ELSE r[i - Len(<<x>>)]
    BY <1>1, <1>2, ConcatProperties DEF Chain
  <2> QED
    BY <2>1, <2>2
<1>4. q # <<>>
  BY <1>3
<1>5. Head(q) = x
  BY <1>3, <1>4 DEF Chain
<1>6. Tail(q) = r
  <2>1. /\ Tail(q) \in Seq(Seq(Byte)) /\ Len(Tail(q)) = Len(q) - 1
        /\ \A i \in 1..Len(Tail(q)) : Tail(q)[i] = q[i + 1]
    BY <1>4, HeadTailProperties DEF Chain
  <2>2. Len(Tail(q)) = Len(r) /\ \A i \in 1..Len(Tail(q)) : Tail(q)[i] = r[i]
    BY <1>3, <2>1
  <2> QED
    BY <2>1, <2>2, SeqEqual DEF Chain
<1>7. Bytes(q) = Head(q) \o Bytes(Tail(q))
  BY <1>4, BytesSplit DEF Chain
<1> QED
  BY <1>2, <1>5, <1>6, <1>7

\* What is still to be deleted, of which chain.
Deletion == {r \in [blocks : Chain, count : Nat] : r.count <= Len(Bytes(r.blocks))}

Left(r) == Drop(Bytes(r.blocks), r.count)

\* A round leaves the same bytes, with less to delete or a block less.
LEMMA RoundKeeps ==
    ASSUME NEW r \in Deletion
    PROVE  LET d == DeleteFirst(r.blocks, r.count) IN
           /\ d \in Deletion /\ Left(d) = Left(r)
           /\ d.count = 0 \/ Len(d.blocks) = Len(r.blocks) - 1
<1> DEFINE q == r.blocks
           count == r.count
           d == DeleteFirst(q, count)
<1>0. q \in Chain /\ count \in Nat /\ Bytes(q) \in Seq(Byte) /\ count <= Len(Bytes(q))
  BY BytesExist DEF Deletion, Chain
<1> HIDE DEF q, count
<1>1. CASE count = 0
  <2>1. d = [blocks |-> q, count |-> 0]
    BY <1>1 DEF DeleteFirst
  <2>2. 0 \in Nat /\ 0 <= Len(Bytes(q))
    BY <1>0, <1>1
  <2>3. d \in Deletion /\ d.count = 0 /\ d.blocks = q
    BY <1>0, <2>1, <2>2 DEF Deletion
  <2>4. Left(d) = Left(r)
    BY <1>1, <2>3 DEF Left, q, count
  <2> QED
    BY <2>3, <2>4 DEF q, count
<1>2. CASE count # 0
  <2> DEFINE first == Head(q)
             rest == Tail(q)
  <2>1. q # <<>>
    <3>1. Len(<<>>) = 0
      BY EmptySeq
    <3>2. ASSUME q = <<>> PROVE FALSE
      BY <1>0, <1>2, <3>1, <3>2, BytesOfNone
    <3> QED
      BY <3>2
  <2>2. first \in Seq(Byte) /\ rest \in Chain /\ Len(rest) = Len(q) - 1
    BY <1>0, <2>1, HeadTailProperties DEF Chain
  <2>3. Bytes(q) = first \o Bytes(rest) /\ Bytes(rest) \in Seq(Byte)
    BY <1>0, <2>1, <2>2, BytesSplit, BytesExist DEF Chain
  <2> HIDE DEF first, rest
  <2>4. /\ Len(first) \in Nat /\ Len(Bytes(rest)) \in Nat
        /\ Len(Bytes(q)) = Len(first) + Len(Bytes(rest))
    BY <2>2, <2>3, LenProperties, ConcatProperties
  <2>5. /\ count <= Len(first) => Drop(Bytes(q), count) = Drop(first, count) \o Bytes(rest)
        /\ count >= Len(first) => Drop(Bytes(q), count) = Drop(Bytes(rest), count - Len(first))
    <3>1. PICK s, t \in Seq(Byte) : s = first /\ t = Bytes(rest)
      BY <2>2, <2>3
    <3>2. count <= Len(s) + Len(t)
      BY <1>0, <2>4, <3>1
    <3>3. /\ count <= Len(s) => Drop(s \o t, count) = Drop(s, count) \o t
          /\ count >= Len(s) => Drop(s \o t, count) = Drop(t, count - Len(s))
      BY <1>0, <3>2, DropOfConcat
    <3> QED
      BY <2>3, <3>1, <3>3
  <2>6. CASE count < Len(first)
    <3>1. Drop(first, count) \in Seq(Byte)
      BY <1>0, <2>2, <2>4, <2>6, DropFacts
    <3>2. PICK c \in Chain : /\ c = <<Drop(first, count)>> \o rest
                             /\ Bytes(c) = Drop(first, count) \o Bytes(rest)
      BY <2>2, <3>1, BytesOfFirst
    <3>3. d = [blocks |-> c, count |-> 0]
      BY <1>2, <2>6, <3>2 DEF DeleteFirst, Drop, first, rest
    <3>4. Bytes(c) = Drop(Bytes(q), count)
      <4>1. count <= Len(first)
        BY <1>0, <2>4, <2>6
      <4>2. Drop(Bytes(q), count) = Drop(first, count) \o Bytes(rest)
        BY <2>5, <4>1
      <4> QED
        BY <3>2, <4>2, Zenon
    <3>5. d.count = 0 /\ d.blocks \in Chain /\ Bytes(d.blocks) = Drop(Bytes(q), count)
      BY <3>2, <3>3, <3>4
    <3>6. Bytes(d.blocks) \in Seq(Byte)
      BY <3>5, BytesExist DEF Chain
    <3>7. Len(Bytes(d.blocks)) \in Nat
      BY <3>6, LenProperties
    <3>8. d \in Deletion
      <4>1. d \in [blocks : Chain, count : Nat]
        BY <3>2, <3>3
      <4> HIDE DEF d
      <4> QED
        BY <3>5, <3>7, <4>1 DEF Deletion
    <3>9. Left(d) = Bytes(d.blocks)
      BY <3>5, <3>6, DropNothing DEF Left
    <3> QED
      BY <3>5, <3>8, <3>9 DEF Left, q, count
  <2>7. CASE count >= Len(first)
    <3>1. ~(count < Len(first))
      BY <1>0, <2>4, <2>7
    <3>2. d = [blocks |-> rest, count |-> count - Len(first)]
      BY <1>2, <3>1 DEF DeleteFirst, first, rest
    <3>3. count - Len(first) \in Nat /\ count - Len(first) <= Len(Bytes(rest))
      BY <1>0, <2>4, <2>7
    <3>4. d \in Deletion
      BY <2>2, <3>2, <3>3 DEF Deletion
    <3>5. Left(d) = Left(r)
      BY <2>5, <2>7, <3>2 DEF Left, q, count
    <3> QED
      BY <2>2, <3>2, <3>4, <3>5 DEF q, count
  <2> QED
    BY <1>0, <2>4, <2>6, <2>7
<1> QED
  BY <1>0, <1>1, <1>2 DEF q, count

LEMMA DbufDeleteKeeps ==
    ASSUME NEW q \in Chain, NEW count \in Nat, count <= Len(Bytes(q))
    PROVE  DbufDelete(q, count) \in Chain /\ Bytes(DbufDelete(q, count)) = Drop(Bytes(q), count)
<1> DEFINE N == Len(q)
           start == [blocks |-> q, count |-> count]
           G == [i \in 1..N |-> [r \in Deletion |-> DeleteFirst(r.blocks, r.count)]]
           Loop(h) == [i \in 0..N |-> IF i = 0 THEN [blocks |-> q, count |-> count]
                                      ELSE DeleteFirst(h[i - 1].blocks, h[i - 1].count)]
           steps == CHOOSE h : h = Loop(h)
<1>1. N \in Nat /\ start \in Deletion
  BY LenProperties DEF Deletion, Chain
<1>2. PICK f : IsRun(f, N, Deletion, start, G)
  <2>1. G \in [1..N -> [Deletion -> Deletion]]
    BY RoundKeeps
  <2> HIDE DEF G, N, start
  <2> QED
    BY <1>1, <2>1, LoopExists
<1>3. f = Loop(f)
  <2>1. \A i \in 1..N : i - 1 \in 0..N
    BY <1>1
  <2>2. \A i \in 1..N : f[i] = DeleteFirst(f[i - 1].blocks, f[i - 1].count)
    BY <1>2, <2>1 DEF IsRun
  <2>3. \A i \in 0..N : i # 0 => i \in 1..N
    BY <1>1
  <2> HIDE DEF N, G
  <2> QED
    BY <1>2, <2>2, <2>3 DEF IsRun
<1>4. steps = Loop(steps)
  BY <1>3
<1>5. DbufDelete(q, count) = steps[N].blocks
  BY DEF DbufDelete
<1> HIDE DEF steps, G
<1> DEFINE S == {n \in 0..N : /\ steps[n] \in Deletion /\ Left(steps[n]) = Drop(Bytes(q), count)
                              /\ steps[n].count = 0 \/ Len(steps[n].blocks) = N - n}
<1>6. 0 \in S
  <2>1. 0 \in 0..N /\ steps[0] = start
    BY <1>1, <1>4
  <2>2. start.blocks = q /\ start.count = count
    OBVIOUS
  <2> HIDE DEF start
  <2> QED
    BY <1>1, <2>1, <2>2 DEF Left
<1>7. ASSUME NEW n \in 1..N, n - 1 \in S
      PROVE  n \in S
  <2> DEFINE r == steps[n - 1]
  <2>1. n \in 0..N /\ n # 0
    BY <1>1
  <2>2. steps[n] = DeleteFirst(r.blocks, r.count)
    BY <1>4, <2>1
  <2>3. /\ r \in Deletion /\ Left(r) = Drop(Bytes(q), count)
        /\ r.count = 0 \/ Len(r.blocks) = N - (n - 1)
    BY <1>7
  <2> HIDE DEF r
  <2>4. /\ steps[n] \in Deletion /\ Left(steps[n]) = Drop(Bytes(q), count)
        /\ steps[n].count = 0 \/ Len(steps[n].blocks) = Len(r.blocks) - 1
    BY <2>2, <2>3, RoundKeeps
  <2>5. r.count = 0 => steps[n].count = 0
    BY <2>2 DEF DeleteFirst
  <2>6. steps[n].count = 0 \/ Len(steps[n].blocks) = N - n
    BY <1>1, <2>3, <2>4, <2>5, SMTT(30)
  <2> QED
    BY <2>1, <2>4, <2>6
<1> HIDE DEF S
<1>8. \A n \in 0..N : n \in S
  BY <1>1, <1>6, <1>7, BoundedInduction
<1>9. /\ steps[N] \in Deletion /\ Left(steps[N]) = Drop(Bytes(q), count)
      /\ steps[N].count = 0 \/ Len(steps[N].blocks) = 0
  <2>1. N \in S
    BY <1>1, <1>8
  <2> QED
    BY <1>1, <2>1 DEF S
<1> DEFINE end == steps[N]
<1>10. end \in Deletion /\ end.blocks \in Chain /\ Bytes(end.blocks) \in Seq(Byte)
  BY <1>9, BytesExist DEF Deletion, Chain
<1>11. end.count = 0
  <2>1. ASSUME Len(end.blocks) = 0
        PROVE  end.count = 0
    <3>1. end.blocks = <<>>
      BY <1>10, <2>1, EmptySeq DEF Chain
    <3>2. Len(Bytes(end.blocks)) = 0
      BY <3>1, BytesOfNone
    <3> QED
      BY <1>10, <3>2 DEF Deletion
  <2> QED
    BY <1>9, <2>1
<1>12. Left(end) = Bytes(end.blocks)
  BY <1>10, <1>11, DropNothing DEF Left
<1> QED
  BY <1>5, <1>9, <1>10, <1>12

-----------------------------------------------------------------------------
(* Lines of a stream, byte by byte.                                         *)

Pre(s, n) == SubSeq(s, 1, n)

LEMMA PreFacts ==
    ASSUME NEW s \in Seq(Byte), NEW n \in 0..Len(s)
    PROVE  /\ Pre(s, n) \in Seq(Byte) /\ Len(Pre(s, n)) = n
           /\ n = 0 => Pre(s, n) = <<>>
           /\ n # 0 => Pre(s, n) = Append(Pre(s, n - 1), s[n]) /\ s[n] \in Byte
           /\ n = Len(s) => Pre(s, n) = s
<1>1. Len(s) \in Nat /\ n \in Nat /\ \A i \in 1..Len(s) : s[i] \in Byte
  BY LenProperties, ElementOfSeq
<1>2. ASSUME NEW m \in 0..Len(s)
      PROVE  Pre(s, m) \in Seq(Byte) /\ Len(Pre(s, m)) = m
  <2>1. m \in Int /\ \A i \in 1..m : s[i] \in Byte
    BY <1>1
  <2>2. Pre(s, m) \in Seq(Byte) /\ Len(Pre(s, m)) = IF 1 <= m THEN m - 1 + 1 ELSE 0
    BY <2>1, SubSeqProperties DEF Pre
  <2> QED
    BY <1>1, <2>2
<1>3. n = 0 => Pre(s, n) = <<>>
  BY SubSeqEmpty DEF Pre
<1>4. ASSUME n # 0
      PROVE  Pre(s, n) = Append(Pre(s, n - 1), s[n]) /\ s[n] \in Byte
  <2>1. 1 \in 1..Len(s) /\ n \in 1..Len(s) /\ n - 1 \in 0..Len(s)
    BY <1>1, <1>4
  <2>2. Pre(s, n) = Pre(s, n - 1) \o <<s[n]>>
    BY <2>1, SubSeqRecursiveSecond DEF Pre
  <2>3. Pre(s, n - 1) \in Seq(Byte) /\ s[n] \in Byte
    BY <1>1, <1>2, <2>1
  <2>4. Append(Pre(s, n - 1), s[n]) = Pre(s, n - 1) \o <<s[n]>>
    BY <2>3, AppendIsConcat
  <2> QED
    BY <2>2, <2>3, <2>4
<1>5. n = Len(s) => Pre(s, n) = s
  BY SubSeqFull DEF Pre
<1> QED
  BY <1>2, <1>3, <1>4, <1>5

LEMMA PreAndDrop ==
    ASSUME NEW s \in Seq(Byte), NEW k \in 0..Len(s)
    PROVE  Pre(s, k) \o Drop(s, k) = s
<1>1. Len(s) \in Nat
  BY LenProperties
<1>2. 1 \in 1..Len(s) + 1 /\ k \in 1 - 1..Len(s) /\ Len(s) \in k..Len(s)
  BY <1>1
<1>3. SubSeq(s, 1, k) \o SubSeq(s, k + 1, Len(s)) = SubSeq(s, 1, Len(s))
  BY <1>2, ConcatAdjacentSubSeq
<1> QED
  BY <1>3, SubSeqFull DEF Pre, Drop

ReadState == [lines : Seq(Seq(Byte)), line : Seq(Byte)]

LEMMA ReadKeeps ==
    ASSUME NEW s \in ReadState, NEW b \in Byte
    PROVE  Read(s, b) \in ReadState
<1>1. s.lines \in Seq(Seq(Byte)) /\ s.line \in Seq(Byte) /\ <<>> \in Seq(Byte)
  BY EmptySeq DEF ReadState
<1>2. Append(s.lines, s.line) \in Seq(Seq(Byte)) /\ Append(s.line, b) \in Seq(Byte)
  BY <1>1, AppendProperties
<1> QED
  BY <1>1, <1>2 DEF Read, ReadState

LEMMA NoLineIsState == NoLine \in ReadState
BY EmptySeq DEF NoLine, ReadState

\* f goes through the bytes of x and reads lines.
Reads(f, x) ==
    /\ f \in [0..Len(x) -> ReadState] /\ f[0] = NoLine
    /\ \A i \in 1..Len(x) : f[i] = Read(f[i - 1], x[i])

LEMMA ReadExists ==
    ASSUME NEW x \in Seq(Byte)
    PROVE  \E f : Reads(f, x)
<1> DEFINE N == Len(x)
           G == [i \in 1..N |-> [s \in ReadState |-> Read(s, x[i])]]
<1>1. N \in Nat /\ \A i \in 1..N : x[i] \in Byte
  BY LenProperties, ElementOfSeq
<1>2. G \in [1..N -> [ReadState -> ReadState]]
  BY <1>1, ReadKeeps
<1>3. PICK f : IsRun(f, N, ReadState, NoLine, G)
  <2> HIDE DEF G, N
  <2> QED
    BY <1>1, <1>2, NoLineIsState, LoopExists
<1>4. \A i \in 1..N : f[i - 1] \in ReadState
  <2>1. \A i \in 1..N : i - 1 \in 0..N
    BY <1>1
  <2> QED
    BY <1>3, <2>1 DEF IsRun
<1>5. Reads(f, x)
  BY <1>3, <1>4 DEF IsRun, Reads
<1> QED
  BY <1>5

LEMMA AllReadIs ==
    ASSUME NEW x \in Seq(Byte), NEW f, Reads(f, x)
    PROVE  AllRead(x) = f[Len(x)] /\ AllRead(x) \in ReadState
<1> DEFINE N == Len(x)
           Loop(h) == [i \in 0..N |-> IF i = 0 THEN NoLine ELSE Read(h[i - 1], x[i])]
           g == CHOOSE h : h = Loop(h)
<1>1. N \in Nat /\ N \in 0..N /\ \A i \in 0..N : i # 0 => i \in 1..N
  BY LenProperties
<1>2. f = Loop(f)
  BY <1>1 DEF Reads
<1>3. g = Loop(g)
  BY <1>2
<1>4. AllRead(x) = g[N]
  BY DEF AllRead
<1> HIDE DEF g
<1> DEFINE S == {n \in 0..N : g[n] = f[n]}
<1>5. 0 \in S
  BY <1>1, <1>3 DEF Reads
<1>6. ASSUME NEW n \in 1..N, n - 1 \in S
      PROVE  n \in S
  <2>1. n \in 0..N /\ n # 0
    BY <1>1
  <2>2. g[n] = Read(g[n - 1], x[n])
    BY <1>3, <2>1
  <2> QED
    BY <1>6, <2>1, <2>2 DEF Reads
<1> HIDE DEF S
<1>7. \A n \in 0..N : n \in S
  BY <1>1, <1>5, <1>6, BoundedInduction
<1>8. g[N] = f[N]
  BY <1>1, <1>7 DEF S
<1> QED
  BY <1>1, <1>4, <1>8 DEF Reads

LEMMA AllReadType ==
    ASSUME NEW x \in Seq(Byte)
    PROVE  AllRead(x) \in ReadState
BY ReadExists, AllReadIs

LEMMA NothingRead == AllRead(<<>>) = NoLine
<1>1. <<>> \in Seq(Byte) /\ Len(<<>>) = 0
  BY EmptySeq
<1>2. PICK f : Reads(f, <<>>)
  BY <1>1, ReadExists
<1> QED
  BY <1>1, <1>2, AllReadIs DEF Reads

LEMMA ReadAppended ==
    ASSUME NEW x \in Seq(Byte), NEW b \in Byte
    PROVE  AllRead(Append(x, b)) = Read(AllRead(x), b)
<1> DEFINE N == Len(x)
<1>1. PICK f : Reads(f, x)
  BY ReadExists
<1>2. PICK y \in Seq(Byte) : y = Append(x, b)
  BY AppendProperties
<1>3. N \in Nat /\ Len(y) = N + 1 /\ y[N + 1] = b /\ \A i \in 1..N : y[i] = x[i]
  BY <1>2, LenProperties, AppendProperties
<1> DEFINE g == [i \in 0..(N + 1) |-> IF i <= N THEN f[i] ELSE Read(f[N], b)]
<1>4. Read(f[N], b) \in ReadState /\ \A i \in 0..N : f[i] \in ReadState
  <2>1. N \in 0..N
    BY <1>3
  <2>2. \A i \in 0..N : f[i] \in ReadState
    BY <1>1 DEF Reads
  <2> QED
    BY <2>1, <2>2, ReadKeeps
<1>5. g \in [0..Len(y) -> ReadState] /\ g[0] = NoLine
  BY <1>1, <1>3, <1>4 DEF Reads
<1>6. ASSUME NEW i \in 1..Len(y)
      PROVE  g[i] = Read(g[i - 1], y[i])
  <2>1. CASE i = N + 1
    <3>1. g[i] = Read(f[N], b) /\ g[i - 1] = f[N]
      BY <1>3, <2>1
    <3> QED
      BY <1>3, <2>1, <3>1
  <2>2. CASE i # N + 1
    <3>1. i \in 1..N /\ i - 1 \in 0..N /\ i \in 0..N + 1 /\ i - 1 \in 0..N + 1
      BY <1>3, <2>2
    <3>2. g[i] = f[i] /\ g[i - 1] = f[i - 1]
      BY <1>3, <3>1
    <3> QED
      BY <1>1, <1>3, <3>1, <3>2 DEF Reads
  <2> QED
    BY <2>1, <2>2
<1>7. Reads(g, y)
  <2> HIDE DEF g
  <2> QED
    BY <1>5, <1>6 DEF Reads
<1>8. AllRead(x) = f[N]
  BY <1>1, AllReadIs
<1>9. AllRead(y) = g[N + 1]
  <2> HIDE DEF g
  <2> QED
    BY <1>3, <1>7, AllReadIs
<1>10. g[N + 1] = Read(f[N], b)
  BY <1>3
<1> QED
  BY <1>2, <1>8, <1>9, <1>10

-----------------------------------------------------------------------------
(* Reading on.                                                              *)

\* t is s with the lines `gone` before its own.
Continues(gone, s, t) == t.line = s.line /\ t.lines = gone \o s.lines

LEMMA ReadContinues ==
    ASSUME NEW gone \in Chain, NEW s \in ReadState, NEW t \in ReadState, NEW b \in Byte,
           Continues(gone, s, t)
    PROVE  Continues(gone, Read(s, b), Read(t, b))
<1>1. s.lines \in Seq(Seq(Byte)) /\ s.line \in Seq(Byte) /\ gone \in Seq(Seq(Byte))
  BY DEF ReadState, Chain
<1>2. gone \o Append(s.lines, s.line) = Append(gone \o s.lines, s.line)
  BY <1>1, ConcatAppended, SMTT(30)
<1>3. CASE b = "eol" /\ s.line # <<>>
  <2>1. PICK ls : ls = Append(s.lines, s.line) /\ Read(s, b) = [lines |-> ls, line |-> <<>>]
    BY <1>3 DEF Read
  <2>2. PICK lt : lt = Append(t.lines, s.line) /\ Read(t, b) = [lines |-> lt, line |-> <<>>]
    BY <1>3 DEF Read, Continues
  <2>3. lt = gone \o ls
    BY <1>2, <2>1, <2>2 DEF Continues
  <2>4. Read(s, b).lines = ls /\ Read(t, b).lines = lt /\ Read(s, b).line = Read(t, b).line
    BY <2>1, <2>2
  <2> QED
    BY <2>3, <2>4, Zenon DEF Continues
<1>4. CASE b \in {"eol", "space"} /\ s.line = <<>>
  <2>1. Read(s, b) = s /\ Read(t, b) = t
    BY <1>4 DEF Read, Continues
  <2> QED
    BY <2>1
<1>5. CASE b # "eol" /\ ~(b = "space" /\ s.line = <<>>)
  <2> DEFINE line == IF Len(s.line) < MaxLine THEN Append(s.line, b) ELSE s.line
  <2>1. Read(s, b) = [s EXCEPT !.line = line] /\ Read(t, b) = [t EXCEPT !.line = line]
    BY <1>5 DEF Read, Continues
  <2> HIDE DEF line
  <2> QED
    BY <2>1 DEF Continues, ReadState
<1> QED
  BY <1>3, <1>4, <1>5

LEMMA ReadOn ==
    ASSUME NEW gone \in Chain, NEW x \in Seq(Byte), NEW y \in Seq(Byte), NEW data \in Seq(Byte),
           Continues(gone, AllRead(x), AllRead(y))
    PROVE  Continues(gone, AllRead(x \o data), AllRead(y \o data))
<1> DEFINE N == Len(data)
           S == {n \in 0..N : Continues(gone, AllRead(x \o Pre(data, n)), AllRead(y \o Pre(data, n)))}
<1>1. N \in Nat
  BY LenProperties
<1>2. ASSUME NEW z \in Seq(Byte), NEW n \in 1..N
      PROVE  /\ z \o Pre(data, n - 1) \in Seq(Byte) /\ data[n] \in Byte
             /\ z \o Pre(data, n) = Append(z \o Pre(data, n - 1), data[n])
  <2>1. n \in 0..Len(data) /\ n - 1 \in 0..Len(data) /\ n # 0
    BY <1>1
  <2>2. /\ Pre(data, n - 1) \in Seq(Byte) /\ data[n] \in Byte
        /\ Pre(data, n) = Append(Pre(data, n - 1), data[n])
    BY <2>1, PreFacts
  <2> QED
    BY <2>2, ConcatAppended
<1>3. 0 \in S
  <2>1. 0 \in 0..N /\ Pre(data, 0) = <<>>
    BY <1>1, PreFacts
  <2>2. x \o <<>> = x /\ y \o <<>> = y
    BY Concatenation
  <2> QED
    BY <2>1, <2>2
<1>4. ASSUME NEW n \in 1..N, n - 1 \in S
      PROVE  n \in S
  <2>1. PICK u, v \in Seq(Byte) : u = x \o Pre(data, n - 1) /\ v = y \o Pre(data, n - 1)
    BY <1>2
  <2>2. data[n] \in Byte /\ x \o Pre(data, n) = Append(u, data[n])
        /\ y \o Pre(data, n) = Append(v, data[n])
    BY <1>2, <2>1
  <2>3. Continues(gone, AllRead(u), AllRead(v))
    BY <1>4, <2>1
  <2>4. AllRead(u) \in ReadState /\ AllRead(v) \in ReadState
    BY AllReadType
  <2>5. Continues(gone, Read(AllRead(u), data[n]), Read(AllRead(v), data[n]))
    BY <2>2, <2>3, <2>4, ReadContinues
  <2>6. /\ AllRead(Append(u, data[n])) = Read(AllRead(u), data[n])
        /\ AllRead(Append(v, data[n])) = Read(AllRead(v), data[n])
    BY <2>2, ReadAppended
  <2>7. n \in 0..N
    BY <1>1
  <2> QED
    BY <2>2, <2>5, <2>6, <2>7
<1> HIDE DEF S
<1>5. \A n \in 0..N : n \in S
  BY <1>1, <1>3, <1>4, BoundedInduction
<1>6. N \in S /\ Pre(data, N) = data
  BY <1>1, <1>5, PreFacts
<1> QED
  BY <1>6 DEF S

\* Once whole lines are taken, what is left is read as if it came first.
LEMMA ReadRest ==
    ASSUME NEW gone \in Chain, NEW x \in Seq(Byte), NEW k \in 0..Len(x),
           AllRead(Pre(x, k)) = [lines |-> gone, line |-> <<>>]
    PROVE  Continues(gone, AllRead(Drop(x, k)), AllRead(x))
<1>1. Len(x) \in Nat
  BY LenProperties
<1>2. PICK p, rest \in Seq(Byte) : p = Pre(x, k) /\ rest = Drop(x, k)
  BY <1>1, PreFacts, DropFacts
<1>3. Continues(gone, AllRead(<<>>), AllRead(p))
  <2>1. gone \o <<>> = gone
    BY ConcatEmptySeq DEF Chain
  <2>2. AllRead(<<>>).lines = <<>> /\ AllRead(<<>>).line = <<>>
    BY NothingRead DEF NoLine
  <2>3. AllRead(p).lines = gone /\ AllRead(p).line = <<>>
    BY <1>2
  <2> QED
    BY <2>1, <2>2, <2>3 DEF Continues
<1>4. <<>> \in Seq(Byte) /\ <<>> \o rest = rest
  BY EmptySeq, Concatenation
<1>5. Continues(gone, AllRead(<<>> \o rest), AllRead(p \o rest))
  BY <1>3, <1>4, ReadOn
<1>6. p \o rest = x
  BY <1>2, PreAndDrop
<1> QED
  BY <1>2, <1>4, <1>5, <1>6

-----------------------------------------------------------------------------
(* extract_one_line                                                         *)

ScanState ==
    [phase : 0..3, line : Seq(Byte), size : Nat, empty : Nat]

\* What a scan has of a line it is in: its bytes, cut at MaxLine.
Cut(s) ==
    /\ s.line # <<>>
    /\ Len(s.line) = IF s.size < MaxLine THEN s.size ELSE MaxLine

\* What the scan s has made of the first i bytes of x.
Scanned(s, x, i) ==
    /\ s \in ScanState
    /\ s.size + s.empty <= i
    /\ s.phase # 3 => s.size + s.empty = i
    /\ s.phase = 0 => s.size = 0 /\ s.line = <<>> /\ AllRead(Pre(x, i)) = NoLine
    /\ s.phase = 1 => /\ Cut(s)
                      /\ AllRead(Pre(x, s.empty)) = NoLine
                      /\ AllRead(Pre(x, i)) = [lines |-> <<>>, line |-> s.line]
    /\ s.phase \in {2, 3} =>
         AllRead(Pre(x, s.size + s.empty)) = [lines |-> <<s.line>>, line |-> <<>>]

LEMMA LineCut ==
    ASSUME NEW line \in Seq(Byte), NEW b \in Byte
    PROVE  /\ Append(line, b) \in Seq(Byte) /\ Append(line, b) # <<>>
           /\ Len(Append(line, b)) = Len(line) + 1 /\ Len(line) \in Nat
           /\ Len(<<>>) = 0 /\ MaxLine \in Nat \ {0}
BY AppendProperties, LenProperties, EmptySeq, DbufAssumption

\* A byte is empty, begins the next line, or belongs to the line.
LEMMA ScanByteIs ==
    ASSUME NEW s \in ScanState, NEW c \in Byte, s.phase # 3
    PROVE  LET t == ScanByte(s, c)
               isEmpty == c = "eol" \/ (c = "space" /\ s.phase # 1)
           IN /\ t \in ScanState
              /\ isEmpty => /\ t.phase = (IF s.phase = 1 THEN 2 ELSE s.phase)
                            /\ t.empty = s.empty + 1 /\ t.size = s.size /\ t.line = s.line
              /\ ~isEmpty /\ s.phase = 2 =>
                            /\ t.phase = 3
                            /\ t.empty = s.empty /\ t.size = s.size /\ t.line = s.line
              /\ ~isEmpty /\ s.phase # 2 =>
                            /\ t.phase = 1
                            /\ t.empty = s.empty /\ t.size = s.size + 1
                            /\ t.line = IF s.size < MaxLine THEN Append(s.line, c) ELSE s.line
<1> DEFINE t == ScanByte(s, c)
           isEmpty == c = "eol" \/ (c = "space" /\ s.phase # 1)
           phase == IF s.phase = 1 THEN 2 ELSE s.phase
           line == IF s.size < MaxLine THEN Append(s.line, c) ELSE s.line
<1>1. /\ s.phase \in 0..3 /\ s.line \in Seq(Byte) /\ s.size \in Nat /\ s.empty \in Nat
      /\ phase \in 0..3 /\ s.empty + 1 \in Nat /\ s.size + 1 \in Nat
  BY DEF ScanState
<1>2. line \in Seq(Byte)
  BY <1>1, LineCut
<1>3. CASE isEmpty
  <2>1. t = [s EXCEPT !.empty = s.empty + 1, !.phase = phase]
    BY <1>3 DEF ScanByte
  <2> HIDE DEF t, isEmpty, phase, line
  <2>2. /\ t \in ScanState /\ t.phase = phase
        /\ t.empty = s.empty + 1 /\ t.size = s.size /\ t.line = s.line
    BY <1>1, <2>1 DEF ScanState
  <2> QED
    BY <1>3, <2>2 DEF t, isEmpty, phase
<1>4. CASE ~isEmpty /\ s.phase = 2
  <2>1. t = [s EXCEPT !.phase = 3]
    BY <1>4 DEF ScanByte
  <2> HIDE DEF t, isEmpty, phase, line
  <2>2. /\ t \in ScanState /\ t.phase = 3
        /\ t.empty = s.empty /\ t.size = s.size /\ t.line = s.line
    BY <1>1, <2>1 DEF ScanState
  <2> QED
    BY <1>4, <2>2 DEF t, isEmpty
<1>5. CASE ~isEmpty /\ s.phase # 2
  <2>1. t = [s EXCEPT !.phase = 1, !.size = s.size + 1, !.line = line]
    BY <1>5 DEF ScanByte
  <2> HIDE DEF t, isEmpty, phase, line
  <2>2. t \in ScanState
    <3>1. t = [phase |-> 1, line |-> line, size |-> s.size + 1, empty |-> s.empty]
      BY <2>1 DEF ScanState
    <3>2. 1 \in 0..3
      OBVIOUS
    <3> QED
      BY <1>1, <1>2, <3>1, <3>2, Zenon DEF ScanState
  <2>3. t.phase = 1 /\ t.empty = s.empty /\ t.size = s.size + 1 /\ t.line = line
    BY <2>1 DEF ScanState
  <2> QED
    BY <1>5, <2>2, <2>3 DEF t, isEmpty, line
<1> QED
  BY <1>3, <1>4, <1>5

LEMMA ByteScanned ==
    ASSUME NEW x \in Seq(Byte), NEW i \in 1..Len(x), NEW s, Scanned(s, x, i - 1)
    PROVE  Scanned(ScanByte(s, x[i]), x, i)
<1>0. PICK c, t : c = x[i] /\ t = ScanByte(s, c)
  OBVIOUS
<1>1. /\ i \in Nat /\ i # 0 /\ i - 1 \in Nat /\ i \in 0..Len(x) /\ i - 1 \in 0..Len(x)
  BY LenProperties
<1>2. c \in Byte /\ Pre(x, i) = Append(Pre(x, i - 1), c) /\ Pre(x, i - 1) \in Seq(Byte)
  BY <1>0, <1>1, PreFacts
<1>3. PICK before, after : /\ before = AllRead(Pre(x, i - 1)) /\ after = AllRead(Pre(x, i))
                           /\ after = Read(before, c)
  BY <1>2, ReadAppended
<1>4. /\ s \in ScanState
      /\ s.phase \in 0..3 /\ s.line \in Seq(Byte) /\ s.size \in Nat /\ s.empty \in Nat
      /\ s.size + s.empty <= i - 1
      /\ s.phase # 3 => s.size + s.empty = i - 1
  BY DEF Scanned, ScanState
<1>5. /\ s.phase = 0 => s.size = 0 /\ s.line = <<>> /\ before = NoLine
      /\ s.phase = 1 => Cut(s) /\ AllRead(Pre(x, s.empty)) = NoLine
                        /\ before = [lines |-> <<>>, line |-> s.line]
      /\ s.phase \in {2, 3} => AllRead(Pre(x, s.size + s.empty)) = [lines |-> <<s.line>>, line |-> <<>>]
  BY <1>3 DEF Scanned
<1>6. MaxLine \in Nat \ {0}
  BY DbufAssumption
<1>14. s.phase # 3 => s.size \in Nat /\ s.empty \in Nat /\ s.size + s.empty = i - 1
  BY <1>4
<1>7. CASE s.phase = 3
  <2>1. t = s
    BY <1>0, <1>4, <1>7 DEF ScanByte
  <2>2. s.size + s.empty <= i
    BY <1>1, <1>4
  <2>3. Scanned(s, x, i)
    BY <1>4, <1>5, <1>7, <2>1, <2>2 DEF Scanned
  <2> QED
    BY <1>0, <2>1, <2>3
<1>8. CASE s.phase = 0 /\ c \in {"eol", "space"}
  <2>1. /\ t \in ScanState /\ t.phase = 0
        /\ t.empty = s.empty + 1 /\ t.size = 0 /\ t.line = <<>>
    <3>1. /\ t \in ScanState /\ t.phase = 0
          /\ t.empty = s.empty + 1 /\ t.size = s.size /\ t.line = s.line
      BY <1>0, <1>2, <1>4, <1>8, ScanByteIs
    <3> QED
      BY <1>5, <1>8, <3>1
  <2>2. after = NoLine
    BY <1>3, <1>5, <1>8 DEF Read, NoLine
  <2>3. t.size + t.empty = i
    <3>1. s.size = 0 /\ s.empty \in Nat /\ s.size + s.empty = i - 1
      BY <1>5, <1>8, <1>14
    <3> QED
      BY <1>1, <2>1, <3>1
  <2>4. Scanned(t, x, i)
    BY <1>1, <1>3, <2>1, <2>2, <2>3 DEF Scanned
  <2> QED
    BY <1>0, <2>4
<1>9. CASE s.phase = 1 /\ c = "eol"
  <2>1. /\ t \in ScanState /\ t.phase = 2
        /\ t.empty = s.empty + 1 /\ t.size = s.size /\ t.line = s.line
    BY <1>0, <1>2, <1>4, <1>9, ScanByteIs, SMTT(30)
  <2>2. after = [lines |-> <<s.line>>, line |-> <<>>]
    <3>1. s.line # <<>> /\ before = [lines |-> <<>>, line |-> s.line]
      BY <1>5, <1>9 DEF Cut
    <3> QED
      BY <1>3, <1>9, <3>1 DEF Read
  <2>3. t.size + t.empty = i
    <3>1. s.size \in Nat /\ s.empty \in Nat /\ s.size + s.empty = i - 1
      BY <1>9, <1>14
    <3> QED
      BY <1>1, <2>1, <3>1
  <2>4. Scanned(t, x, i)
    <3>1. t.size + t.empty <= i /\ t.phase \in {2, 3} /\ t.phase # 0 /\ t.phase # 1
      BY <1>1, <2>1, <2>3
    <3>2. AllRead(Pre(x, t.size + t.empty)) = [lines |-> <<t.line>>, line |-> <<>>]
      BY <1>3, <2>1, <2>2, <2>3, Zenon
    <3> QED
      BY <2>1, <2>3, <3>1, <3>2, Zenon DEF Scanned
  <2> QED
    BY <1>0, <2>4
<1>10. CASE s.phase \in {0, 1} /\ c # "eol" /\ (s.phase = 1 \/ c # "space")
  <2>1. /\ t \in ScanState /\ t.phase = 1
        /\ t.empty = s.empty /\ t.size = s.size + 1
        /\ t.line = IF s.size < MaxLine THEN Append(s.line, c) ELSE s.line
    BY <1>0, <1>2, <1>4, <1>10, ScanByteIs
  <2>2. Len(s.line) = IF s.size < MaxLine THEN s.size ELSE MaxLine
    <3>1. CASE s.phase = 0
      <4>1. s.size = 0 /\ Len(s.line) = 0
        BY <1>2, <1>5, <3>1, LineCut
      <4> QED
        BY <1>6, <4>1
    <3>2. CASE s.phase = 1
      BY <1>5, <3>2 DEF Cut
    <3> QED
      BY <1>4, <1>10, <3>1, <3>2
  <2>3. Len(s.line) < MaxLine <=> s.size < MaxLine
    BY <1>4, <1>6, <2>2
  <2>4. Cut(t)
    <3>1. CASE s.size < MaxLine
      <4>1. t.line # <<>> /\ Len(t.line) = s.size + 1
        BY <1>2, <1>4, <2>1, <2>2, <3>1, LineCut
      <4>2. s.size + 1 = IF t.size < MaxLine THEN t.size ELSE MaxLine
        BY <1>4, <1>6, <2>1, <3>1
      <4> QED
        BY <4>1, <4>2 DEF Cut
    <3>2. CASE ~(s.size < MaxLine)
      <4>1. Len(t.line) = MaxLine /\ t.line = s.line
        BY <2>1, <2>2, <3>2
      <4>2. t.line # <<>>
        BY <1>2, <1>4, <1>6, <4>1, LineCut
      <4>3. ~(t.size < MaxLine)
        BY <1>4, <1>6, <2>1, <3>2
      <4> QED
        BY <4>1, <4>2, <4>3 DEF Cut
    <3> QED
      BY <3>1, <3>2
  <2>5. before = [lines |-> <<>>, line |-> s.line]
    BY <1>4, <1>5, <1>10 DEF NoLine
  <2>6. c = "space" => s.line # <<>>
    BY <1>5, <1>10 DEF Cut
  <2>7. after = [lines |-> <<>>, line |-> t.line]
    <3>1. after = [before EXCEPT !.line = IF Len(s.line) < MaxLine THEN Append(s.line, c)
                                         ELSE s.line]
      <4>1. before.line = s.line /\ c # "eol" /\ ~(c = "space" /\ before.line = <<>>)
        BY <1>10, <2>5, <2>6
      <4> QED
        BY <1>3, <4>1 DEF Read
    <3>2. after = [before EXCEPT !.line = t.line]
      BY <2>1, <2>3, <3>1
    <3> QED
      BY <2>5, <3>2
  <2>8. t.size + t.empty = i
    BY <1>1, <1>4, <1>10, <2>1, SMTT(30)
  <2>9. AllRead(Pre(x, t.empty)) = NoLine
    <3>1. CASE s.phase = 1
      BY <1>5, <2>1, <3>1
    <3>2. CASE s.phase = 0
      <4>1. s.empty = i - 1
        BY <1>1, <1>4, <1>5, <3>2
      <4> QED
        BY <1>3, <1>5, <2>1, <3>2, <4>1
    <3> QED
      BY <1>4, <1>10, <3>1, <3>2
  <2>10. Scanned(t, x, i)
    <3>1. t.size + t.empty <= i /\ t.phase # 0 /\ t.phase \notin {2, 3}
      BY <1>1, <2>1, <2>8
    <3>2. AllRead(Pre(x, i)) = [lines |-> <<>>, line |-> t.line]
      BY <1>3, <2>7
    <3> QED
      BY <2>1, <2>4, <2>8, <2>9, <3>1, <3>2, Zenon DEF Scanned
  <2> QED
    BY <1>0, <2>10
<1>11. CASE s.phase = 2 /\ c \in {"eol", "space"}
  <2>1. /\ t \in ScanState /\ t.phase = 2
        /\ t.empty = s.empty + 1 /\ t.size = s.size /\ t.line = s.line
    BY <1>0, <1>2, <1>4, <1>11, ScanByteIs
  <2>2. before = [lines |-> <<s.line>>, line |-> <<>>]
    BY <1>3, <1>4, <1>5, <1>11
  <2>3. after = before
    BY <1>3, <1>11, <2>2 DEF Read
  <2>4. t.size + t.empty = i
    <3>1. s.size \in Nat /\ s.empty \in Nat /\ s.size + s.empty = i - 1
      BY <1>11, <1>14
    <3> QED
      BY <1>1, <2>1, <3>1
  <2>5. Scanned(t, x, i)
    <3>1. t.size + t.empty <= i /\ t.phase \in {2, 3} /\ t.phase # 0 /\ t.phase # 1
      BY <1>1, <2>1, <2>4
    <3>2. AllRead(Pre(x, t.size + t.empty)) = [lines |-> <<t.line>>, line |-> <<>>]
      BY <1>3, <2>1, <2>2, <2>3, <2>4, Zenon
    <3> QED
      BY <2>1, <2>4, <3>1, <3>2, Zenon DEF Scanned
  <2> QED
    BY <1>0, <2>5
<1>12. CASE s.phase = 2 /\ c \notin {"eol", "space"}
  <2>1. /\ t \in ScanState /\ t.phase = 3
        /\ t.empty = s.empty /\ t.size = s.size /\ t.line = s.line
    BY <1>0, <1>2, <1>4, <1>12, ScanByteIs
  <2>2. t.size + t.empty <= i
    BY <1>1, <1>4, <2>1
  <2>3. Scanned(t, x, i)
    BY <1>5, <1>12, <2>1, <2>2 DEF Scanned
  <2> QED
    BY <1>0, <2>3
<1>13. s.phase = 0 \/ s.phase = 1 \/ s.phase = 2 \/ s.phase = 3
  BY <1>4
<1> QED
  BY <1>7, <1>8, <1>9, <1>10, <1>11, <1>12, <1>13

LEMMA NotScannedYet ==
    ASSUME NEW x \in Seq(Byte)
    PROVE  Scanned(NotScanned, x, 0)
<1>1. Pre(x, 0) = <<>>
  BY LenProperties, PreFacts
<1>2. NotScanned \in ScanState
  BY EmptySeq DEF NotScanned, ScanState
<1> QED
  BY <1>1, <1>2, NothingRead DEF Scanned, NotScanned

\* The scan ends before the bytes do, or with them: what it takes is whole lines,
\* one or none.
LEMMA ScanTakes ==
    ASSUME NEW x \in Seq(Byte)
    PROVE  LET scan == Scan(x)
               gone == IF scan.phase >= 2 THEN <<scan.line>> ELSE <<>>
           IN /\ scan.phase \in 0..3 /\ scan.line \in Seq(Byte)
              /\ Taken(scan) \in 0..Len(x)
              /\ AllRead(Pre(x, Taken(scan))) = [lines |-> gone, line |-> <<>>]
<1> DEFINE N == Len(x)
           G == [i \in 1..N |-> [s \in ScanState |-> ScanByte(s, x[i])]]
           Loop(h) == [i \in 0..N |-> IF i = 0 THEN NotScanned ELSE ScanByte(h[i - 1], x[i])]
           steps == CHOOSE h : h = Loop(h)
<1>1. N \in Nat /\ \A i \in 1..N : x[i] \in Byte
  BY LenProperties, ElementOfSeq
<1>2. \A i \in 1..N : \A s \in ScanState : ScanByte(s, x[i]) \in ScanState
  <2>1. ASSUME NEW i \in 1..N, NEW s \in ScanState
        PROVE  ScanByte(s, x[i]) \in ScanState
    <3>1. CASE s.phase = 3
      BY <3>1 DEF ScanByte
    <3>2. CASE s.phase # 3
      BY <1>1, <3>2, ScanByteIs
    <3> QED
      BY <3>1, <3>2
  <2> QED
    BY <2>1
<1>3. NotScanned \in ScanState
  BY NotScannedYet DEF Scanned
<1>4. PICK f : IsRun(f, N, ScanState, NotScanned, G)
  <2>1. G \in [1..N -> [ScanState -> ScanState]]
    BY <1>2
  <2> HIDE DEF G, N
  <2> QED
    BY <1>1, <1>3, <2>1, LoopExists
<1>5. f = Loop(f)
  <2>1. \A i \in 1..N : i - 1 \in 0..N
    BY <1>1
  <2>2. \A i \in 1..N : f[i] = ScanByte(f[i - 1], x[i])
    BY <1>4, <2>1 DEF IsRun
  <2>3. \A i \in 0..N : i # 0 => i \in 1..N
    BY <1>1
  <2> HIDE DEF N, G
  <2> QED
    BY <1>4, <2>2, <2>3 DEF IsRun
<1>6. steps = Loop(steps)
  BY <1>5
<1>7. Scan(x) = steps[N]
  BY DEF Scan
<1> HIDE DEF steps, G
<1> DEFINE S == {n \in 0..N : Scanned(steps[n], x, n)}
<1>8. 0 \in S
  <2>1. 0 \in 0..N /\ steps[0] = NotScanned
    BY <1>1, <1>6
  <2> QED
    BY <2>1, NotScannedYet
<1>9. ASSUME NEW n \in 1..N, n - 1 \in S
      PROVE  n \in S
  <2>1. n \in 0..N /\ n # 0
    BY <1>1
  <2>2. steps[n] = ScanByte(steps[n - 1], x[n])
    BY <1>6, <2>1
  <2>3. Scanned(steps[n - 1], x, n - 1)
    BY <1>9
  <2>4. Scanned(steps[n], x, n)
    BY <2>2, <2>3, ByteScanned
  <2> QED
    BY <2>1, <2>4
<1> HIDE DEF S
<1>10. \A n \in 0..N : n \in S
  BY <1>1, <1>8, <1>9, BoundedInduction
<1>11. PICK scan : scan = Scan(x) /\ Scanned(scan, x, N)
  <2>1. N \in S
    BY <1>1, <1>10
  <2> QED
    BY <1>7, <2>1 DEF S
<1>12. /\ scan.phase \in 0..3 /\ scan.line \in Seq(Byte)
       /\ scan.size \in Nat /\ scan.empty \in Nat /\ scan.size + scan.empty <= N
  BY <1>11 DEF Scanned, ScanState
<1>13. CASE scan.phase >= 2
  <2>1. Taken(scan) = scan.size + scan.empty
    BY <1>13 DEF Taken
  <2>2. scan.phase \in {2, 3}
    BY <1>12, <1>13
  <2>3. AllRead(Pre(x, Taken(scan))) = [lines |-> <<scan.line>>, line |-> <<>>]
    BY <1>11, <2>1, <2>2, Zenon DEF Scanned
  <2>4. Taken(scan) \in 0..N
    BY <1>1, <1>12, <2>1
  <2> QED
    BY <1>11, <1>12, <1>13, <2>3, <2>4
<1>14. CASE ~(scan.phase >= 2)
  <2>1. Taken(scan) = scan.empty
    BY <1>14 DEF Taken
  <2>2. scan.empty \in 0..N
    BY <1>1, <1>12
  <2>3. AllRead(Pre(x, scan.empty)) = NoLine
    <3>1. CASE scan.phase = 0
      <4>1. scan.size = 0 /\ scan.size + scan.empty = N /\ AllRead(Pre(x, N)) = NoLine
        BY <1>11, <3>1 DEF Scanned
      <4>2. scan.empty = N
        BY <1>12, <4>1
      <4> QED
        BY <4>1, <4>2
    <3>2. CASE scan.phase = 1
      BY <1>11, <3>2 DEF Scanned
    <3> QED
      BY <1>12, <1>14, <3>1, <3>2
  <2> QED
    BY <1>11, <1>12, <1>14, <2>1, <2>2, <2>3 DEF NoLine
<1> QED
  BY <1>13, <1>14

-----------------------------------------------------------------------------
(* The invariant: the bytes that are in the queue read on from the lines    *)
(* that were taken as those of the stream do.                               *)

StreamRead ==
    IF use = "recv" THEN Continues(out, AllRead(Bytes(blocks)), AllRead(stream))
                    ELSE Bytes(out) \o Bytes(blocks) = stream

DbufInd == DbufTypeOK /\ StreamRead

LEMMA DbufIndInit == DbufInit => DbufInd
<1> SUFFICES ASSUME DbufInit PROVE DbufInd
  OBVIOUS
<1>1. <<>> \in Seq(Seq(Byte)) /\ <<>> \in Seq(Byte)
  BY EmptySeq
<1>2. DbufTypeOK
  BY <1>1 DEF DbufInit, DbufTypeOK
<1>3. Bytes(<<>>) = <<>> /\ <<>> \o <<>> = <<>>
  BY <1>1, BytesOfNone, Concatenation
<1>4. Continues(<<>>, NoLine, NoLine)
  BY <1>3 DEF Continues, NoLine
<1> QED
  BY <1>2, <1>3, <1>4, NothingRead DEF DbufInd, StreamRead, DbufInit

LEMMA ArriveKeeps ==
    ASSUME DbufInd, Arrive
    PROVE  DbufInd'
<1>1. PICK n \in 1..(MaxBytes - Len(stream)) :
        \E data \in [1..n -> IF use = "recv" THEN Byte ELSE Letter] :
          blocks' = DbufPut(blocks, data) /\ stream' = stream \o data
  BY DEF Arrive
<1>2. PICK data \in [1..n -> IF use = "recv" THEN Byte ELSE Letter] :
        blocks' = DbufPut(blocks, data) /\ stream' = stream \o data
  BY <1>1
<1>3. data \in Seq(Byte)
  <2>1. (IF use = "recv" THEN Byte ELSE Letter) \subseteq Byte
    BY DEF Byte
  <2>2. data \in [1..n -> Byte] /\ n \in Nat
    BY <2>1
  <2> QED
    BY <2>2
<1>4. use' = use /\ out' = out
  BY DEF Arrive
<1>5. /\ use \in {"recv", "send"} /\ blocks \in Chain /\ stream \in Seq(Byte) /\ out \in Chain
      /\ Bytes(blocks) \in Seq(Byte) /\ Bytes(out) \in Seq(Byte)
  BY BytesExist DEF DbufInd, DbufTypeOK, Chain
<1>6. blocks' \in Chain /\ Bytes(blocks') = Bytes(blocks) \o data
  BY <1>2, <1>3, <1>5, DbufPutKeeps
<1>7. stream' \in Seq(Byte)
  BY <1>2, <1>3, <1>5, Concatenation
<1>8. CASE use = "recv"
  <2>1. Continues(out, AllRead(Bytes(blocks)), AllRead(stream))
    BY <1>8 DEF DbufInd, StreamRead
  <2>2. Continues(out, AllRead(Bytes(blocks) \o data), AllRead(stream \o data))
    BY <1>3, <1>5, <2>1, ReadOn
  <2>3. Continues(out', AllRead(Bytes(blocks')), AllRead(stream'))
    BY <1>2, <1>4, <1>6, <2>2
  <2> QED
    BY <1>4, <1>5, <1>6, <1>7, <1>8, <2>3 DEF DbufInd, DbufTypeOK, StreamRead, Chain
<1>9. CASE use # "recv"
  <2>1. Bytes(out) \o Bytes(blocks) = stream
    BY <1>9 DEF DbufInd, StreamRead
  <2>2. (Bytes(out) \o Bytes(blocks)) \o data = Bytes(out) \o (Bytes(blocks) \o data)
    BY <1>3, <1>5, BytesConcatenation, ZenonT(40)
  <2>3. Bytes(out') \o Bytes(blocks') = stream'
    BY <1>2, <1>4, <1>6, <2>1, <2>2, Zenon
  <2> QED
    BY <1>4, <1>5, <1>6, <1>7, <1>9, <2>3 DEF DbufInd, DbufTypeOK, StreamRead, Chain
<1> QED
  BY <1>8, <1>9

LEMMA ExtractOneLineKeeps ==
    ASSUME DbufInd, ExtractOneLine
    PROVE  DbufInd'
<1>1. /\ use = "recv" /\ blocks \in Chain /\ stream \in Seq(Byte) /\ out \in Chain
      /\ Continues(out, AllRead(Bytes(blocks)), AllRead(stream))
  BY DEF DbufInd, DbufTypeOK, StreamRead, Chain, ExtractOneLine
<1>2. PICK x \in Seq(Byte) : x = Bytes(blocks)
  BY <1>1, BytesExist DEF Chain
<1>3. PICK scan : scan = Scan(x)
  OBVIOUS
<1>4. PICK gone : gone = IF scan.phase >= 2 THEN <<scan.line>> ELSE <<>>
  OBVIOUS
<1>5. /\ blocks' = DbufDelete(blocks, Taken(scan)) /\ use' = use /\ stream' = stream
      /\ out' = IF scan.phase >= 2 THEN Append(out, scan.line) ELSE out
  BY <1>2, <1>3 DEF ExtractOneLine
<1>6. /\ scan.line \in Seq(Byte) /\ Taken(scan) \in 0..Len(x)
      /\ AllRead(Pre(x, Taken(scan))) = [lines |-> gone, line |-> <<>>]
  BY <1>3, <1>4, ScanTakes
<1>7. gone \in Chain /\ out' \in Chain /\ out' = out \o gone
  <2>1. CASE scan.phase >= 2
    <3>1. gone = <<scan.line>> /\ gone \in Chain
      BY <1>4, <1>6, <2>1 DEF Chain
    <3>2. out' = Append(out, scan.line) /\ out' \in Chain
      BY <1>1, <1>5, <1>6, <2>1, AppendProperties DEF Chain
    <3>3. Append(out, scan.line) = out \o <<scan.line>>
      BY <1>1, <1>6, AppendIsConcat DEF Chain
    <3> QED
      BY <3>1, <3>2, <3>3, Zenon
  <2>2. CASE ~(scan.phase >= 2)
    <3>1. gone = <<>> /\ out' = out
      BY <1>4, <1>5, <2>2
    <3>2. out \o <<>> = out /\ <<>> \in Chain
      BY <1>1, EmptySeq, ConcatEmptySeq DEF Chain
    <3> QED
      BY <1>1, <3>1, <3>2
  <2> QED
    BY <2>1, <2>2
<1>8. blocks' \in Chain /\ Bytes(blocks') = Drop(x, Taken(scan))
  <2>1. Taken(scan) \in Nat /\ Taken(scan) <= Len(Bytes(blocks))
    BY <1>2, <1>6, LenProperties
  <2> QED
    BY <1>1, <1>2, <1>5, <2>1, DbufDeleteKeeps
<1>9. Continues(gone, AllRead(Bytes(blocks')), AllRead(x))
  BY <1>6, <1>7, <1>8, ReadRest
<1>10. Continues(out', AllRead(Bytes(blocks')), AllRead(stream'))
  <2>1. PICK r, s, t : /\ r = AllRead(Bytes(blocks')) /\ s = AllRead(x) /\ t = AllRead(stream)
                       /\ r \in ReadState
    BY <1>8, BytesExist, AllReadType DEF Chain
  <2>2. t.line = r.line /\ s.lines = gone \o r.lines /\ t.lines = out \o s.lines
    BY <1>1, <1>2, <1>9, <2>1 DEF Continues
  <2>3. r.lines \in Seq(Seq(Byte)) /\ out \in Seq(Seq(Byte)) /\ gone \in Seq(Seq(Byte))
    BY <1>1, <1>7, <2>1 DEF ReadState, Chain
  <2>4. (out \o gone) \o r.lines = out \o (gone \o r.lines)
    BY <2>3, ChainConcatenation, Zenon
  <2> QED
    BY <1>5, <1>7, <2>1, <2>2, <2>4, Zenon DEF Continues
<1> QED
  BY <1>1, <1>5, <1>7, <1>8, <1>10 DEF DbufInd, DbufTypeOK, StreamRead, Chain

LEMMA SendFirstBlockKeeps ==
    ASSUME DbufInd, SendFirstBlock
    PROVE  DbufInd'
<1>1. /\ use = "send" /\ blocks \in Chain /\ stream \in Seq(Byte) /\ out \in Chain
      /\ Bytes(out) \o Bytes(blocks) = stream /\ blocks # <<>>
  BY DEF DbufInd, DbufTypeOK, StreamRead, Chain, SendFirstBlock
<1>2. PICK first \in Seq(Byte), rest \in Seq(Byte) :
        first = Head(blocks) /\ rest = Bytes(Tail(blocks)) /\ Bytes(blocks) = first \o rest
  <2>1. Head(blocks) \in Seq(Byte) /\ Tail(blocks) \in Chain
    BY <1>1, HeadTailProperties DEF Chain
  <2>2. Bytes(Tail(blocks)) \in Seq(Byte) /\ Bytes(blocks) = Head(blocks) \o Bytes(Tail(blocks))
    BY <1>1, <2>1, BytesExist, BytesSplit DEF Chain
  <2> QED
    BY <2>1, <2>2
<1>3. PICK retlen \in 1..Len(first) :
        /\ out' = Append(out, Pre(first, retlen)) /\ blocks' = DbufDelete(blocks, retlen)
        /\ use' = use /\ stream' = stream
  BY <1>2 DEF SendFirstBlock, Pre
<1>4. /\ Len(first) \in Nat /\ Len(rest) \in Nat /\ Len(Bytes(blocks)) = Len(first) + Len(rest)
      /\ retlen \in Nat /\ retlen \in 0..Len(first) /\ retlen <= Len(Bytes(blocks))
  <2>1. Len(first) \in Nat /\ Len(rest) \in Nat /\ Len(Bytes(blocks)) = Len(first) + Len(rest)
    BY <1>2, LenProperties, ConcatProperties
  <2> QED
    BY <2>1
<1>5. PICK accepted, kept \in Seq(Byte) :
        accepted = Pre(first, retlen) /\ kept = Drop(first, retlen) /\ accepted \o kept = first
  <2>1. Pre(first, retlen) \in Seq(Byte) /\ Pre(first, retlen) \o Drop(first, retlen) = first
    BY <1>4, PreFacts, PreAndDrop
  <2>2. Drop(first, retlen) \in Seq(Byte)
    BY <1>4, DropFacts
  <2> QED
    BY <2>1, <2>2, Zenon
<1>6. blocks' \in Chain /\ Bytes(blocks') = kept \o rest
  <2>1. blocks' \in Chain /\ Bytes(blocks') = Drop(Bytes(blocks), retlen)
    BY <1>1, <1>3, <1>4, DbufDeleteKeeps
  <2>2. Drop(first \o rest, retlen) = Drop(first, retlen) \o rest
    BY <1>4, DropOfConcat
  <2> QED
    BY <1>2, <1>5, <2>1, <2>2, Zenon
<1>7. out' \in Chain /\ Bytes(out') = Bytes(out) \o accepted
  <2>1. out' = Append(out, accepted)
    BY <1>3, <1>5
  <2>2. Append(out, accepted) \in Chain
    BY <1>1, <1>5, AppendProperties DEF Chain
  <2>3. Bytes(Append(out, accepted)) = Bytes(out) \o accepted
    BY <1>1, <1>5, BytesAppended DEF Chain
  <2> QED
    BY <2>1, <2>2, <2>3, Zenon
<1>8. Bytes(out') \o Bytes(blocks') = stream
  <2>1. PICK o \in Seq(Byte) : o = Bytes(out)
    BY <1>1, BytesExist DEF Chain
  <2>2. PICK tail \in Seq(Byte) : tail = kept \o rest
    BY Concatenation
  <2>3. accepted \in Seq(Byte) /\ kept \in Seq(Byte) /\ rest \in Seq(Byte)
    BY <1>2, <1>5, Zenon
  <2>4. (o \o accepted) \o tail = o \o (accepted \o tail)
    BY <2>3, BytesConcatenation, ZenonT(40)
  <2>5. (accepted \o kept) \o rest = accepted \o (kept \o rest)
    BY <2>3, BytesConcatenation, ZenonT(40)
  <2> QED
    BY <1>1, <1>2, <1>5, <1>6, <1>7, <2>1, <2>2, <2>4, <2>5, Zenon
<1> QED
  BY <1>1, <1>3, <1>6, <1>7, <1>8 DEF DbufInd, DbufTypeOK, StreamRead, Chain

LEMMA DbufIndInductive == DbufInd /\ [DbufNext]_dbufVars => DbufInd'
<1> SUFFICES ASSUME DbufInd, [DbufNext]_dbufVars
             PROVE  DbufInd'
  OBVIOUS
<1>1. CASE Arrive
  BY <1>1, ArriveKeeps
<1>2. CASE ExtractOneLine
  BY <1>2, ExtractOneLineKeeps
<1>3. CASE SendFirstBlock
  BY <1>3, SendFirstBlockKeeps
<1>4. CASE UNCHANGED dbufVars
  BY <1>4 DEF dbufVars, DbufInd, DbufTypeOK, StreamRead
<1> QED
  BY <1>1, <1>2, <1>3, <1>4 DEF DbufNext

\* Whatever the sizes of the blocks, the lines and the pieces recv() and send()
\* make of them, what is queued reads on from what was taken, and ends with the
\* same unfinished line (extract_one_line, dbuf_put, dbuf_delete).
THEOREM DbufIndHolds == DbufSpec => []DbufInd
<1>1. DbufInit => DbufInd
  BY DbufIndInit
<1>2. DbufInd /\ [DbufNext]_dbufVars => DbufInd'
  BY DbufIndInductive
<1> QED
  BY <1>1, <1>2, PTL DEF DbufSpec

\* The queues are chains of blocks of bytes through every put, line and send
\* (dbuf_put, dbuf_delete).
THEOREM DbufTyped == DbufSpec => []DbufTypeOK
<1>1. DbufInd => DbufTypeOK
  BY DEF DbufInd
<1> QED
  BY <1>1, DbufIndHolds, PTL

\* The lines taken out, and those still in the queue, are the lines of the
\* stream, each once and in order, however recv() cut it; and what send() has
\* taken with what is queued is what was to be accepted (extract_one_line,
\* send_queued_write).
THEOREM StreamIsKept == DbufSpec => []StreamKept
<1>1. DbufInd => StreamKept
  BY DEF DbufInd, StreamRead, StreamKept, Continues, Lines
<1> QED
  BY <1>1, DbufIndHolds, PTL
=============================================================================
