--------------------------- MODULE EventingProofs ---------------------------
(***************************************************************************)
(* Theorems about Eventing, for every set of handlers, topics, triggers    *)
(* and any number of events and configurations.                            *)
(*                                                                         *)
(* That an event is published once for a configuration, and delivered once *)
(* to a trigger, follows from the goroutines that are still to do it: there *)
(* is one for each source, what it has ahead has not been done, and it has *)
(* no name ahead twice.                                                    *)
(***************************************************************************)
EXTENDS Eventing, FiniteSetTheorems, WellFoundedInduction, TLAPS

Request_ == [pc : {"idle", "number", "insert", "delete", "bump"}, base : Nat,
             id : ConfigId \cup {None}, cfg : Config \cup {None}]
Delivery == [trigger : Trigger, src : Source, nth : Nat, dest : Destination]

TablesOK ==
  /\ commits \in Seq([type : EventType, gen : Nat])
  /\ gens \subseteq 1 .. Len(commits) + 1
  /\ configs \in [ConfigId -> Config \cup {None}]
  /\ triggers \in [Trigger -> TriggerRow \cup {None}]
  /\ meta \in Nat
  /\ reg \in [Handler -> Request_]
  /\ published \in [Event \X ConfigId -> {0, 1}]
  /\ received \subseteq Delivery
  /\ routines \subseteq Routine
  /\ owed \subseteq Event \X ConfigId

\* No name is ahead twice.
Once(todo) == \A v, w \in todo : v[1] = w[1] => v = w

\* What came of a source, which was committed and, if it is a message, published.
Real(src) ==
  /\ src.event <= Len(commits)
  /\ src.config # None => published[<<src.event, src.config>>] = 1

\* DeliverGCSNotifications has published nothing of what is ahead of it.
NotifyOK(r) ==
  /\ r.pc \in {"list", "next"}
  /\ r.src = FinalizeSource(r.src.event)
  /\ r.todo \subseteq ConfigId \X Config
  /\ r.pc = "list" => \A i \in ConfigId : published[<<r.src.event, i>>] = 0
  /\ r.pc = "next" => /\ r.todo # {} /\ Once(r.todo)
                      /\ \A w \in r.todo : published[<<r.src.event, w[1]>>] = 0

Seen(t, src) == {d \in received : d.trigger = t /\ d.src = src}

\* A call that failed may have been seen once.
TriedOnce(r) ==
  /\ r.pc = "next" /\ r.tries = 1 /\ Current(r)[2].dest = "http"
  /\ \E d \in received : Seen(Current(r)[1], r.src) \subseteq {d}

\* An Eventarc goroutine has delivered nothing of what is ahead of it, but for the
\* call it repeats.
ArcOK(r) ==
  /\ r.todo \subseteq Trigger \X TriggerRow
  /\ r.pc = "list" => \A t \in Trigger : Seen(t, r.src) = {}
  /\ r.pc # "list" =>
       /\ r.todo # {} /\ Once(r.todo)
       /\ \A w \in r.todo \ {Current(r)} : Seen(w[1], r.src) = {}
       /\ Seen(Current(r)[1], r.src) = {} \/ TriedOnce(r)

Ahead(r) == Real(r.src) /\ (r.kind = "notify" => NotifyOK(r)) /\ (r.kind = "eventarc" => ArcOK(r))

RoutinesOK ==
  /\ \A r, s \in routines : r.kind = s.kind /\ r.src = s.src => r = s
  /\ \A r \in routines : Ahead(r)

HistoryOK ==
  /\ \A n \in Event, i \in ConfigId : n > Len(commits) => published[<<n, i>>] = 0
  /\ \A d \in received : Real(d.src) /\ d.nth <= IF d.dest = "http" THEN 2 ELSE 1

OwedOK == Accounted /\ \A o \in owed : configs[o[2]] # None

Inv == TablesOK /\ RoutinesOK /\ HistoryOK /\ OwedOK

-----------------------------------------------------------------------------
LEMMA BoundedMax ==
  ASSUME NEW N \in Nat, NEW S, S \subseteq 1..N, S # {}
  PROVE  \E x \in S : \A y \in S : x >= y
<1> DEFINE T == {N - x : x \in S}
<1> DEFINE R == OpToRel(<, Nat)
<1>1. T \subseteq Nat /\ T # {}
  <2>1. \A x \in S : N - x \in Nat
    OBVIOUS
  <2> QED
    BY <2>1
<1>2. IsWellFoundedOn(R, Nat)
  BY NatLessThanWellFounded
<1>3. PICK t \in T : \A u \in T : ~(<<u, t>> \in R)
  <2> HIDE DEF R, T
  <2> QED BY <1>1, <1>2, WFMin
<1>4. \A u \in T : ~(u < t)
  BY <1>1, <1>3 DEF OpToRel
<1>5. PICK x \in S : t = N - x
  OBVIOUS
<1>6. \A y \in S : N - y \in T
  OBVIOUS
<1>7. \A y \in S : x >= y
  <2> HIDE DEF T
  <2> QED BY <1>4, <1>5, <1>6
<1> QED
  BY <1>7

LEMMA BoundedMin ==
  ASSUME NEW S, S \subseteq Nat, S # {}
  PROVE  \E x \in S : \A y \in S : x <= y
<1>1. PICK x \in S : \A u \in S : ~(<<u, x>> \in OpToRel(<, Nat))
  BY NatLessThanWellFounded, WFMin
<1>2. ASSUME NEW y \in S PROVE x <= y
  <2>1. ~(y < x)
    BY <1>1 DEF OpToRel
  <2> QED
    BY <2>1
<1> QED
  BY <1>2

\* The largest member of a bounded set of numbers, or 0.
LEMMA LargestNumber ==
  ASSUME NEW N \in Nat, NEW S, S \subseteq 1..N
  PROVE  Largest(S) \in 0..N
<1>1. S \cup {0} # {}
  OBVIOUS
<1>2. \E n \in S \cup {0} : \A m \in S : m <= n
  <2>1. CASE S = {}
    BY <2>1
  <2>2. CASE S # {}
    BY <2>2, BoundedMax
  <2> QED
    BY <2>1, <2>2
<1>3. Largest(S) \in S \cup {0}
  BY <1>2 DEF Largest
<1>4. S \cup {0} \subseteq 0..N
  OBVIOUS
<1> QED
  BY <1>3, <1>4

\* DeliverGCSNotifications takes one of those that are ahead.
LEMMA FirstIsAhead ==
  ASSUME NEW r, r.todo \subseteq ConfigId \X Config, r.todo # {}
  PROVE  FirstConfig(r) \in r.todo
<1> DEFINE S == {w[1] : w \in r.todo}
<1>1. S \subseteq Nat /\ S # {}
  BY ConstantsAssumption DEF ConfigId
<1>2. PICK x \in S : \A y \in S : x <= y
  <2> HIDE DEF S
  <2> QED BY <1>1, BoundedMin
<1>3. \E w \in r.todo : \A v \in r.todo : w[1] <= v[1]
  BY <1>2
<1> QED
  BY <1>3 DEF FirstConfig

LEMMA CurrentIsAhead ==
  ASSUME NEW r, r.todo # {}
  PROVE  Current(r) \in r.todo
  BY DEF Current

-----------------------------------------------------------------------------
(***************************************************************************)
(* The parts of a step.                                                    *)
(***************************************************************************)

\* What leaves the goroutines and the histories alone.
LEMMA QuietStep ==
  ASSUME Inv,
         UNCHANGED <<commits, routines, published, received>>,
         gens' \subseteq 1 .. Len(commits) + 1,
         configs' \in [ConfigId -> Config \cup {None}],
         triggers' \in [Trigger -> TriggerRow \cup {None}],
         meta' \in Nat, reg' \in [Handler -> Request_],
         owed' \subseteq owed, \A o \in owed' : configs'[o[2]] # None
  PROVE  Inv'
<1>1. TablesOK'
  BY DEF Inv, TablesOK
<1>2. RoutinesOK'
  BY DEF Inv, RoutinesOK, Ahead, Real, NotifyOK, ArcOK, Seen, TriedOnce
<1>3. HistoryOK'
  BY DEF Inv, HistoryOK, Real
<1>4. OwedOK'
  BY DEF Inv, OwedOK, Accounted
<1> QED
  BY <1>1, <1>2, <1>3, <1>4 DEF Inv

\* r goes on as nx and leaves spawned behind.
LEMMA Moves ==
  ASSUME Inv, NEW r \in routines, NEW nx, NEW spawned,
         Become(r, nx, spawned),
         nx.todo # {} => nx \in Routine /\ nx.kind = r.kind /\ nx.src = r.src /\ Ahead(nx)',
         \A s \in spawned :
           /\ s \in Routine /\ Ahead(s)'
           /\ \A q \in routines : ~(q.kind = s.kind /\ q.src = s.src)
           /\ \A q \in spawned : q = s,
         \A q \in routines : q # r => Ahead(q)'
  PROVE  routines' \subseteq Routine /\ RoutinesOK'
<1> DEFINE Next_ == IF nx.todo = {} THEN {} ELSE {nx}
<1>1. routines' = (routines \ {r}) \cup spawned \cup Next_
  BY DEF Become
<1>2. routines' \subseteq Routine
  BY <1>1 DEF Inv, TablesOK
<1>3. \A q \in routines' : Ahead(q)'
  BY <1>1
<1>4. ASSUME NEW p \in routines', NEW q \in routines', p.kind = q.kind, p.src = q.src
      PROVE  p = q
  <2>1. \A u, v \in routines : u.kind = v.kind /\ u.src = v.src => u = v
    BY DEF Inv, RoutinesOK
  <2>2. \A u \in Next_ : u = nx /\ u.kind = r.kind /\ u.src = r.src
    OBVIOUS
  <2>3. CASE p \in spawned \/ q \in spawned
    <3>1. CASE p \in spawned /\ q \in spawned
      BY <3>1
    <3>2. CASE p \in spawned /\ q \notin spawned
      <4>1. q \in routines \/ q \in Next_
        BY <1>1, <3>2
      <4> QED
        BY <1>4, <2>2, <3>2, <4>1
    <3>3. CASE p \notin spawned /\ q \in spawned
      <4>1. p \in routines \/ p \in Next_
        BY <1>1, <3>3
      <4> QED
        BY <1>4, <2>2, <3>3, <4>1
    <3> QED
      BY <2>3, <3>1, <3>2, <3>3
  <2>4. CASE p \notin spawned /\ q \notin spawned
    <3>1. (p \in routines \ {r} \/ p \in Next_) /\ (q \in routines \ {r} \/ q \in Next_)
      BY <1>1, <2>4
    <3> HIDE DEF Next_
    <3> QED
      BY <1>4, <2>1, <2>2, <3>1
  <2> QED
    BY <2>3, <2>4
<1> QED
  BY <1>2, <1>3, <1>4 DEF RoutinesOK

-----------------------------------------------------------------------------
(***************************************************************************)
(* The object and the tables.                                              *)
(***************************************************************************)

\* A message was received of no event that is still to come, and none is at work.
LEMMA EventIsNew ==
  ASSUME Inv
  PROVE  /\ \A q \in routines : q.src.event # Len(commits) + 1
         /\ \A d \in received : d.src.event # Len(commits) + 1
<1>1. Len(commits) \in Nat
  BY DEF Inv, TablesOK
<1>2. \A q \in routines : q.src.event <= Len(commits)
  BY DEF Inv, RoutinesOK, Ahead, Real
<1>3. \A d \in received : d.src.event <= Len(commits)
  BY DEF Inv, HistoryOK, Real
<1>4. ~(Len(commits) + 1 <= Len(commits))
  BY <1>1
<1> QED
  BY <1>2, <1>3, <1>4

\* The source of an event, which a goroutine starts from.
LEMMA SpawnedSource ==
  ASSUME NEW n \in Event, NEW kind \in {"notify", "eventarc"}
  PROVE  /\ FinalizeSource(n) \in Source
         /\ Spawn(kind, FinalizeSource(n)) \in Routine
  BY DEF FinalizeSource, Spawn, Source, Routine

\* A commit, by what it starts: the goroutine of the notifications, and maybe that
\* of the triggers.
LEMMA CommitStep ==
  ASSUME Inv, NEW type \in EventType, NEW gen \in Nat, NEW n, n = Len(commits) + 1, NEW started,
         Commit(type, gen, started),
         Spawn("notify", FinalizeSource(n)) \in started,
         started \subseteq {Spawn("notify", FinalizeSource(n)), Spawn("eventarc", FinalizeSource(n))},
         gens' \subseteq 1 .. n + 1,
         UNCHANGED <<tables, reg, published, received>>
  PROVE  Inv'
<1>1. n = Len(commits) + 1
  OBVIOUS
<1>2. /\ Len(commits) \in Nat /\ n \in Event
      /\ commits' \in Seq([type : EventType, gen : Nat]) /\ Len(commits') = n
      /\ routines' = routines \cup started
      /\ owed' = owed \cup {<<n, i>> : i \in {j \in Stored : notificationMatches(configs[j], type)}}
  BY <1>1, ConstantsAssumption DEF Inv, TablesOK, Commit, Event
<1>3. \A s \in started : s = Spawn("notify", FinalizeSource(n)) \/ s = Spawn("eventarc", FinalizeSource(n))
  OBVIOUS
<1>4. \A s \in started : s \in Routine /\ s.pc = "list" /\ s.src = FinalizeSource(n) /\ s.todo = {}
  <2>1. \A s \in started : s \in Routine
    BY <1>2, <1>3, SpawnedSource
  <2>2. \A s \in started : s.pc = "list" /\ s.src = FinalizeSource(n) /\ s.todo = {}
    BY <1>3 DEF Spawn
  <2> QED
    BY <2>1, <2>2
<1>5. TablesOK'
  <2>1. routines' \subseteq Routine
    BY <1>2, <1>4 DEF Inv, TablesOK
  <2>2. owed' \subseteq Event \X ConfigId
    BY <1>2 DEF Inv, TablesOK, Stored
  <2>3. gens' \subseteq 1 .. Len(commits') + 1
    BY <1>2
  <2> QED
    BY <1>2, <2>1, <2>2, <2>3 DEF Inv, TablesOK, tables
<1>6. \A src : Real(src) /\ src.event \in Nat => Real(src)'
  BY <1>1, <1>2 DEF Real
<1>7. RoutinesOK'
  <2>1. ASSUME NEW q \in routines PROVE Ahead(q)'
    <3>1. Ahead(q) /\ q.src.event \in Nat
      BY DEF Inv, RoutinesOK, TablesOK, Routine, Source, Event
    <3>2. Real(q.src)'
      BY <1>6, <3>1 DEF Ahead
    <3> QED
      BY <3>1, <3>2 DEF Ahead, NotifyOK, ArcOK, TriedOnce, Seen
  <2>2. ASSUME NEW s \in started PROVE Ahead(s)'
    <3>1. Real(s.src)'
      BY <1>2, <1>4, ConstantsAssumption DEF Real, FinalizeSource
    <3>2. NotifyOK(s)'
      <4>1. s.src.event = n
        BY <1>4 DEF FinalizeSource
      <4>2. \A i \in ConfigId : published'[<<n, i>>] = 0
        BY <1>1, <1>2 DEF Inv, HistoryOK
      <4> QED
        BY <1>4, <4>1, <4>2 DEF NotifyOK
    <3>3. ArcOK(s)'
      <4>1. \A t : Seen(t, s.src)' = {}
        BY <1>1, <1>4, EventIsNew DEF Seen, FinalizeSource
      <4> QED
        BY <1>4, <4>1 DEF ArcOK
    <3> QED
      BY <3>1, <3>2, <3>3 DEF Ahead
  <2>3. \A p, q \in routines : p.kind = q.kind /\ p.src = q.src => p = q
    BY DEF Inv, RoutinesOK
  <2>4. \A p, q \in started : p.kind = q.kind => p = q
    <3>1. PICK a, b : a = Spawn("notify", FinalizeSource(n)) /\ b = Spawn("eventarc", FinalizeSource(n))
      OBVIOUS
    <3>2. a.kind = "notify" /\ b.kind = "eventarc"
      BY <3>1 DEF Spawn
    <3>3. \A p \in started : p = a \/ p = b
      BY <1>3, <3>1
    <3> QED
      BY <3>2, <3>3
  <2>5. \A p \in routines, q \in started : p.src # q.src
    BY <1>1, <1>4, EventIsNew DEF FinalizeSource
  <2> QED
    BY <1>2, <2>1, <2>2, <2>3, <2>4, <2>5 DEF RoutinesOK
<1>8. HistoryOK'
  <2>1. \A m \in Event : m > n => m > Len(commits)
    BY <1>1, <1>2 DEF Event
  <2>2. ASSUME NEW d \in received
        PROVE  Real(d.src)' /\ d.nth <= IF d.dest = "http" THEN 2 ELSE 1
    <3>1. d.src.event \in Nat
      BY DEF Inv, TablesOK, Delivery, Source, Event
    <3> QED
      BY <1>6, <3>1 DEF Inv, HistoryOK
  <2> QED
    BY <1>2, <2>1, <2>2 DEF Inv, HistoryOK
<1>9. OwedOK'
  <2>1. ASSUME NEW o \in owed'
        PROVE  /\ configs'[o[2]] # None
               /\ \E r \in routines' : /\ r.kind = "notify" /\ r.src.event = o[1]
                                       /\ r.pc = "list" \/ \E w \in r.todo : w[1] = o[2]
    <3>1. CASE o \in owed
      BY <1>2, <3>1 DEF Inv, OwedOK, Accounted, tables
    <3>2. CASE o \notin owed
      <4>1. PICK i \in Stored : o = <<n, i>>
        BY <1>2, <3>2
      <4>2. configs'[o[2]] # None
        BY <4>1 DEF Stored, tables
      <4>3. Spawn("notify", FinalizeSource(n)) \in routines'
        BY <1>2, <1>3
      <4> QED
        BY <4>1, <4>2, <4>3 DEF Spawn, FinalizeSource
    <3> QED
      BY <3>1, <3>2
  <2> QED
    BY <2>1 DEF OwedOK, Accounted
<1> QED
  BY <1>5, <1>7, <1>8, <1>9 DEF Inv

LEMMA ObjectSteps ==
  ASSUME Inv, PutObject \/ DeleteObject
  PROVE  Inv'
<1>1. Len(commits) \in Nat /\ gens \subseteq 1 .. Len(commits) + 1
  BY DEF Inv, TablesOK
<1>2. PICK n : n = Len(commits) + 1
  OBVIOUS
<1>3. n \in Nat /\ gens \subseteq 1 .. n
  BY <1>1, <1>2
<1>4. CASE PutObject
  <2>1. PICK g : g = Largest(gens) + 1
    OBVIOUS
  <2>2. g \in 1 .. n + 1
    <3>1. PICK S : S = gens
      OBVIOUS
    <3>2. Largest(S) \in 0 .. n
      BY <1>3, <3>1, LargestNumber
    <3>3. Largest(gens) \in 0 .. n
      BY <3>1, <3>2
    <3> QED
      BY <1>3, <2>1, <3>3
  <2>3. gens' = gens \cup {g}
    BY <1>4, <2>1 DEF PutObject
  <2>4. gens' \subseteq 1 .. n + 1
    BY <1>3, <2>2, <2>3
  <2>5. PICK started : started = {Spawn("eventarc", FinalizeSource(n)), Spawn("notify", FinalizeSource(n))}
    OBVIOUS
  <2>6. Commit("OBJECT_FINALIZE", g, started)
    BY <1>2, <1>4, <2>1, <2>5 DEF PutObject
  <2>7. UNCHANGED <<tables, reg, published, received>>
    BY <1>4 DEF PutObject
  <2>8. g \in Nat /\ "OBJECT_FINALIZE" \in EventType
    BY <1>3, <2>2 DEF EventType
  <2> QED
    BY <1>2, <2>4, <2>5, <2>6, <2>7, <2>8, CommitStep
<1>5. CASE DeleteObject
  <2>1. PICK g \in gens : /\ Commit("OBJECT_DELETE", g, {Spawn("notify", FinalizeSource(Len(commits) + 1))})
                          /\ gens' = gens \ {g}
                          /\ UNCHANGED <<tables, reg, published, received>>
    BY <1>5 DEF DeleteObject
  <2>2. PICK started : started = {Spawn("notify", FinalizeSource(n))}
    OBVIOUS
  <2>3. gens' \subseteq 1 .. n + 1
    BY <1>3, <2>1
  <2>4. Commit("OBJECT_DELETE", g, started)
    BY <1>2, <2>1, <2>2
  <2>5. g \in Nat /\ "OBJECT_DELETE" \in EventType
    BY <1>3 DEF EventType
  <2> QED
    BY <1>2, <2>1, <2>2, <2>3, <2>4, <2>5, CommitStep
<1> QED
  BY <1>4, <1>5

\* What a request knows is of a type at every statement.
LEMMA RequestSteps ==
  ASSUME Inv, NEW h \in Handler, Request(h) \/ RequestStep(h)
  PROVE  Inv'
<1> USE DEF tables
<1>1. /\ configs \in [ConfigId -> Config \cup {None}] /\ gens \subseteq 1 .. Len(commits) + 1
      /\ triggers \in [Trigger -> TriggerRow \cup {None}] /\ meta \in Nat
      /\ reg \in [Handler -> Request_] /\ owed \subseteq Event \X ConfigId
      /\ \A o \in owed : configs[o[2]] # None
  BY DEF Inv, TablesOK, OwedOK
<1>2. PICK q : q = reg[h]
  OBVIOUS
<1>3. q \in Request_
  BY <1>1, <1>2
<1>4. Idle \in Request_
  BY DEF Idle, Request_
<1>5. CASE Request(h)
  <2>1. PICK pc \in {"number", "delete"}, cfg \in Config \cup {None}, id \in ConfigId \cup {None} :
          ReadBucket(h, pc, cfg, id)
    BY <1>5 DEF Request, insertNotification, deleteNotification
  <2>2. reg' \in [Handler -> Request_]
    BY <1>1, <2>1 DEF ReadBucket, Goto, Request_
  <2> QED
    BY <1>1, <2>1, <2>2, QuietStep DEF ReadBucket
<1>6. CASE NextNotificationID(h)
  <2>1. PICK S : S = Stored
    OBVIOUS
  <2>2. PICK m : m = Largest(S)
    OBVIOUS
  <2>3. m \in 0 .. MaxConfig
    BY <2>1, <2>2, LargestNumber, ConstantsAssumption DEF Stored, ConfigId
  <2>4. m < MaxConfig /\ reg' = [reg EXCEPT ![h] = [q EXCEPT !.pc = "insert", !.id = m + 1]]
    BY <1>2, <1>6, <2>1, <2>2 DEF NextNotificationID, Goto
  <2>5. m + 1 \in ConfigId
    BY <2>3, <2>4, ConstantsAssumption DEF ConfigId
  <2>6. [q EXCEPT !.pc = "insert", !.id = m + 1] \in Request_
    BY <1>3, <2>5 DEF Request_
  <2>7. reg' \in [Handler -> Request_]
    BY <1>1, <2>4, <2>6
  <2> QED
    BY <1>1, <1>6, <2>7, QuietStep DEF NextNotificationID
<1>7. CASE CreateNotificationConfig(h)
  <2>1. [q EXCEPT !.pc = "bump"] \in Request_
    BY <1>3 DEF Request_
  <2>2. reg' \in [Handler -> Request_]
    BY <1>1, <1>2, <1>4, <1>7, <2>1 DEF CreateNotificationConfig, Goto
  <2>3. \/ configs' = configs
        \/ configs[q.id] = None /\ configs' = [configs EXCEPT ![q.id] = q.cfg]
    BY <1>2, <1>7 DEF CreateNotificationConfig
  <2>4. q.cfg \in Config \cup {None}
    BY <1>3 DEF Request_
  <2>5. configs' \in [ConfigId -> Config \cup {None}]
    BY <1>1, <2>3, <2>4
  <2>6. owed' = owed
    BY <1>7 DEF CreateNotificationConfig
  <2>7. \A o \in owed' : configs'[o[2]] # None
    BY <1>1, <2>3, <2>6
  <2> QED
    BY <1>1, <1>7, <2>2, <2>5, <2>6, <2>7, QuietStep DEF CreateNotificationConfig
<1>8. CASE DeleteNotificationConfig(h)
  <2>1. [q EXCEPT !.pc = "bump"] \in Request_
    BY <1>3 DEF Request_
  <2>2. reg' \in [Handler -> Request_]
    BY <1>1, <1>2, <1>4, <1>8, <2>1 DEF DeleteNotificationConfig, Goto
  <2>3. /\ configs' = [configs EXCEPT ![q.id] = None]
        /\ owed' = {o \in owed : o[2] # q.id}
    BY <1>2, <1>8 DEF DeleteNotificationConfig
  <2>4. \A o \in owed' : configs'[o[2]] # None
    BY <1>1, <2>3
  <2> QED
    BY <1>1, <1>8, <2>2, <2>3, <2>4, QuietStep DEF DeleteNotificationConfig
<1>9. CASE bumpBucketMetageneration(h)
  <2>1. q.base \in Nat
    BY <1>3 DEF Request_
  <2>2. meta' \in Nat /\ reg' \in [Handler -> Request_]
    BY <1>1, <1>2, <1>4, <1>9, <2>1 DEF bumpBucketMetageneration, Goto
  <2> QED
    BY <1>1, <1>9, <2>2, QuietStep DEF bumpBucketMetageneration
<1> QED
  BY <1>5, <1>6, <1>7, <1>8, <1>9 DEF RequestStep

LEMMA AdministerSteps ==
  ASSUME Inv, Administer \/ AdministerTriggers
  PROVE  Inv'
<1>1. /\ configs \in [ConfigId -> Config \cup {None}] /\ gens \subseteq 1 .. Len(commits) + 1
      /\ triggers \in [Trigger -> TriggerRow \cup {None}] /\ meta \in Nat
      /\ reg \in [Handler -> Request_]
      /\ \A o \in owed : configs[o[2]] # None
  BY DEF Inv, TablesOK, OwedOK
<1>2. CASE Administer
  <2>1. triggers' = triggers
    BY <1>2 DEF Administer
  <2> QED
    BY <1>1, <1>2, <2>1, QuietStep DEF Administer
<1>3. ASSUME NEW t \in Trigger, DeleteEventarcTrigger(t) PROVE Inv'
  BY <1>1, <1>3, QuietStep DEF DeleteEventarcTrigger
<1>4. ASSUME NEW t \in Trigger, NEW row \in Offered[t], CreateEventarcTrigger(t, row) PROVE Inv'
  <2>1. row \in TriggerRow
    BY ConstantsAssumption
  <2>2. triggers' \in [Trigger -> TriggerRow \cup {None}]
    BY <1>1, <1>4, <2>1 DEF CreateEventarcTrigger, InsertTrigger
  <2> QED
    BY <1>1, <1>4, <2>2, QuietStep DEF CreateEventarcTrigger
<1> QED
  BY <1>2, <1>3, <1>4 DEF AdministerTriggers

-----------------------------------------------------------------------------
(***************************************************************************)
(* The goroutines.                                                         *)
(***************************************************************************)

\* What is known of one of them, for the steps below.
LEMMA RoutineFacts ==
  ASSUME Inv, NEW r \in routines
  PROVE  /\ r \in Routine /\ Ahead(r)
         /\ r.kind = "notify" => NotifyOK(r)
         /\ r.kind = "eventarc" => ArcOK(r)
         /\ Real(r.src) /\ r.src.event \in 1 .. Len(commits) /\ r.src.event \in Event
         /\ Len(commits) \in Nat
         /\ \A q \in routines : q.kind = r.kind /\ q.src = r.src => q = r
<1>1. r \in Routine /\ Ahead(r) /\ Len(commits) \in Nat
  BY DEF Inv, TablesOK, RoutinesOK
<1>2. r.src \in Source
  BY <1>1 DEF Routine
<1>3. r.src.event \in Event /\ r.src.event <= Len(commits)
  BY <1>1, <1>2 DEF Ahead, Real, Source
<1>4. r.src.event \in 1 .. Len(commits)
  BY <1>1, <1>3, ConstantsAssumption DEF Event
<1>5. \A q \in routines : q.kind = r.kind /\ q.src = r.src => q = r
  BY DEF Inv, RoutinesOK
<1> QED
  BY <1>1, <1>3, <1>4, <1>5 DEF Ahead

LEMMA ListConfigsStep ==
  ASSUME Inv, NEW r \in routines, ListNotificationConfigs(r)
  PROVE  Inv'
<1>1. PICK nx : nx = [r EXCEPT !.pc = "next", !.todo = {<<i, configs[i]>> : i \in Stored}]
  OBVIOUS
<1>2. /\ r.kind = "notify" /\ r.pc = "list" /\ Become(r, nx, {})
      /\ UNCHANGED <<commits, gens, tables, reg, published, received, owed>>
  BY <1>1 DEF ListNotificationConfigs, Unaltered
<1>3. r \in Routine /\ Real(r.src) /\ NotifyOK(r) /\ r.src.event \in Event
  BY <1>2, RoutineFacts
<1>4. configs \in [ConfigId -> Config \cup {None}]
  BY DEF Inv, TablesOK
<1>5. /\ nx.kind = "notify" /\ nx.src = r.src /\ nx.pc = "next"
      /\ nx.todo = {<<i, configs[i]>> : i \in Stored}
  BY <1>1, <1>2, <1>3 DEF Routine
<1>6. nx.todo \subseteq ConfigId \X Config /\ Once(nx.todo)
  BY <1>4, <1>5 DEF Stored, Once
<1>7. nx \in Routine
  BY <1>1, <1>3, <1>6 DEF Routine
<1>8. nx.todo # {} => NotifyOK(nx)'
  BY <1>2, <1>3, <1>5, <1>6 DEF NotifyOK
<1>9. \A src : Real(src)' = Real(src)
  BY <1>2 DEF Real
<1>10. nx.todo # {} => Ahead(nx)'
  BY <1>2, <1>3, <1>5, <1>8, <1>9 DEF Ahead
<1>11. ASSUME NEW q \in routines PROVE Ahead(q)'
  <2>1. Ahead(q)
    BY RoutineFacts
  <2>2. NotifyOK(q) => NotifyOK(q)'
    BY <1>2 DEF NotifyOK
  <2>3. ArcOK(q) => ArcOK(q)'
    BY <1>2 DEF ArcOK, TriedOnce, Seen
  <2> QED
    BY <1>9, <2>1, <2>2, <2>3 DEF Ahead
<1>12. routines' \subseteq Routine /\ RoutinesOK'
  BY <1>2, <1>5, <1>7, <1>10, <1>11, Moves
<1>13. OwedOK'
  <2>1. ASSUME NEW o \in owed
        PROVE  \E q \in routines' : /\ q.kind = "notify" /\ q.src.event = o[1]
                                    /\ q.pc = "list" \/ \E w \in q.todo : w[1] = o[2]
    <3>1. PICK q \in routines : /\ q.kind = "notify" /\ q.src.event = o[1]
                                /\ q.pc = "list" \/ \E w \in q.todo : w[1] = o[2]
      BY DEF Inv, OwedOK, Accounted
    <3>2. CASE q # r
      BY <1>2, <3>1, <3>2 DEF Become
    <3>3. CASE q = r
      <4>1. o[2] \in Stored
        BY DEF Inv, OwedOK, TablesOK, Stored
      <4>2. <<o[2], configs[o[2]]>> \in nx.todo
        BY <1>5, <4>1
      <4>3. nx \in routines'
        BY <1>2, <4>2 DEF Become
      <4> QED
        BY <1>5, <3>1, <3>3, <4>2, <4>3
    <3> QED
      BY <3>2, <3>3
  <2> QED
    BY <1>2, <2>1 DEF Inv, OwedOK, Accounted, tables
<1>14. TablesOK'
  BY <1>2, <1>12 DEF Inv, TablesOK, tables
<1>15. HistoryOK'
  BY <1>2 DEF Inv, HistoryOK, Real
<1> QED
  BY <1>12, <1>13, <1>14, <1>15 DEF Inv

LEMMA PublishStep ==
  ASSUME Inv, NEW r \in routines, PublishNotification(r)
  PROVE  Inv'
<1>1. PICK w, n, nx, due :
        /\ w = FirstConfig(r) /\ n = r.src.event
        /\ nx = [r EXCEPT !.todo = @ \ {w}]
        /\ due = (notificationMatches(w[2], commits[n].type) /\ w[2].topic \in topics)
  OBVIOUS
<1>2. PICK msg : msg = Spawn("eventarc", MessageSource(n, w))
  OBVIOUS
<1>3. PICK spawned : spawned = IF due THEN {msg} ELSE {}
  OBVIOUS
<1>4. /\ r.kind = "notify" /\ r.pc = "next"
      /\ Become(r, nx, spawned)
      /\ published' = IF due THEN [published EXCEPT ![<<n, w[1]>>] = @ + 1] ELSE published
      /\ owed' = owed \ {<<n, w[1]>>}
      /\ UNCHANGED <<commits, gens, tables, reg, received>>
  BY <1>1, <1>2, <1>3 DEF PublishNotification, Unaltered
<1>5. /\ r \in Routine /\ Real(r.src) /\ NotifyOK(r)
      /\ n \in 1 .. Len(commits) /\ n \in Event /\ Len(commits) \in Nat
      /\ \A q \in routines : q.kind = "notify" /\ q.src = r.src => q = r
  BY <1>1, <1>4, RoutineFacts
<1>6. /\ r.todo \subseteq ConfigId \X Config /\ r.todo # {} /\ Once(r.todo)
      /\ r.src = FinalizeSource(n)
      /\ \A v \in r.todo : published[<<n, v[1]>>] = 0
  BY <1>1, <1>4, <1>5 DEF NotifyOK
<1>7. w \in r.todo
  BY <1>1, <1>6, FirstIsAhead
<1>8. w \in ConfigId \X Config /\ w[1] \in ConfigId /\ w[1] # None /\ w[2].topic \in Topic
  BY <1>6, <1>7, ConstantsAssumption DEF Config
<1>9. published \in [Event \X ConfigId -> {0, 1}] /\ published[<<n, w[1]>>] = 0
  BY <1>6, <1>7 DEF Inv, TablesOK
<1>10. /\ published' \in [Event \X ConfigId -> {0, 1}]
       /\ \A p \in Event \X ConfigId : published[p] = 1 => published'[p] = 1
       /\ \A p \in Event \X ConfigId : p # <<n, w[1]>> => published'[p] = published[p]
       /\ due => published'[<<n, w[1]>>] = 1
  <2>1. published' = published \/ published' = [published EXCEPT ![<<n, w[1]>>] = published[<<n, w[1]>>] + 1]
    BY <1>4
  <2>2. due => published' = [published EXCEPT ![<<n, w[1]>>] = published[<<n, w[1]>>] + 1]
    BY <1>4
  <2>3. <<n, w[1]>> \in Event \X ConfigId
    BY <1>5, <1>8
  <2> QED
    BY <1>9, <2>1, <2>2, <2>3
<1>11. \A src \in Source : Real(src) => Real(src)'
  BY <1>4, <1>10 DEF Real, Source
<1>12. /\ nx \in Routine /\ nx.kind = "notify" /\ nx.src = r.src /\ nx.pc = "next"
       /\ nx.todo = r.todo \ {w}
  BY <1>1, <1>4, <1>5 DEF Routine
<1>13. nx.todo # {} => Ahead(nx)'
  <2>1. \A v \in nx.todo : published'[<<n, v[1]>>] = 0
    <3>1. ASSUME NEW v \in nx.todo PROVE published'[<<n, v[1]>>] = 0
      <4>1. v \in r.todo /\ v[1] # w[1] /\ v[1] \in ConfigId
        BY <1>6, <1>7, <1>12 DEF Once
      <4>2. <<n, v[1]>> \in Event \X ConfigId /\ <<n, v[1]>> # <<n, w[1]>>
        BY <1>5, <4>1
      <4> QED
        BY <1>6, <1>10, <4>1, <4>2
    <3> QED
      BY <3>1
  <2>2. Once(nx.todo) /\ nx.todo \subseteq ConfigId \X Config
    BY <1>6, <1>12 DEF Once
  <2>3. nx.src = FinalizeSource(nx.src.event) /\ nx.src.event = n
    BY <1>1, <1>6, <1>12
  <2>4. nx.todo # {} => NotifyOK(nx)'
    BY <1>12, <2>1, <2>2, <2>3 DEF NotifyOK
  <2>5. Real(nx.src)'
    BY <1>5, <1>11, <1>12 DEF Routine
  <2> QED
    BY <1>12, <2>4, <2>5 DEF Ahead
<1>14. ASSUME NEW q \in routines, q # r PROVE Ahead(q)'
  <2>1. q \in Routine /\ Ahead(q)
    BY RoutineFacts
  <2>2. Real(q.src)'
    BY <1>11, <2>1 DEF Ahead, Routine
  <2>3. q.kind = "notify" => NotifyOK(q)'
    <3>1. SUFFICES ASSUME q.kind = "notify" PROVE NotifyOK(q)'
      OBVIOUS
    <3>2. NotifyOK(q) /\ q.src.event \in Event
      BY <2>1, <3>1, RoutineFacts
    <3>3. q.src.event # n
      BY <1>5, <1>6, <1>14, <3>1, <3>2 DEF NotifyOK
    <3>4. \A i \in ConfigId : published'[<<q.src.event, i>>] = published[<<q.src.event, i>>]
      BY <1>10, <3>2, <3>3
    <3>5. \A v \in q.todo : v[1] \in ConfigId
      BY <3>2 DEF NotifyOK
    <3> QED
      BY <3>2, <3>4, <3>5 DEF NotifyOK
  <2>4. q.kind = "eventarc" => ArcOK(q)'
    BY <1>4, <2>1 DEF Ahead, ArcOK, TriedOnce, Seen
  <2> QED
    BY <2>2, <2>3, <2>4 DEF Ahead
<1>15. ASSUME due
       PROVE  /\ msg \in Routine /\ Ahead(msg)'
              /\ \A q \in routines : ~(q.kind = msg.kind /\ q.src = msg.src)
  <2>1. PICK src : src = MessageSource(n, w)
    OBVIOUS
  <2>2. src \in Source /\ src.event = n /\ src.config = w[1]
    BY <1>5, <1>8, <2>1 DEF MessageSource, Source
  <2>3. /\ msg \in Routine /\ msg.kind = "eventarc" /\ msg.src = src
        /\ msg.pc = "list" /\ msg.todo = {}
    BY <1>2, <2>1, <2>2 DEF Spawn, Routine
  <2>4. ~Real(src)
    BY <1>8, <1>9, <2>2 DEF Real
  <2>5. Real(src)'
    BY <1>4, <1>5, <1>10, <1>15, <2>2 DEF Real
  <2>6. \A t \in Trigger : Seen(t, src)' = {}
    <3>1. \A d \in received : d.src # src
      BY <2>4 DEF Inv, HistoryOK
    <3> QED
      BY <1>4, <3>1 DEF Seen
  <2>7. ArcOK(msg)'
    BY <2>3, <2>6 DEF ArcOK
  <2>8. \A q \in routines : q.src # src
    BY <2>4, RoutineFacts
  <2> QED
    BY <2>3, <2>5, <2>7, <2>8 DEF Ahead
<1>16. routines' \subseteq Routine /\ RoutinesOK'
  <2>1. \A s \in spawned : /\ s \in Routine /\ Ahead(s)'
                           /\ \A q \in routines : ~(q.kind = s.kind /\ q.src = s.src)
                           /\ \A q \in spawned : q = s
    BY <1>3, <1>15
  <2> QED
    BY <1>4, <1>12, <1>13, <1>14, <2>1, Moves
<1>17. TablesOK'
  BY <1>4, <1>10, <1>16 DEF Inv, TablesOK, tables
<1>18. HistoryOK'
  <2>1. ASSUME NEW m \in Event, NEW i \in ConfigId, m > Len(commits)
        PROVE  published'[<<m, i>>] = 0
    <3>1. m # n
      BY <1>5, <2>1 DEF Event
    <3>2. published[<<m, i>>] = 0
      BY <2>1 DEF Inv, HistoryOK
    <3>3. <<m, i>> \in Event \X ConfigId /\ <<m, i>> # <<n, w[1]>>
      BY <3>1
    <3> QED
      BY <1>10, <3>2, <3>3
  <2>2. ASSUME NEW d \in received
        PROVE  Real(d.src)' /\ d.nth <= IF d.dest = "http" THEN 2 ELSE 1
    <3>1. d.src \in Source
      BY DEF Inv, TablesOK, Delivery
    <3> QED
      BY <1>11, <3>1 DEF Inv, HistoryOK
  <2> QED
    BY <1>4, <2>1, <2>2 DEF HistoryOK
<1>19. OwedOK'
  <2>1. ASSUME NEW o \in owed'
        PROVE  /\ configs'[o[2]] # None
               /\ \E q \in routines' : /\ q.kind = "notify" /\ q.src.event = o[1]
                                       /\ q.pc = "list" \/ \E v \in q.todo : v[1] = o[2]
    <3>1. o \in owed /\ o # <<n, w[1]>> /\ o = <<o[1], o[2]>> /\ configs[o[2]] # None
      BY <1>4 DEF Inv, TablesOK, OwedOK
    <3>2. configs'[o[2]] # None
      BY <1>4, <3>1 DEF tables
    <3>3. PICK q \in routines : /\ q.kind = "notify" /\ q.src.event = o[1]
                                /\ q.pc = "list" \/ \E v \in q.todo : v[1] = o[2]
      BY <3>1 DEF Inv, OwedOK, Accounted
    <3>4. CASE q # r
      BY <1>4, <3>2, <3>3, <3>4 DEF Become
    <3>5. CASE q = r
      <4>1. PICK v \in r.todo : v[1] = o[2]
        BY <1>4, <3>3, <3>5
      <4>2. v # w
        BY <1>1, <3>1, <3>3, <3>5, <4>1
      <4>3. v \in nx.todo
        BY <1>12, <4>1, <4>2
      <4>4. nx \in routines'
        BY <1>4, <4>3 DEF Become
      <4> QED
        BY <1>12, <3>2, <3>3, <3>5, <4>1, <4>3, <4>4
    <3> QED
      BY <3>4, <3>5
  <2> QED
    BY <2>1 DEF OwedOK, Accounted
<1> QED
  BY <1>16, <1>17, <1>18, <1>19 DEF Inv

-----------------------------------------------------------------------------
(***************************************************************************)
(* The goroutines that deliver to triggers.                                *)
(***************************************************************************)

\* A delivery of r adds to what its current trigger has seen of its source, and to
\* nothing else.
LEMMA SeenGrows ==
  ASSUME NEW r, Receive(r) \/ received' = received
  PROVE  /\ received \subseteq received'
         /\ \A t, src : t # Current(r)[1] \/ src # r.src => Seen(t, src)' = Seen(t, src)
<1>1. CASE received' = received
  BY <1>1 DEF Seen
<1>2. CASE Receive(r)
  <2>1. PICK d : /\ received' = received \cup {d}
                 /\ d.trigger = Current(r)[1] /\ d.src = r.src
    <3>1. PICK d : d = [trigger |-> Current(r)[1], src |-> r.src, nth |-> Count(Current(r)[1], r.src) + 1,
                        dest |-> Current(r)[2].dest]
      OBVIOUS
    <3>2. received' = received \cup {d}
      BY <1>2, <3>1 DEF Receive
    <3> QED
      BY <3>1, <3>2
  <2>2. ASSUME NEW t, NEW src, t # Current(r)[1] \/ src # r.src
        PROVE  Seen(t, src)' = Seen(t, src)
    BY <2>1, <2>2 DEF Seen
  <2> QED
    BY <2>1, <2>2
<1> QED
  BY <1>1, <1>2

\* The delivery is numbered by those before it, of which there is one at most.
LEMMA Numbered ==
  ASSUME Inv, NEW r \in routines, r.kind = "eventarc", r.pc # "list", Receive(r),
         NEW e, Seen(Current(r)[1], r.src) \subseteq {e}
  PROVE  \E d \in Delivery :
           /\ received' = received \cup {d}
           /\ d.trigger = Current(r)[1] /\ d.src = r.src /\ d.dest = Current(r)[2].dest
           /\ d.nth <= 2 /\ (Seen(Current(r)[1], r.src) = {} => d.nth = 1)
<1>1. PICK w, S, c : w = Current(r) /\ S = Seen(w[1], r.src) /\ c = Count(w[1], r.src)
  OBVIOUS
<1>2. c = Cardinality(S)
  BY <1>1 DEF Count, Seen
<1>3. S = {} \/ S = {e}
  BY <1>1
<1>4. c \in {0, 1} /\ (S = {} => c = 0)
  BY <1>2, <1>3, FS_EmptySet, FS_Singleton
<1>5. w \in Trigger \X TriggerRow
  BY <1>1, RoutineFacts, CurrentIsAhead DEF ArcOK
<1>6. r.src \in Source
  BY RoutineFacts DEF Routine
<1>7. PICK d : d = [trigger |-> w[1], src |-> r.src, nth |-> c + 1, dest |-> w[2].dest]
  OBVIOUS
<1>8. received' = received \cup {d}
  BY <1>1, <1>7 DEF Receive
<1>9. c + 1 \in Nat /\ c + 1 <= 2 /\ (S = {} => c + 1 = 1)
  BY <1>4
<1>10. d \in Delivery
  BY <1>5, <1>6, <1>7, <1>9 DEF Delivery, TriggerRow
<1> QED
  BY <1>1, <1>7, <1>8, <1>9, <1>10

\* The steps of such a goroutine, by what it goes on with.
LEMMA ArcStep ==
  ASSUME Inv, NEW r \in routines, r.kind = "eventarc", r.pc # "list", NEW nx,
         Become(r, nx, {}),
         nx \in Routine, nx.kind = r.kind, nx.src = r.src,
         nx.todo # {} => ArcOK(nx)',
         UNCHANGED <<commits, gens, tables, reg, published, owed>>,
         \/ received' = received
         \/ /\ Receive(r)
            /\ \E e : Seen(Current(r)[1], r.src) \subseteq {e}
            /\ Seen(Current(r)[1], r.src) = {} \/ Current(r)[2].dest = "http"
  PROVE  Inv'
<1>1. /\ Real(r.src) /\ r \in Routine
      /\ \A q \in routines : q.kind = "eventarc" /\ q.src = r.src => q = r
  BY RoutineFacts
<1>2. \A src : Real(src)' = Real(src)
  BY DEF Real
<1>3. nx.todo # {} => Ahead(nx)'
  BY <1>1, <1>2 DEF Ahead
<1>4. /\ received \subseteq received'
      /\ \A t, src : src # r.src => Seen(t, src)' = Seen(t, src)
  BY SeenGrows
<1>5. ASSUME NEW q \in routines, q # r PROVE Ahead(q)'
  <2>1. Ahead(q) /\ Real(q.src)'
    BY <1>2, RoutineFacts
  <2>2. NotifyOK(q) => NotifyOK(q)'
    BY DEF NotifyOK
  <2>3. q.kind = "eventarc" => ArcOK(q)'
    <3>1. SUFFICES ASSUME q.kind = "eventarc" PROVE ArcOK(q)'
      OBVIOUS
    <3>2. ArcOK(q) /\ q.src # r.src
      BY <1>1, <1>5, <3>1, RoutineFacts
    <3>3. \A t : Seen(t, q.src)' = Seen(t, q.src)
      BY <1>4, <3>2
    <3>4. TriedOnce(q) => TriedOnce(q)'
      BY <1>4, <3>3 DEF TriedOnce
    <3> QED
      BY <3>2, <3>3, <3>4 DEF ArcOK
  <2> QED
    BY <2>1, <2>2, <2>3 DEF Ahead
<1>6. routines' \subseteq Routine /\ RoutinesOK'
  BY <1>3, <1>5, Moves
<1>7. \/ received' = received
      \/ \E d \in Delivery :
           /\ received' = received \cup {d} /\ d.src = r.src
           /\ d.nth <= IF d.dest = "http" THEN 2 ELSE 1
  <2>1. CASE received' = received
    BY <2>1
  <2>2. CASE received' # received
    <3>1. PICK e : Seen(Current(r)[1], r.src) \subseteq {e}
      BY <2>2
    <3>2. PICK d \in Delivery :
            /\ received' = received \cup {d}
            /\ d.trigger = Current(r)[1] /\ d.src = r.src /\ d.dest = Current(r)[2].dest
            /\ d.nth <= 2 /\ (Seen(Current(r)[1], r.src) = {} => d.nth = 1)
      BY <2>2, <3>1, Numbered
    <3>3. d.dest = "http" \/ d.nth = 1
      BY <2>2, <3>2
    <3>4. d.nth <= IF d.dest = "http" THEN 2 ELSE 1
      BY <3>2, <3>3
    <3> QED
      BY <3>2, <3>4
  <2> QED
    BY <2>1, <2>2
<1>8. received' \subseteq Delivery
  BY <1>7 DEF Inv, TablesOK
<1>9. TablesOK'
  BY <1>6, <1>8 DEF Inv, TablesOK, tables
<1>10. HistoryOK'
  <2>1. ASSUME NEW d \in received'
        PROVE  Real(d.src)' /\ d.nth <= IF d.dest = "http" THEN 2 ELSE 1
    BY <1>1, <1>2, <1>7 DEF Inv, HistoryOK
  <2> QED
    BY <2>1 DEF Inv, HistoryOK
<1>11. OwedOK'
  <2>1. \A q \in routines : q.kind = "notify" => q \in routines'
    BY DEF Become
  <2> QED
    BY <2>1 DEF Inv, OwedOK, Accounted, tables
<1> QED
  BY <1>6, <1>9, <1>10, <1>11 DEF Inv

\* A goroutine that is done with its current trigger has delivered nothing to the
\* others.
LEMMA DeliveredStep ==
  ASSUME Inv, NEW r \in routines, r.kind = "eventarc", r.pc # "list",
         Delivered(r),
         UNCHANGED <<commits, gens, tables, reg, published, owed>>,
         \/ received' = received
         \/ /\ Receive(r)
            /\ \E e : Seen(Current(r)[1], r.src) \subseteq {e}
            /\ Seen(Current(r)[1], r.src) = {} \/ Current(r)[2].dest = "http"
  PROVE  Inv'
<1>1. PICK T, nx : T = r.todo \ {Current(r)} /\ nx = [r EXCEPT !.pc = "next", !.tries = 0, !.todo = T]
  OBVIOUS
<1>2. r \in Routine /\ ArcOK(r) /\ Become(r, nx, {})
  BY <1>1, RoutineFacts DEF Delivered
<1>3. /\ nx \in Routine /\ nx.kind = r.kind /\ nx.src = r.src /\ nx.pc = "next"
      /\ nx.todo = r.todo \ {Current(r)}
  <2>1. r.todo \subseteq (ConfigId \X Config) \cup (Trigger \X TriggerRow)
    BY <1>2 DEF Routine
  <2>2. T \subseteq (ConfigId \X Config) \cup (Trigger \X TriggerRow)
    BY <1>1, <2>1
  <2>3. nx \in Routine
    BY <1>1, <1>2, <2>2 DEF Routine
  <2> QED
    BY <1>1, <1>2, <2>3 DEF Routine
<1>4. ASSUME NEW w \in nx.todo PROVE Seen(w[1], nx.src)' = {}
  <2>1. Current(r) \in r.todo /\ w \in r.todo /\ w # Current(r)
    BY <1>2, <1>3, CurrentIsAhead DEF ArcOK
  <2>2. w[1] # Current(r)[1]
    BY <1>2, <2>1 DEF ArcOK, Once
  <2> QED
    BY <1>2, <1>3, <2>1, <2>2, SeenGrows DEF ArcOK
<1>5. nx.todo # {} => ArcOK(nx)'
  <2>1. nx.todo # {} => Current(nx) \in nx.todo
    BY CurrentIsAhead
  <2>2. nx.todo \subseteq Trigger \X TriggerRow /\ Once(nx.todo)
    BY <1>2, <1>3 DEF ArcOK, Once
  <2> QED
    BY <1>3, <1>4, <2>1, <2>2 DEF ArcOK
<1> QED
  BY <1>2, <1>3, <1>5, ArcStep

LEMMA ListTriggersStep ==
  ASSUME Inv, NEW r \in routines, listAllEventarcTriggers(r)
  PROVE  Inv'
<1>1. PICK mine, nx :
        /\ mine = {t \in Trigger : triggers[t] # None /\ eventarcMatches(triggers[t], r.src)}
        /\ nx = [r EXCEPT !.pc = "next", !.todo = {<<t, triggers[t]>> : t \in mine}]
  OBVIOUS
<1>2. /\ r.kind = "eventarc" /\ r.pc = "list" /\ Become(r, nx, {})
      /\ UNCHANGED <<commits, gens, tables, reg, published, received, owed>>
  BY <1>1 DEF listAllEventarcTriggers, Unaltered
<1>3. r \in Routine /\ Real(r.src) /\ ArcOK(r)
  BY <1>2, RoutineFacts
<1>4. triggers \in [Trigger -> TriggerRow \cup {None}]
  BY DEF Inv, TablesOK
<1>5. /\ nx.kind = "eventarc" /\ nx.src = r.src /\ nx.pc = "next"
      /\ nx.todo = {<<t, triggers[t]>> : t \in mine}
  BY <1>1, <1>2, <1>3 DEF Routine
<1>6. nx.todo \subseteq Trigger \X TriggerRow /\ Once(nx.todo)
  BY <1>1, <1>4, <1>5 DEF Once
<1>7. nx \in Routine
  BY <1>1, <1>3, <1>6 DEF Routine
<1>8. nx.todo # {} => ArcOK(nx)'
  <2>1. \A t \in Trigger : Seen(t, nx.src)' = {}
    BY <1>2, <1>3, <1>5 DEF ArcOK, Seen
  <2>2. nx.todo # {} => Current(nx) \in nx.todo
    BY CurrentIsAhead
  <2>3. \A w \in nx.todo : w[1] \in Trigger
    BY <1>6
  <2> QED
    BY <1>5, <1>6, <2>1, <2>2, <2>3 DEF ArcOK
<1>9. \A src : Real(src)' = Real(src)
  BY <1>2 DEF Real
<1>10. nx.todo # {} => Ahead(nx)'
  BY <1>3, <1>5, <1>8, <1>9 DEF Ahead
<1>11. ASSUME NEW q \in routines PROVE Ahead(q)'
  <2>1. Ahead(q)
    BY RoutineFacts
  <2>2. NotifyOK(q) => NotifyOK(q)'
    BY <1>2 DEF NotifyOK
  <2>3. ArcOK(q) => ArcOK(q)'
    BY <1>2 DEF ArcOK, TriedOnce, Seen
  <2> QED
    BY <1>9, <2>1, <2>2, <2>3 DEF Ahead
<1>12. routines' \subseteq Routine /\ RoutinesOK'
  BY <1>2, <1>5, <1>7, <1>10, <1>11, Moves
<1>13. OwedOK'
  <2>1. \A q \in routines : q.kind = "notify" => q \in routines'
    BY <1>2 DEF Become
  <2> QED
    BY <1>2, <2>1 DEF Inv, OwedOK, Accounted, tables
<1>14. TablesOK'
  BY <1>2, <1>12 DEF Inv, TablesOK, tables
<1>15. HistoryOK'
  BY <1>2 DEF Inv, HistoryOK, Real
<1> QED
  BY <1>12, <1>13, <1>14, <1>15 DEF Inv

\* One that goes on with its current trigger, which has seen nothing yet or the
\* call to repeat.
LEMMA SameTriggerStep ==
  ASSUME Inv, NEW r \in routines, r.kind = "eventarc", r.pc # "list",
         NEW nx \in Routine, nx.kind = r.kind, nx.src = r.src, nx.todo = r.todo, nx.pc # "list",
         Become(r, nx, {}),
         UNCHANGED <<commits, gens, tables, reg, published, owed>>,
         Seen(Current(r)[1], r.src) = {},
         \/ received' = received
         \/ Receive(r) /\ nx.pc = "next" /\ nx.tries = 1 /\ Current(r)[2].dest = "http"
  PROVE  Inv'
<1>1. ArcOK(r)
  BY RoutineFacts
<1>2. Current(nx) = Current(r)
  BY DEF Current
<1>3. \A w \in nx.todo \ {Current(nx)} : Seen(w[1], nx.src)' = {}
  <2>1. ASSUME NEW w \in r.todo, w # Current(r) PROVE Seen(w[1], r.src)' = {}
    <3>1. Current(r) \in r.todo
      BY <1>1, CurrentIsAhead DEF ArcOK
    <3>2. w[1] # Current(r)[1]
      BY <1>1, <2>1, <3>1 DEF ArcOK, Once
    <3> QED
      BY <1>1, <2>1, <3>2, SeenGrows DEF ArcOK
  <2> QED
    BY <1>2, <2>1
<1>4. Seen(Current(nx)[1], nx.src)' = {} \/ TriedOnce(nx)'
  <2>1. CASE received' = received
    BY <1>2, <2>1 DEF Seen
  <2>2. CASE Receive(r) /\ nx.pc = "next" /\ nx.tries = 1 /\ Current(r)[2].dest = "http"
    <3>1. PICK e : e = r
      OBVIOUS
    <3>2. Seen(Current(r)[1], r.src) \subseteq {e}
      OBVIOUS
    <3>3. PICK d \in Delivery : received' = received \cup {d}
      BY <2>2, <3>2, Numbered
    <3>4. Seen(Current(r)[1], r.src)' \subseteq {d}
      BY <3>3 DEF Seen
    <3> QED
      BY <1>2, <2>2, <3>3, <3>4 DEF TriedOnce
  <2> QED
    BY <2>1, <2>2
<1>5. ArcOK(nx)'
  BY <1>1, <1>3, <1>4 DEF ArcOK
<1>6. \E e : Seen(Current(r)[1], r.src) \subseteq {e}
  OBVIOUS
<1> QED
  BY <1>5, <1>6, ArcStep

LEMMA ArcSteps ==
  ASSUME Inv, NEW r \in routines,
         GetCloudFunction(r) \/ eventarcAllowFunctionInvoke(r) \/ RecordDelivery(r) \/ Post(r)
  PROVE  Inv'
<1>1. r \in Routine /\ r.kind = "eventarc" /\ r.pc # "list"
  <2>1. r \in Routine /\ (r.kind = "notify" => r.pc \in {"list", "next"})
    BY RoutineFacts DEF NotifyOK
  <2> QED
    BY <2>1 DEF GetCloudFunction, eventarcAllowFunctionInvoke, RecordDelivery, Post, Bound, Routine
<1>2. ArcOK(r)
  BY <1>1, RoutineFacts
<1>3. r.pc # "next" \/ Current(r)[2].dest # "http" \/ r.tries # 1 => Seen(Current(r)[1], r.src) = {}
  BY <1>1, <1>2 DEF ArcOK, TriedOnce
<1>4. \E e : Seen(Current(r)[1], r.src) \subseteq {e}
  <2>1. CASE Seen(Current(r)[1], r.src) = {}
    BY <2>1
  <2>2. CASE TriedOnce(r)
    BY <2>2 DEF TriedOnce
  <2> QED
    BY <1>1, <1>2, <2>1, <2>2 DEF ArcOK
<1>5. UNCHANGED <<commits, gens, tables, reg, published, owed>>
  BY DEF GetCloudFunction, eventarcAllowFunctionInvoke, RecordDelivery, Post, Unaltered
<1>6. CASE GetCloudFunction(r)
  <2>1. r.pc = "next" /\ Seen(Current(r)[1], r.src) = {} /\ received' = received
    BY <1>3, <1>6 DEF GetCloudFunction, Bound
  <2>2. \/ Become(r, [r EXCEPT !.pc = "authorize"], {})
        \/ Become(r, [r EXCEPT !.tries = 1], {})
        \/ Delivered(r)
    BY <1>6 DEF GetCloudFunction
  <2>3. CASE Become(r, [r EXCEPT !.pc = "authorize"], {})
    <3>1. PICK nx : nx = [r EXCEPT !.pc = "authorize"]
      OBVIOUS
    <3>2. /\ nx \in Routine /\ nx.kind = r.kind /\ nx.src = r.src
          /\ nx.todo = r.todo /\ nx.pc = "authorize" /\ Become(r, nx, {})
      BY <1>1, <2>3, <3>1 DEF Routine
    <3> QED
      BY <1>1, <1>5, <2>1, <3>2, SameTriggerStep
  <2>4. CASE Become(r, [r EXCEPT !.tries = 1], {})
    <3>1. PICK nx : nx = [r EXCEPT !.tries = 1]
      OBVIOUS
    <3>2. /\ nx \in Routine /\ nx.kind = r.kind /\ nx.src = r.src
          /\ nx.todo = r.todo /\ nx.pc = "next" /\ Become(r, nx, {})
      BY <1>1, <2>1, <2>4, <3>1 DEF Routine
    <3> QED
      BY <1>1, <1>5, <2>1, <3>2, SameTriggerStep
  <2>5. CASE Delivered(r)
    BY <1>1, <1>5, <2>1, <2>5, DeliveredStep
  <2> QED
    BY <2>2, <2>3, <2>4, <2>5
<1>7. CASE eventarcAllowFunctionInvoke(r)
  <2>1. r.pc = "authorize" /\ Seen(Current(r)[1], r.src) = {} /\ received' = received
    BY <1>3, <1>7 DEF eventarcAllowFunctionInvoke
  <2>2. Become(r, [r EXCEPT !.pc = "record"], {}) \/ Delivered(r)
    BY <1>7 DEF eventarcAllowFunctionInvoke
  <2>3. CASE Become(r, [r EXCEPT !.pc = "record"], {})
    <3>1. PICK nx : nx = [r EXCEPT !.pc = "record"]
      OBVIOUS
    <3>2. /\ nx \in Routine /\ nx.kind = r.kind /\ nx.src = r.src
          /\ nx.todo = r.todo /\ nx.pc = "record" /\ Become(r, nx, {})
      BY <1>1, <2>3, <3>1 DEF Routine
    <3> QED
      BY <1>1, <1>5, <2>1, <3>2, SameTriggerStep
  <2>4. CASE Delivered(r)
    BY <1>1, <1>5, <2>1, <2>4, DeliveredStep
  <2> QED
    BY <2>2, <2>3, <2>4
<1>8. CASE RecordDelivery(r)
  <2>1. Seen(Current(r)[1], r.src) = {} /\ Delivered(r) /\ Receive(r)
    BY <1>3, <1>8 DEF RecordDelivery, Bound
  <2> QED
    BY <1>1, <1>4, <1>5, <2>1, DeliveredStep
<1>9. CASE Post(r)
  <2>1. /\ r.pc = "next" /\ Current(r)[2].dest = "http"
        /\ Receive(r) \/ received' = received
        /\ \/ r.tries = 0 /\ Become(r, [r EXCEPT !.tries = 1], {})
           \/ Delivered(r)
    BY <1>9 DEF Post, Bound
  <2>2. CASE r.tries = 0 /\ Become(r, [r EXCEPT !.tries = 1], {})
    <3>1. PICK nx : nx = [r EXCEPT !.tries = 1]
      OBVIOUS
    <3>2. /\ nx \in Routine /\ nx.kind = r.kind /\ nx.src = r.src
          /\ nx.todo = r.todo /\ nx.pc = "next" /\ nx.tries = 1 /\ Become(r, nx, {})
      BY <1>1, <2>1, <2>2, <3>1 DEF Routine
    <3>3. Seen(Current(r)[1], r.src) = {}
      BY <1>3, <2>2
    <3> QED
      BY <1>1, <1>5, <2>1, <3>2, <3>3, SameTriggerStep
  <2>3. CASE Delivered(r)
    BY <1>1, <1>4, <1>5, <2>1, <2>3, DeliveredStep
  <2> QED
    BY <2>1, <2>2, <2>3
<1> QED
  BY <1>6, <1>7, <1>8, <1>9

-----------------------------------------------------------------------------
(***************************************************************************)
(* The invariant, and what follows from it.                                *)
(***************************************************************************)

LEMMA InitInv == Init => Inv
<1> SUFFICES ASSUME Init PROVE Inv
  OBVIOUS
<1>1. Idle \in Request_
  BY DEF Idle, Request_
<1>2. gens \subseteq 1 .. Len(commits) + 1
  BY DEF Init
<1>3. TablesOK
  BY <1>1, <1>2 DEF Init, TablesOK
<1>4. RoutinesOK /\ OwedOK
  BY DEF Init, RoutinesOK, OwedOK, Accounted
<1>5. HistoryOK
  BY DEF Init, HistoryOK
<1> QED
  BY <1>3, <1>4, <1>5 DEF Inv

LEMMA RestartStep ==
  ASSUME Inv, Restart
  PROVE  Inv'
<1>1. Idle \in Request_
  BY DEF Idle, Request_
<1>2. TablesOK'
  BY <1>1 DEF Inv, TablesOK, Restart, tables
<1>3. RoutinesOK' /\ OwedOK'
  BY DEF Restart, RoutinesOK, OwedOK, Accounted
<1>4. HistoryOK'
  BY DEF Inv, HistoryOK, Real, Restart
<1> QED
  BY <1>2, <1>3, <1>4 DEF Inv

LEMMA NextInv == Inv /\ [Next]_vars => Inv'
<1> SUFFICES ASSUME Inv, [Next]_vars PROVE Inv'
  OBVIOUS
<1>1. CASE PutObject \/ DeleteObject
  BY <1>1, ObjectSteps
<1>2. CASE \E h \in Handler : Request(h) \/ RequestStep(h)
  BY <1>2, RequestSteps
<1>3. CASE Administer \/ AdministerTriggers
  BY <1>3, AdministerSteps
<1>4. ASSUME NEW r \in routines, RoutineStep(r) PROVE Inv'
  <2>1. CASE ListNotificationConfigs(r)
    BY <2>1, ListConfigsStep
  <2>2. CASE PublishNotification(r)
    BY <2>2, PublishStep
  <2>3. CASE listAllEventarcTriggers(r)
    BY <2>3, ListTriggersStep
  <2>4. CASE GetCloudFunction(r) \/ eventarcAllowFunctionInvoke(r) \/ RecordDelivery(r) \/ Post(r)
    BY <2>4, ArcSteps
  <2> QED
    BY <1>4, <2>1, <2>2, <2>3, <2>4 DEF RoutineStep
<1>5. CASE Restart
  BY <1>5, RestartStep
<1>6. CASE UNCHANGED vars
  <2>1. /\ configs \in [ConfigId -> Config \cup {None}] /\ gens \subseteq 1 .. Len(commits) + 1
        /\ triggers \in [Trigger -> TriggerRow \cup {None}] /\ meta \in Nat
        /\ reg \in [Handler -> Request_]
        /\ \A o \in owed : configs[o[2]] # None
    BY DEF Inv, TablesOK, OwedOK
  <2> QED
    BY <1>6, <2>1, QuietStep DEF vars, tables
<1> QED
  BY <1>1, <1>2, <1>3, <1>4, <1>5, <1>6 DEF Next

\* The invariant of the goroutines and of what they have done, for every set of
\* handlers, topics and triggers.
THEOREM Invariance == Spec => []Inv
<1> QED
  BY InitInv, NextInv, PTL DEF Spec

\* DeliverGCSNotifications skips no configuration: what is owed to one is ahead of a
\* goroutine of its event.
THEOREM AccountedHolds == Spec => []Accounted
<1>1. Inv => Accounted
  BY DEF Inv, OwedOK
<1> QED
  BY <1>1, Invariance, PTL

\* An event is published at most once for a configuration, and delivered at most once
\* to a trigger in process and at most twice by HTTP.
THEOREM DeliveredOnceHolds == Spec => []DeliveredOnce
<1>1. Inv => DeliveredOnce
  BY DEF Inv, TablesOK, HistoryOK, DeliveredOnce
<1> QED
  BY <1>1, Invariance, PTL

\* CreateNotificationConfig never replaces the configuration another request stored
\* under the id both have drawn.
THEOREM ConfigsStayHolds == Spec => ConfigsStay
<1> DEFINE Stay == \A i \in ConfigId : configs[i] # None => configs'[i] \in {configs[i], None}
<1>1. Inv /\ [Next]_vars => [Stay]_vars
  <2> SUFFICES ASSUME Inv, [Next]_vars PROVE Stay
    OBVIOUS
  <2>1. configs \in [ConfigId -> Config \cup {None}]
    BY DEF Inv, TablesOK
  <2>2. CASE configs' = configs
    BY <2>2
  <2>3. ASSUME NEW h \in Handler, CreateNotificationConfig(h) PROVE Stay
    BY <2>1, <2>3 DEF CreateNotificationConfig
  <2>4. ASSUME NEW h \in Handler, DeleteNotificationConfig(h) PROVE Stay
    BY <2>1, <2>4 DEF DeleteNotificationConfig
  <2>5. \/ configs' = configs
        \/ \E h \in Handler : CreateNotificationConfig(h) \/ DeleteNotificationConfig(h)
    <3>1. CASE \E h \in Handler : Request(h) \/ RequestStep(h)
      BY <3>1 DEF Request, insertNotification, deleteNotification, ReadBucket, RequestStep,
                  NextNotificationID, bumpBucketMetageneration, tables
    <3>2. CASE PutObject \/ DeleteObject \/ Restart \/ UNCHANGED vars
      BY <3>2 DEF PutObject, DeleteObject, Restart, vars, tables
    <3>3. CASE Administer \/ AdministerTriggers
      BY <3>3 DEF Administer, AdministerTriggers, DeleteEventarcTrigger, CreateEventarcTrigger
    <3>4. CASE \E r \in routines : RoutineStep(r)
      BY <3>4 DEF RoutineStep, ListNotificationConfigs, PublishNotification, listAllEventarcTriggers,
                  GetCloudFunction, eventarcAllowFunctionInvoke, RecordDelivery, Post, Unaltered, tables
    <3> QED
      BY <3>1, <3>2, <3>3, <3>4 DEF Next
  <2> HIDE DEF Stay
  <2> QED
    BY <2>2, <2>3, <2>4, <2>5
<1> QED
  BY <1>1, Invariance, PTL DEF Spec, ConfigsStay
=============================================================================
