------------------------------ MODULE Eventing ------------------------------
(***************************************************************************)
(* What a write of an object sets off: the Pub/Sub notifications of its    *)
(* bucket (internal/store/gcs_notifications.go), the Eventarc triggers     *)
(* (internal/store/eventarc_triggers.go), and the triggers that match the  *)
(* messages the notifications publish.                                     *)
(*                                                                         *)
(* The write or the delete commits and answers; everything else is done by *)
(* goroutines it leaves behind, which read the tables one statement at a   *)
(* time while clients change them, and which a stop of the process loses.  *)
(* One bucket holds one object; VPC Service Controls are not enforced.     *)
(***************************************************************************)
EXTENDS Integers, FiniteSets, Sequences

CONSTANTS
  Handler,      \* goroutines of the requests that create or delete a configuration
  Topic,        \* Pub/Sub topics
  Trigger,      \* Eventarc trigger names
  Offered,      \* [Trigger -> SUBSET TriggerRow]: what clients create them as
  None,         \* no row
  MaxEvents,    \* bound: writes and deletes of the object
  MaxConfig,    \* bound: notification ids
  MaxMeta       \* bound: the metageneration

EventType  == {"OBJECT_FINALIZE", "OBJECT_DELETE"}
Event      == 1 .. MaxEvents
ConfigId   == 1 .. MaxConfig

\* types = {} stands for every type.  An object name prefix is one more reason not
\* to match, of which the object has one name.
Config     == [topic : Topic, types : SUBSET EventType]

\* What the destination of a trigger resolves to: a function of the lab, the lab's
\* recorder or another URI.
Destination == {"function", "catcher", "http"}
TriggerRow == [type : {"finalized", "messagePublished"}, topic : Topic \cup {None},
               dest : Destination]

\* What an Eventarc goroutine delivers: the finalize of an event, or the message
\* that a configuration published for one.
Source     == [event : Event, config : ConfigId \cup {None}, topic : Topic \cup {None}]
Routine    == [kind : {"notify", "eventarc"}, src : Source,
               pc : {"list", "next", "authorize", "record"},
               todo : SUBSET ((ConfigId \X Config) \cup (Trigger \X TriggerRow)),
               tries : {0, 1}]

ASSUME ConstantsAssumption ==
  /\ MaxEvents \in Nat /\ MaxConfig \in Nat \ {0} /\ MaxMeta \in Nat
  /\ Offered \in [Trigger -> SUBSET TriggerRow]
  /\ None \notin Config /\ None \notin TriggerRow /\ None \notin ConfigId /\ None \notin Topic

VARIABLES
  commits,      \* the committed writes and deletes, in order; lost objects are not told apart
  gens,         \* table objects: the generations stored
  topics,       \* table pubsub_topics
  configs,      \* table gcs_notification_configs
  meta,         \* column metageneration of the bucket
  triggers,     \* table eventarc_triggers
  function,     \* the function row exists
  invoker,      \* the delivery identity may invoke it
  routines,     \* goroutines at work
  reg,          \* what each request knows
  published,    \* history: messages published, by event and configuration
  received,     \* history: deliveries made, by trigger and source
  owed          \* history: configurations an event has still to be published for

tables == <<topics, configs, meta, triggers, function, invoker>>
vars   == <<commits, gens, tables, routines, reg, published, received, owed>>

Idle == [pc |-> "idle", base |-> 0, id |-> None, cfg |-> None]
At(h, pc)   == reg[h].pc = pc
Goto(h, r)  == reg' = [reg EXCEPT ![h] = r]
Largest(S)  == CHOOSE n \in S \cup {0} : \A m \in S : m <= n

Stored == {i \in ConfigId : configs[i] # None}

\* notificationMatches
notificationMatches(cfg, type) == cfg.types = {} \/ type \in cfg.types

\* eventarcMatches: a finalize carries no topic, and then any transport matches.
eventarcMatches(row, src) ==
  /\ row.type = IF src.config = None THEN "finalized" ELSE "messagePublished"
  /\ src.topic # None /\ row.topic # None => row.topic = src.topic

Spawn(kind, src) == [kind |-> kind, src |-> src, pc |-> "list", todo |-> {}, tries |-> 0]
FinalizeSource(n) == [event |-> n, config |-> None, topic |-> None]
MessageSource(n, w) == [event |-> n, config |-> w[1], topic |-> w[2].topic]

Init ==
  /\ commits = <<>> /\ gens \in {{}, {1}}
  /\ topics \in SUBSET Topic
  /\ configs = [i \in ConfigId |-> None] /\ meta = 1
  /\ triggers \in [Trigger -> TriggerRow \cup {None}]
  /\ \A t \in Trigger : triggers[t] \in Offered[t] \cup {None}
  /\ function = TRUE /\ invoker \in BOOLEAN
  /\ routines = {}
  /\ reg = [h \in Handler |-> Idle]
  /\ published = [p \in Event \X ConfigId |-> 0]
  /\ received = {}
  /\ owed = {}

-----------------------------------------------------------------------------
(* The object.                                                             *)

\* An event is committed: its goroutines start, and it is owed to every
\* configuration that is stored and matches.
Commit(type, gen, started) ==
  LET n == Len(commits) + 1
  IN  /\ n <= MaxEvents
      /\ commits' = Append(commits, [type |-> type, gen |-> gen])
      /\ routines' = routines \cup started
      /\ owed' = owed \cup {<<n, i>> : i \in {j \in Stored : notificationMatches(configs[j], type)}}

\* PutObjectBytesMeta, from the statement that makes the object visible.
PutObject ==
  LET n == Len(commits) + 1
      g == Largest(gens) + 1
  IN  /\ Commit("OBJECT_FINALIZE", g, {Spawn("eventarc", FinalizeSource(n)), Spawn("notify", FinalizeSource(n))})
      /\ gens' = gens \cup {g}
      /\ UNCHANGED <<tables, reg, published, received>>

\* DeleteObject has no Eventarc event of its own.
DeleteObject ==
  \E g \in gens :
    /\ Commit("OBJECT_DELETE", g, {Spawn("notify", FinalizeSource(Len(commits) + 1))})
    /\ gens' = gens \ {g}
    /\ UNCHANGED <<tables, reg, published, received>>

-----------------------------------------------------------------------------
(* Notification configurations.                                            *)

\* Both handlers read the bucket first; the metageneration they write at the end
\* is the one they read plus one.
ReadBucket(h, pc, cfg, id) ==
  /\ At(h, "idle")
  /\ Goto(h, [pc |-> pc, base |-> meta, id |-> id, cfg |-> cfg])
  /\ UNCHANGED <<commits, gens, tables, routines, published, received, owed>>

insertNotification(h, cfg) == ReadBucket(h, "number", cfg, None)
deleteNotification(h, id)  == ReadBucket(h, "delete", None, id)

\* SELECT MAX(id) + 1.
NextNotificationID(h) ==
  /\ At(h, "number")
  /\ Largest(Stored) < MaxConfig
  /\ Goto(h, [reg[h] EXCEPT !.pc = "insert", !.id = Largest(Stored) + 1])
  /\ UNCHANGED <<commits, gens, tables, routines, published, received, owed>>

\* Mutant: INSERT OR REPLACE.
CreateNotificationConfigReplaces(h) ==
  /\ At(h, "insert")
  /\ configs' = [configs EXCEPT ![reg[h].id] = reg[h].cfg]
  /\ Goto(h, [reg[h] EXCEPT !.pc = "bump"])
  /\ UNCHANGED <<commits, gens, topics, meta, triggers, function, invoker, routines, published, received, owed>>

\* INSERT; the primary key refuses an id that another request has taken since.
CreateNotificationConfig(h) ==
  /\ At(h, "insert")
  /\ IF configs[reg[h].id] = None
     THEN /\ configs' = [configs EXCEPT ![reg[h].id] = reg[h].cfg]
          /\ Goto(h, [reg[h] EXCEPT !.pc = "bump"])
     ELSE Goto(h, Idle) /\ UNCHANGED configs
  /\ UNCHANGED <<commits, gens, topics, meta, triggers, function, invoker, routines, published, received, owed>>

\* Nothing is owed to a configuration that is gone.
DeleteNotificationConfig(h) ==
  /\ At(h, "delete")
  /\ configs' = [configs EXCEPT ![reg[h].id] = None]
  /\ Goto(h, IF configs[reg[h].id] = None THEN Idle ELSE [reg[h] EXCEPT !.pc = "bump"])
  /\ owed' = {o \in owed : o[2] # reg[h].id}
  /\ UNCHANGED <<commits, gens, topics, meta, triggers, function, invoker, routines, published, received>>

bumpBucketMetageneration(h) ==
  /\ At(h, "bump")
  /\ reg[h].base < MaxMeta
  /\ meta' = reg[h].base + 1
  /\ Goto(h, Idle)
  /\ UNCHANGED <<commits, gens, topics, configs, triggers, function, invoker, routines, published, received, owed>>

-----------------------------------------------------------------------------
(* Clients change what the goroutines read.                                *)

Administer ==
  /\ \/ \E t \in Topic : topics' \in {topics \cup {t}, topics \ {t}}
        /\ UNCHANGED <<triggers, function, invoker>>
     \/ function' = ~function /\ UNCHANGED <<topics, triggers, invoker>>
     \/ invoker' = ~invoker /\ UNCHANGED <<topics, triggers, function>>
  /\ UNCHANGED <<commits, gens, configs, meta, routines, reg, published, received, owed>>

\* INSERT OR IGNORE: a trigger of that name ends the request.
InsertTrigger(t, row) ==
  triggers' = IF triggers[t] = None THEN [triggers EXCEPT ![t] = row] ELSE triggers

\* The rows offered are those of a supported type, a destination the egress gate
\* lets through and a delivery identity the client may act as.
CreateEventarcTrigger(t, row) ==
  /\ InsertTrigger(t, row)
  /\ UNCHANGED <<commits, gens, topics, configs, meta, function, invoker, routines, reg, published, received, owed>>

DeleteEventarcTrigger(t) ==
  /\ triggers[t] # None
  /\ triggers' = [triggers EXCEPT ![t] = None]
  /\ UNCHANGED <<commits, gens, topics, configs, meta, function, invoker, routines, reg, published, received, owed>>

-----------------------------------------------------------------------------
(* DeliverGCSNotifications: one goroutine per event.                       *)

\* r goes on with what is left to do, as next, or ends.
Become(r, next, spawned) ==
  routines' = (routines \ {r}) \cup spawned \cup (IF next.todo = {} THEN {} ELSE {next})
Unaltered == UNCHANGED <<commits, gens, tables, reg>>

ListNotificationConfigs(r) ==
  /\ r.kind = "notify" /\ r.pc = "list"
  /\ Become(r, [r EXCEPT !.pc = "next", !.todo = {<<i, configs[i]>> : i \in Stored}], {})
  /\ Unaltered /\ UNCHANGED <<published, received, owed>>

\* The lowest id is next.
FirstConfig(r) == CHOOSE w \in r.todo : \A v \in r.todo : w[1] <= v[1]

\* Mutant: a topic that is missing ends the goroutine.
PublishNotificationStops(r) ==
  /\ r.kind = "notify" /\ r.pc = "next"
  /\ LET w   == FirstConfig(r)
         n   == r.src.event
         due == notificationMatches(w[2], commits[n].type) /\ w[2].topic \in topics
     IN  /\ Become(r, [r EXCEPT !.todo = IF due THEN @ \ {w} ELSE {}],
                      IF due THEN {Spawn("eventarc", MessageSource(n, w))} ELSE {})
         /\ published' = IF due THEN [published EXCEPT ![<<n, w[1]>>] = @ + 1] ELSE published
         /\ owed' = owed \ {<<n, w[1]>>}
  /\ Unaltered /\ UNCHANGED received

\* Mutant: a topic that is missing is waited for.
PublishNotificationWaits(r) ==
  /\ r.kind = "notify" /\ r.pc = "next"
  /\ LET w   == FirstConfig(r)
         n   == r.src.event
         due == notificationMatches(w[2], commits[n].type)
     IN  /\ w[2].topic \in topics
         /\ Become(r, [r EXCEPT !.todo = @ \ {w}], IF due THEN {Spawn("eventarc", MessageSource(n, w))} ELSE {})
         /\ published' = IF due THEN [published EXCEPT ![<<n, w[1]>>] = @ + 1] ELSE published
         /\ owed' = owed \ {<<n, w[1]>>}
  /\ Unaltered /\ UNCHANGED received

\* Publish checks the topic and commits the copies, then leaves a goroutine of its
\* own behind; a topic that is missing is passed over.
PublishNotification(r) ==
  /\ r.kind = "notify" /\ r.pc = "next"
  /\ LET w   == FirstConfig(r)
         n   == r.src.event
         due == notificationMatches(w[2], commits[n].type) /\ w[2].topic \in topics
     IN  /\ Become(r, [r EXCEPT !.todo = @ \ {w}], IF due THEN {Spawn("eventarc", MessageSource(n, w))} ELSE {})
         /\ published' = IF due THEN [published EXCEPT ![<<n, w[1]>>] = @ + 1] ELSE published
         /\ owed' = owed \ {<<n, w[1]>>}
  /\ Unaltered /\ UNCHANGED received

-----------------------------------------------------------------------------
(* DeliverEventarcForGCSFinalize and DeliverEventarcForPubSub.             *)

\* One query; the triggers that do not match are passed over.
listAllEventarcTriggers(r) ==
  /\ r.kind = "eventarc" /\ r.pc = "list"
  /\ LET mine == {t \in Trigger : triggers[t] # None /\ eventarcMatches(triggers[t], r.src)}
     IN  Become(r, [r EXCEPT !.pc = "next", !.todo = {<<t, triggers[t]>> : t \in mine}], {})
  /\ Unaltered /\ UNCHANGED <<published, received, owed>>

\* The trigger under delivery stays in todo until its delivery ends.
Current(r)    == CHOOSE w \in r.todo : TRUE
Bound(r, to)  == r.kind = "eventarc" /\ r.pc = "next" /\ Current(r)[2].dest = to
Delivered(r)  == Become(r, [r EXCEPT !.pc = "next", !.tries = 0, !.todo = @ \ {Current(r)}], {})

\* deliverEventarc looks the function up before it resolves its URI and once more
\* after, when the URI is that of the lab's own :invoke; missing both times, the
\* call that follows answers 404 and is not repeated.
GetCloudFunction(r) ==
  /\ Bound(r, "function")
  /\ \/ function /\ Become(r, [r EXCEPT !.pc = "authorize"], {})
     \/ ~function /\ r.tries = 0 /\ Become(r, [r EXCEPT !.tries = 1], {})
     \/ ~function /\ r.tries = 1 /\ Delivered(r)
  /\ Unaltered /\ UNCHANGED <<published, received, owed>>

eventarcAllowFunctionInvoke(r) ==
  /\ r.pc = "authorize"
  /\ IF invoker THEN Become(r, [r EXCEPT !.pc = "record"], {}) ELSE Delivered(r)
  /\ Unaltered /\ UNCHANGED <<published, received, owed>>

\* Deliveries of one source to one trigger are numbered.
Count(t, src) == Cardinality({d \in received : d.trigger = t /\ d.src = src})
Receive(r) ==
  LET w == Current(r)
  IN  received' = received \cup {[trigger |-> w[1], src |-> r.src, nth |-> Count(w[1], r.src) + 1,
                                  dest |-> w[2].dest]}

\* RecordCloudFunctionInvoke, RecordHTTPCatcher.
RecordDelivery(r) ==
  /\ r.pc = "record" \/ Bound(r, "catcher")
  /\ Delivered(r)
  /\ Receive(r)
  /\ Unaltered /\ UNCHANGED <<published, owed>>

\* Mutant: a failed call is repeated until it succeeds.
PostRepeats(r) ==
  /\ Bound(r, "http")
  /\ \E failed, seen \in BOOLEAN :
       /\ failed \/ seen
       /\ IF seen /\ Count(Current(r)[1], r.src) < 4 THEN Receive(r) ELSE UNCHANGED received
       /\ IF failed THEN UNCHANGED routines ELSE Delivered(r)
  /\ Unaltered /\ UNCHANGED <<published, owed>>

\* The call fails by a transport error or a 5xx, whether or not its target saw it;
\* it is then repeated once.
Post(r) ==
  /\ Bound(r, "http")
  /\ \E failed, seen \in BOOLEAN :
       /\ failed \/ seen
       /\ IF seen THEN Receive(r) ELSE UNCHANGED received
       /\ IF failed /\ r.tries = 0 THEN Become(r, [r EXCEPT !.tries = 1], {}) ELSE Delivered(r)
  /\ Unaltered /\ UNCHANGED <<published, owed>>

-----------------------------------------------------------------------------

\* The process stops and starts: the tables stay, the goroutines and what they
\* had still to do are gone.
Restart ==
  /\ routines # {} \/ \E h \in Handler : ~At(h, "idle")
  /\ routines' = {} /\ owed' = {}
  /\ reg' = [h \in Handler |-> Idle]
  /\ UNCHANGED <<commits, gens, tables, published, received>>

RoutineStep(r) ==
  \/ ListNotificationConfigs(r) \/ PublishNotification(r)
  \/ listAllEventarcTriggers(r)
  \/ GetCloudFunction(r) \/ eventarcAllowFunctionInvoke(r)
  \/ RecordDelivery(r) \/ Post(r)

Request(h) ==
  \/ \E cfg \in Config : insertNotification(h, cfg)
  \/ \E i \in ConfigId : deleteNotification(h, i)

RequestStep(h) ==
  \/ NextNotificationID(h) \/ CreateNotificationConfig(h)
  \/ DeleteNotificationConfig(h) \/ bumpBucketMetageneration(h)

AdministerTriggers ==
  \E t \in Trigger : DeleteEventarcTrigger(t) \/ \E row \in Offered[t] : CreateEventarcTrigger(t, row)

Next ==
  \/ PutObject \/ DeleteObject
  \/ \E h \in Handler : Request(h) \/ RequestStep(h)
  \/ Administer \/ AdministerTriggers
  \/ \E r \in routines : RoutineStep(r)
  \/ Restart

\* Goroutines run on; clients do as they please.
Spec == Init /\ [][Next]_vars /\ WF_vars(\E r \in routines : RoutineStep(r))

-----------------------------------------------------------------------------
(* Properties.                                                             *)

\* An event that is still owed to a configuration has a goroutine that has yet to
\* read the configurations or has that one ahead of it: a missing topic, another
\* configuration or another event never makes DeliverGCSNotifications skip one.
Accounted ==
  \A o \in owed : \E r \in routines :
    /\ r.kind = "notify" /\ r.src.event = o[1]
    /\ \/ r.pc = "list"
       \/ \E w \in r.todo : w[1] = o[2]

\* However goroutines, clients and restarts interleave, an event is published at
\* most once for a configuration, and a trigger gets a message at most once in
\* process and at most twice by HTTP: one retry, as documented.
DeliveredOnce ==
  /\ \A p \in DOMAIN published : published[p] <= 1
  /\ \A d \in received : d.nth <= IF d.dest = "http" THEN 2 ELSE 1

\* Two requests that draw the same id never overwrite each other: a stored
\* configuration stays as its creator was told until it is deleted.
ConfigsStay ==
  [][\A i \in ConfigId : configs[i] # None => configs'[i] \in {configs[i], None}]_vars

\* What is owed is published, passed over or lost to a restart: the goroutines of
\* an event do not get stuck behind each other.
EventsSettle ==
  \A n \in Event, i \in ConfigId : <<n, i>> \in owed ~> <<n, i>> \notin owed
=============================================================================
