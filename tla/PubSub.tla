------------------------------- MODULE PubSub -------------------------------
(***************************************************************************)
(* The Pub/Sub data plane: internal/store/pubsub.go driven by the handlers *)
(* of internal/services/pubsub/service.go.                                 *)
(*                                                                         *)
(* SQLite is opened with one connection, so each statement and each        *)
(* transaction is atomic; a handler is a sequence of them, and handlers    *)
(* (one goroutine per request, one per StreamingPull stream) interleave    *)
(* between any two.  A handler's registers are lost when the server stops; *)
(* the tables are not.                                                     *)
(*                                                                         *)
(* A copy of a message is the pair <<id, subscription>>; its ack_id, a     *)
(* fresh UUID per inserted row, is in bijection with the pair.  Ids are    *)
(* drawn in the order of publish_time.  The two columns delivered and      *)
(* ack_deadline are read together as a lease: "free" (delivered = 0),      *)
(* "held" (deadline ahead), "expired" (deadline behind), and "none" when   *)
(* the row does not exist.  A lease may expire at any moment.              *)
(***************************************************************************)
EXTENDS Integers, FiniteSets

CONSTANTS
  Topic,        \* topic names
  Sub,          \* subscription names
  Payload,      \* what messages carry; a filter is the set of payloads it accepts
  Handler,      \* goroutines serving requests
  Offered,      \* [Sub -> SUBSET SubConfig]: what clients create or patch a subscription to
  MaxAttempts,  \* maxDeliveryAttempts of a dead-letter policy (the code takes 5..100)
  PullMax,      \* maxMessages of a Pull
  MaxId,        \* bound on the number of messages
  MaxTries,     \* bound on the deliveries of one copy after which its lease no longer lapses
  NoTopic, NoSub, NoMessage, NoWork

MsgId == 1 .. MaxId
Copy  == MsgId \X Sub

SubConfig == [topic: Topic, push: BOOLEAN, accepts: SUBSET Payload,
              deadLetter: Topic \cup {NoTopic}]

\* A message: its payload, and the copy it was forwarded from by a dead-letter policy.
NoCopy  == <<0, NoSub>>
Message == [data: Payload, from: Copy \cup {NoCopy}]

\* A row as a handler has read it.
Work == [copy: Copy, attempts: Nat]

ASSUME ConstantsAssumption ==
  /\ MaxAttempts \in Nat \ {0} /\ PullMax \in Nat \ {0}
  /\ MaxId \in Nat /\ MaxTries \in Nat
  /\ Offered \in [Sub -> SUBSET SubConfig]
  /\ NoTopic \notin Topic /\ NoSub \notin SubConfig /\ NoSub \notin Sub
  /\ NoMessage \notin Message /\ NoWork \notin Work

VARIABLES
  topics,    \* table pubsub_topics
  subs,      \* table pubsub_subscriptions
  message,   \* data and attributes of the copies of each id
  lease,     \* columns delivered and ack_deadline of table pubsub_messages
  attempts,  \* column delivery_attempts
  nextId,    \* the next id
  reg,       \* registers of each handler
  tries,     \* history: deliveries of a copy made to pullers or recorded as failed pushes
  past       \* history: what has happened to each copy

vars == <<topics, subs, message, lease, attempts, nextId, reg, tries, past>>
tables == <<topics, subs, message, lease, attempts, nextId>>

Stored(c) == lease[c] # "none"

\* Mutants: a lapsed lease is not available again; only a lapsed lease is.
AvailableOnce(c) == lease[c] = "free"
AvailableLapsed(c) == lease[c] = "expired"

Available(c) == lease[c] \in {"free", "expired"}

Idle == [pc |-> "idle", caller |-> "publish", sub |-> NoSub, cfg |-> NoSub,
         topic |-> NoTopic, out |-> NoMessage, dest |-> {}, work |-> {},
         cur |-> NoWork, got |-> {}]

Set(h, r) == reg' = [reg EXCEPT ![h] = r]
At(h, label) == reg[h].pc = label

\* The next candidate of a loop over rows ordered by publish_time.
Oldest(work) == {w \in work : \A v \in work : w.copy[1] <= v.copy[1]}

\* Mutant: the policy counts one attempt too many.
DueEarly(cfg, w) == cfg.deadLetter # NoTopic /\ w.attempts + 2 >= MaxAttempts

\* Whether a delivery would be the one that exhausts the dead-letter policy.
Due(cfg, w) == cfg.deadLetter # NoTopic /\ w.attempts + 1 >= MaxAttempts

Init ==
  /\ topics = {} /\ nextId = 1
  /\ subs = [s \in Sub |-> NoSub]
  /\ message = [i \in MsgId |-> NoMessage]
  /\ lease = [c \in Copy |-> "none"]
  /\ attempts = [c \in Copy |-> 0]
  /\ reg = [h \in Handler |-> Idle]
  /\ tries = [c \in Copy |-> 0]
  /\ past = [c \in Copy |-> {}]

-----------------------------------------------------------------------------
(* Topics, and the deletion of a subscription: a statement or a transaction *)
(* each.                                                                   *)

CreateTopic(t) ==
  /\ t \notin topics
  /\ topics' = topics \cup {t}
  /\ UNCHANGED <<subs, message, lease, attempts, nextId, reg, tries, past>>

\* Subscriptions of the topic, and their messages, stay.
DeleteTopic(t) ==
  /\ t \in topics
  /\ topics' = topics \ {t}
  /\ UNCHANGED <<subs, message, lease, attempts, nextId, reg, tries, past>>

\* Deletes the rows of the copies in gone, for the stated reason.
Remove(gone, why) ==
  /\ lease' = [c \in Copy |-> IF c \in gone THEN "none" ELSE lease[c]]
  /\ attempts' = [c \in Copy |-> IF c \in gone THEN 0 ELSE attempts[c]]
  /\ past' = [c \in Copy |-> IF c \in gone /\ Stored(c)
                               THEN past[c] \cup why ELSE past[c]]

DeleteSubscription(s) ==
  /\ subs[s] # NoSub
  /\ subs' = [subs EXCEPT ![s] = NoSub]
  /\ Remove(MsgId \X {s}, {"purged"})
  /\ UNCHANGED <<topics, message, nextId, reg, tries>>

-----------------------------------------------------------------------------
(* CreateSubscriptionFull: GetTopic of the dead-letter topic, GetTopic of   *)
(* the topic, INSERT OR IGNORE.  What was read may have changed by then.    *)

StartCreateSubscription(h, s, cfg) ==
  /\ At(h, "idle") /\ cfg.deadLetter \in topics \cup {NoTopic}
  /\ Set(h, [Idle EXCEPT !.pc = "attach", !.sub = s, !.cfg = cfg])
  /\ UNCHANGED <<tables, tries, past>>

Attach(h) ==
  /\ At(h, "attach")
  /\ Set(h, IF reg[h].cfg.topic \in topics THEN [reg[h] EXCEPT !.pc = "create"] ELSE Idle)
  /\ UNCHANGED <<tables, tries, past>>

InsertSubscription(h) ==
  /\ At(h, "create")
  /\ subs' = [subs EXCEPT ![reg[h].sub] = IF @ = NoSub THEN reg[h].cfg ELSE @]
  /\ Set(h, Idle)
  /\ UNCHANGED <<topics, message, lease, attempts, nextId, tries, past>>

-----------------------------------------------------------------------------
(* UpdateSubscription: GetSubscription, GetTopic of another dead-letter     *)
(* topic, UPDATE of every column but the topic; no row, no effect.  cfg is  *)
(* what was read with the fields of the request put in.                     *)

StartUpdateSubscription(h, s, cfg) ==
  /\ At(h, "idle") /\ subs[s] # NoSub /\ cfg.topic = subs[s].topic
  /\ Set(h, [Idle EXCEPT
       !.pc = IF cfg.deadLetter \in {NoTopic, subs[s].deadLetter} THEN "patch" ELSE "policy",
       !.sub = s, !.cfg = cfg])
  /\ UNCHANGED <<tables, tries, past>>

CheckPolicy(h) ==
  /\ At(h, "policy")
  /\ Set(h, IF reg[h].cfg.deadLetter \in topics THEN [reg[h] EXCEPT !.pc = "patch"] ELSE Idle)
  /\ UNCHANGED <<tables, tries, past>>

PatchSubscription(h) ==
  LET s == reg[h].sub
  IN /\ At(h, "patch")
     /\ subs' = [subs EXCEPT ![s] = IF @ = NoSub THEN NoSub
                                    ELSE [reg[h].cfg EXCEPT !.topic = subs[s].topic]]
     /\ Set(h, Idle)
     /\ UNCHANGED <<topics, message, lease, attempts, nextId, tries, past>>

-----------------------------------------------------------------------------
(* PublishFanout: GetTopic, ListSubscriptionsForTopic, then one transaction *)
(* of inserts.  Called by a Publish request and, with the dead-letter topic,*)
(* by Pull and RecordPushDeliveryFailure.                                   *)

StartPublish(h, t, d) ==
  /\ At(h, "idle") /\ t \in topics
  /\ Set(h, [Idle EXCEPT !.pc = "list", !.topic = t,
                         !.out = [data |-> d, from |-> NoCopy]])
  /\ UNCHANGED <<tables, tries, past>>

\* GetTopic of the publish to the dead-letter topic on behalf of copy w; r is
\* what the handler keeps and failed what it becomes when the topic is gone.
Forward(h, r, cfg, w, failed) ==
  Set(h, IF cfg.deadLetter \in topics
         THEN [r EXCEPT !.pc = "list", !.topic = cfg.deadLetter, !.cur = w,
                        !.out = [data |-> message[w.copy[1]].data, from |-> w.copy]]
         ELSE failed)

ListSubscriptionsForTopic(h) ==
  /\ At(h, "list")
  /\ Set(h, [reg[h] EXCEPT
       !.pc = "insert",
       !.dest = {s \in Sub : /\ subs[s] # NoSub
                             /\ subs[s].topic = reg[h].topic
                             /\ reg[h].out.data \in subs[s].accepts}])
  /\ UNCHANGED <<tables, tries, past>>

InsertCopies(h) ==
  LET r   == reg[h]
      new == {nextId} \X r.dest
  IN /\ At(h, "insert") /\ nextId <= MaxId
     /\ nextId' = nextId + 1
     /\ message' = [message EXCEPT ![nextId] = r.out]
     /\ lease' = [c \in Copy |-> IF c \in new THEN "free" ELSE lease[c]]
     /\ past' = [c \in Copy |-> past[c]
                   \cup (IF c \in new THEN {"stored"} ELSE {})
                   \cup (IF c = r.out.from THEN {"forwarded"} ELSE {})]
     /\ Set(h, IF r.caller = "publish"
               THEN [Idle EXCEPT !.pc = "push",
                       !.work = {[copy |-> c, attempts |-> 0] : c \in new}]
               ELSE [r EXCEPT !.pc = "drop"])
     /\ UNCHANGED <<topics, subs, attempts, tries>>

\* DELETE of a copy whose dead-letter publish has committed.
Drop(h) ==
  LET r == reg[h]
  IN /\ At(h, "drop")
     /\ Remove({r.cur.copy}, {})
     /\ Set(h, [r EXCEPT !.pc = IF r.caller = "pull" THEN "lease" ELSE "push",
                         !.caller = IF r.caller = "pull" THEN "pull" ELSE "publish",
                         !.topic = NoTopic, !.out = NoMessage, !.dest = {}, !.cur = NoWork])
     /\ UNCHANGED <<topics, subs, message, nextId, tries>>

-----------------------------------------------------------------------------
(* deliverPush, run by the Publish handler on the copies it has inserted.  *)

\* GetSubscription: only a subscription with an endpoint is pushed to.
PushNext(h) ==
  /\ At(h, "push")
  /\ \E w \in reg[h].work :
       LET rest == reg[h].work \ {w}
           cfg  == subs[w.copy[2]]
           to   == cfg # NoSub /\ cfg.push
       IN Set(h, [reg[h] EXCEPT !.work = rest,
                    !.pc  = IF to THEN "http" ELSE "push",
                    !.cur = IF to THEN w ELSE NoWork])
  /\ UNCHANGED <<tables, tries, past>>

PushDone(h) ==
  /\ At(h, "push") /\ reg[h].work = {}
  /\ Set(h, Idle)
  /\ UNCHANGED <<tables, tries, past>>

\* The endpoint answered 2xx and the copy is acknowledged.
PushOk(h) ==
  LET c == reg[h].cur.copy
  IN /\ At(h, "http")
     /\ Remove({c}, {"received", "acked"})
     /\ Set(h, [reg[h] EXCEPT !.pc = "push", !.cur = NoWork])
     /\ UNCHANGED <<topics, subs, message, nextId, tries>>

PushFail(h) ==
  /\ At(h, "http")
  /\ Set(h, [reg[h] EXCEPT !.pc = "record"])
  /\ UNCHANGED <<tables, tries, past>>

\* RecordPushDeliveryFailure reads the policy and the counter; deliverPush
\* ignores the error of a dead-letter publish.
RecordPushDeliveryFailure(h) ==
  LET c    == reg[h].cur.copy
      cfg  == subs[c[2]]
      w    == [copy |-> c, attempts |-> attempts[c]]
      back == [reg[h] EXCEPT !.pc = "push", !.cur = NoWork]
  IN /\ At(h, "record")
     /\ \/ /\ cfg = NoSub \/ ~Stored(c)
           /\ Set(h, back)
        \/ /\ cfg # NoSub /\ Stored(c) /\ Due(cfg, w)
           /\ Forward(h, [reg[h] EXCEPT !.caller = "push"], cfg, w, back)
        \/ /\ cfg # NoSub /\ Stored(c) /\ ~Due(cfg, w)
           /\ Set(h, [reg[h] EXCEPT !.pc = "count", !.cur = w])
     /\ UNCHANGED <<tables, tries, past>>

\* UPDATE of delivery_attempts from the value read; no row, no effect.
CountPushFailure(h) ==
  LET w == reg[h].cur
  IN /\ At(h, "count")
     /\ attempts' = IF Stored(w.copy)
                    THEN [attempts EXCEPT ![w.copy] = w.attempts + 1] ELSE attempts
     /\ tries' = [tries EXCEPT ![w.copy] = @ + 1]
     /\ Set(h, [reg[h] EXCEPT !.pc = "push", !.cur = NoWork])
     /\ UNCHANGED <<topics, subs, message, lease, nextId, past>>

-----------------------------------------------------------------------------
(* Pull: GetSubscription, one SELECT, then a statement or more per row.    *)

StartPull(h, s) ==
  /\ At(h, "idle") /\ subs[s] # NoSub
  /\ Set(h, [Idle EXCEPT !.pc = "select", !.caller = "pull", !.sub = s, !.cfg = subs[s]])
  /\ UNCHANGED <<tables, tries, past>>

FetchWindow == 4 * PullMax

Candidates(s) ==
  LET ready == {c \in MsgId \X {s} : Available(c)}
  IN {c \in ready : Cardinality({d \in ready : d[1] < c[1]}) < FetchWindow}

SelectCandidates(h) ==
  /\ At(h, "select")
  /\ Set(h, [reg[h] EXCEPT
       !.pc = "lease",
       !.work = {[copy |-> c, attempts |-> attempts[c]] : c \in Candidates(reg[h].sub)}])
  /\ UNCHANGED <<tables, tries, past>>

MoreToLease(h) == At(h, "lease") /\ reg[h].work # {} /\ Cardinality(reg[h].got) < PullMax

\* Mutants: the row is deleted before it is published to the dead-letter topic;
\* the row to delete after the publish is forgotten.
DeadLetterNextDeletesFirst(h) ==
  /\ MoreToLease(h)
  /\ \E w \in Oldest(reg[h].work) :
       /\ Due(reg[h].cfg, w)
       /\ Forward(h, [reg[h] EXCEPT !.work = @ \ {w}], reg[h].cfg, w, Idle)
       /\ Remove({w.copy}, {})
  /\ UNCHANGED <<topics, subs, message, nextId, tries>>

DeadLetterNextForgets(h) ==
  /\ MoreToLease(h)
  /\ \E w \in Oldest(reg[h].work) :
       /\ Due(reg[h].cfg, w) /\ reg[h].cfg.deadLetter \in topics
       /\ Set(h, [reg[h] EXCEPT !.pc = "list", !.topic = reg[h].cfg.deadLetter,
                    !.out = [data |-> message[w.copy[1]].data, from |-> w.copy]])
  /\ UNCHANGED <<tables, tries, past>>

\* The row's counter has reached the policy: publish it to the dead-letter
\* topic; when that topic is gone Pull returns the error, and with it loses
\* the rows it has leased so far.
DeadLetterNext(h) ==
  /\ MoreToLease(h)
  /\ \E w \in Oldest(reg[h].work) :
       /\ Due(reg[h].cfg, w)
       /\ Forward(h, [reg[h] EXCEPT !.work = @ \ {w}], reg[h].cfg, w, Idle)
  /\ UNCHANGED <<tables, tries, past>>

\* Mutant: INSERT OR REPLACE of the row instead of UPDATE.
LeaseNextUpserts(h) ==
  /\ MoreToLease(h)
  /\ \E w \in Oldest(reg[h].work) :
       /\ ~Due(reg[h].cfg, w)
       /\ lease' = [lease EXCEPT ![w.copy] = "held"]
       /\ attempts' = [attempts EXCEPT ![w.copy] = w.attempts + 1]
       /\ tries' = [tries EXCEPT ![w.copy] = @ + 1]
       /\ Set(h, [reg[h] EXCEPT !.work = @ \ {w}, !.got = @ \cup {w.copy}])
  /\ UNCHANGED <<topics, subs, message, nextId, past>>

\* UPDATE of the lease and of delivery_attempts from the value read.  The row
\* is returned to the caller whether the UPDATE found it or not.
LeaseNext(h) ==
  /\ MoreToLease(h)
  /\ \E w \in Oldest(reg[h].work) :
       /\ ~Due(reg[h].cfg, w)
       /\ lease' = IF Stored(w.copy) THEN [lease EXCEPT ![w.copy] = "held"] ELSE lease
       /\ attempts' = IF Stored(w.copy)
                      THEN [attempts EXCEPT ![w.copy] = w.attempts + 1] ELSE attempts
       /\ tries' = [tries EXCEPT ![w.copy] = @ + 1]
       /\ Set(h, [reg[h] EXCEPT !.work = @ \ {w}, !.got = @ \cup {w.copy}])
  /\ UNCHANGED <<topics, subs, message, nextId, past>>

ReturnPulled(h) ==
  /\ At(h, "lease") /\ ~MoreToLease(h)
  /\ past' = [c \in Copy |-> IF c \in reg[h].got THEN past[c] \cup {"received"} ELSE past[c]]
  /\ Set(h, Idle)
  /\ UNCHANGED <<tables, tries>>

-----------------------------------------------------------------------------
(* What a client does with the ack ids it has received, Seek, time, and a  *)
(* stop of the server.                                                     *)

Acknowledge(c) ==
  /\ "received" \in past[c] /\ Stored(c)
  /\ Remove({c}, {"acked"})
  /\ UNCHANGED <<topics, subs, message, nextId, reg, tries>>

\* A positive deadline extends the lease, even a lapsed one; zero ends it.
ModifyAckDeadline(c, to) ==
  /\ "received" \in past[c] /\ Stored(c)
  /\ to = "expired" => tries[c] < MaxTries
  /\ lease' = [lease EXCEPT ![c] = to]
  /\ UNCHANGED <<topics, subs, message, attempts, nextId, reg, tries, past>>

\* Messages published before message i are acknowledged, the others are
\* free again; delivery_attempts is kept.  The subscription was there when the handler
\* looked for it, and may be gone by the time of this transaction.
SeekToTime(s, i) ==
  LET older == {c \in Copy : c[2] = s /\ c[1] < i}
  IN /\ \E c \in Copy : c[2] = s /\ Stored(c)
     /\ \A j \in MsgId : tries[<<j, s>>] < MaxTries
     /\ lease' = [c \in Copy |-> CASE c \in older -> "none"
                                   [] c[2] = s /\ c \notin older /\ Stored(c) -> "free"
                                   [] OTHER -> lease[c]]
     /\ attempts' = [c \in Copy |-> IF c \in older THEN 0 ELSE attempts[c]]
     /\ past' = [c \in Copy |-> IF c \in older /\ Stored(c)
                                  THEN past[c] \cup {"purged"} ELSE past[c]]
     /\ UNCHANGED <<topics, subs, message, nextId, reg, tries>>

Expire(c) ==
  /\ lease[c] = "held" /\ tries[c] < MaxTries
  /\ lease' = [lease EXCEPT ![c] = "expired"]
  /\ UNCHANGED <<topics, subs, message, attempts, nextId, reg, tries, past>>

\* The process ends and is started again: the tables are what they were.
Restart ==
  /\ \E h \in Handler : ~At(h, "idle")
  /\ reg' = [h \in Handler |-> Idle]
  /\ UNCHANGED <<tables, tries, past>>

-----------------------------------------------------------------------------
Admin ==
  \/ \E t \in Topic : CreateTopic(t) \/ DeleteTopic(t)
  \/ \E s \in Sub : DeleteSubscription(s)

Administer(h) ==
  \/ \E s \in Sub : \E cfg \in Offered[s] :
       StartCreateSubscription(h, s, cfg) \/ StartUpdateSubscription(h, s, cfg)
  \/ Attach(h) \/ InsertSubscription(h) \/ CheckPolicy(h) \/ PatchSubscription(h)

Request(h) ==
  \/ \E t \in Topic, d \in Payload : StartPublish(h, t, d)
  \/ \E s \in Sub : StartPull(h, s)

Step(h) ==
  \/ ListSubscriptionsForTopic(h) \/ InsertCopies(h) \/ Drop(h)
  \/ PushNext(h) \/ PushDone(h) \/ PushOk(h) \/ PushFail(h)
  \/ RecordPushDeliveryFailure(h) \/ CountPushFailure(h)
  \/ SelectCandidates(h) \/ DeadLetterNext(h) \/ LeaseNext(h) \/ ReturnPulled(h)

Client ==
  \/ \E c \in Copy : Acknowledge(c)
  \/ \E c \in Copy, to \in {"held", "expired"} : ModifyAckDeadline(c, to)
  \/ \E s \in Sub, i \in MsgId : SeekToTime(s, i)

Next ==
  \/ Admin
  \/ \E h \in Handler : Administer(h) \/ Request(h) \/ Step(h)
  \/ Client
  \/ \E c \in Copy : Expire(c)
  \/ Restart

Spec == Init /\ [][Next]_vars

-----------------------------------------------------------------------------
Reg == [pc: {"idle", "list", "insert", "drop", "push", "http", "record", "count",
             "select", "lease", "attach", "create", "policy", "patch"},
        caller: {"publish", "pull", "push"},
        sub: Sub \cup {NoSub}, cfg: SubConfig \cup {NoSub},
        topic: Topic \cup {NoTopic}, out: Message \cup {NoMessage},
        dest: SUBSET Sub, work: SUBSET Work, cur: Work \cup {NoWork},
        got: SUBSET Copy]

Fate == {"stored", "received", "acked", "purged", "forwarded"}

\* A handler that works on a row holds it: deliverPush and the failure it
\* records, and a dead-letter publish until its DELETE.
Holding(r) ==
  /\ r.pc \in {"http", "record", "count", "drop"} => r.cur # NoWork
  /\ r.pc \in {"list", "insert"} => /\ r.out # NoMessage
                                    /\ r.caller # "publish" => r.cur # NoWork
  /\ r.pc = "drop" => r.caller # "publish"
  /\ r.pc \in {"push", "http", "record", "count"} => r.caller = "publish"
  /\ r.pc \in {"select", "lease"} => r.caller = "pull"
  /\ r.caller = "pull" \/ r.pc \in {"attach", "create", "policy", "patch"} =>
       r.sub # NoSub /\ r.cfg # NoSub

\* Every variable has its type, and registers hold what their handler uses next.
TypeOK ==
  /\ topics \subseteq Topic
  /\ subs \in [Sub -> SubConfig \cup {NoSub}]
  /\ message \in [MsgId -> Message \cup {NoMessage}]
  /\ lease \in [Copy -> {"none", "free", "held", "expired"}]
  /\ attempts \in [Copy -> Nat]
  /\ nextId \in 1 .. MaxId + 1
  /\ reg \in [Handler -> Reg] /\ \A h \in Handler : Holding(reg[h])
  /\ tries \in [Copy -> Nat]
  /\ past \in [Copy -> SUBSET Fate]

\* A stored copy leaves its subscription only by being acknowledged, by a seek
\* or the deletion of the subscription, or after its dead-letter publish has
\* committed: whatever the interleaving of pulls, pushes and restarts, no copy
\* is lost between the dead-letter publish and the DELETE.
NoLoss ==
  \A c \in Copy : "stored" \in past[c] /\ ~Stored(c) =>
                    past[c] \cap {"acked", "purged", "forwarded"} # {}

\* An acknowledged or purged copy never has a row again, although pulls and
\* push handlers that read it earlier still write to it.
SettledStaysGone ==
  \A c \in Copy : past[c] \cap {"acked", "purged"} # {} => ~Stored(c)

\* The counter never runs ahead of the deliveries really made, so that a copy
\* reaches the dead-letter topic only after MaxAttempts - 1 of them, although
\* handlers write back counters they have read before others wrote.
DeadLetterEarned ==
  \A c \in Copy : /\ attempts[c] <= tries[c]
                  /\ "forwarded" \in past[c] => tries[c] + 1 >= MaxAttempts

\* Implements the promise of Mailbox: fan-out under fresh ids, a copy kept until
\* it is settled or its dead-letter copies are stored, never back once gone.
M == INSTANCE Mailbox WITH
  stored    <- {c \in Copy : Stored(c)},
  settled   <- {c \in Copy : past[c] \cap {"acked", "purged"} # {}},
  forwarded <- {c \in Copy : "forwarded" \in past[c]},
  next      <- nextId

ImplementsMailbox == M!Spec

-----------------------------------------------------------------------------
(* Progress of one subscription consumed by a StreamingPull stream.        *)

\* Every copy in s eventually leaves it: clients that never acknowledge, and
\* leases that keep lapsing, do not keep a copy beyond its dead-letter policy.
Drains(s) == \A i \in MsgId : Stored(<<i, s>>) ~> ~Stored(<<i, s>>)

\* Every copy in s is eventually handed to the stream or leaves.
Reaches(s) == \A i \in MsgId :
  Stored(<<i, s>>) ~> ("received" \in past[<<i, s>>] \/ ~Stored(<<i, s>>))
=============================================================================
