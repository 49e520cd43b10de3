------------------------------ MODULE MCPubSub ------------------------------
EXTENDS PubSub, TLC

CONSTANTS main, dead, worker, audit, d1, h1, h2

Cfg(topic, push, accepts, deadLetter) ==
  [topic |-> topic, push |-> push, accepts |-> accepts, deadLetter |-> deadLetter]

Pulled == Cfg(main, FALSE, Payload, NoTopic)
Policed(push) == Cfg(main, push, Payload, dead)

\* worker consumes main, audit the dead-letter topic.  Clients create or patch worker to
\* push under a dead-letter policy.
MCOffered == (worker :> {Policed(TRUE)}) @@ (audit :> {})

\* A state after the creations of topics and subscriptions.
Provisioned(existing, cfg) ==
  /\ topics = existing /\ nextId = 1
  /\ subs = (worker :> cfg) @@ (audit :> Cfg(dead, FALSE, Payload, NoTopic))
  /\ message = [i \in MsgId |-> NoMessage]
  /\ lease = [c \in Copy |-> "none"]
  /\ attempts = [c \in Copy |-> 0]
  /\ reg = [h \in Handler |-> Idle]
  /\ tries = [c \in Copy |-> 0]
  /\ past = [c \in Copy |-> {}]

\* Requests, clients, time and restarts: two handlers while nothing is
\* administered, or one while topics and subscriptions come and go, the latter by
\* another handler.
VARIABLE fixed

Requests ==
  \/ fixed /\ \E h \in Handler : Request(h) \/ Step(h)
  \/ ~fixed /\ (Admin \/ Administer(h2) \/ Request(h1) \/ Step(h1))
  \/ Client
  \/ \E c \in Copy : Expire(c)
  \/ Restart

RequestsInit ==
  \/ fixed = TRUE /\ \E push \in BOOLEAN : Provisioned(Topic, Policed(push))
  \/ fixed = FALSE /\ Provisioned({}, Pulled)

RequestsSpec == RequestsInit /\ [][Requests /\ UNCHANGED fixed]_<<vars, fixed>>

-----------------------------------------------------------------------------
(* Progress.  h1 serves the publisher, h2 the stream of worker, which ticks *)
(* every 200 ms; goroutines run on, time passes, and the server stays up.   *)
(* Clients acknowledge or stay silent.                                      *)

CONSTANT MaxPublish  \* publications by the client

Live ==
  \/ nextId <= MaxPublish /\ StartPublish(h1, main, d1)
  \/ StartPull(h2, worker)
  \/ \E h \in Handler : Step(h)
  \/ \E c \in Copy : Acknowledge(c) \/ Expire(c)

Fairness ==
  /\ \A h \in Handler : WF_vars(Step(h))
  /\ WF_vars(StartPull(h2, worker))
  /\ \A c \in Copy : WF_vars(Expire(c))

LiveSpec ==
  /\ fixed = TRUE /\ \E push \in BOOLEAN : Provisioned(Topic, Policed(push))
  /\ [][Live /\ UNCHANGED fixed]_<<vars, fixed>>
  /\ Fairness

\* The same, after the dead-letter topic has been deleted.
DeletedSpec ==
  /\ fixed = TRUE /\ Provisioned({main}, Policed(FALSE))
  /\ [][Live /\ UNCHANGED fixed]_<<vars, fixed>>
  /\ Fairness

WorkerDrains == Drains(worker)
WorkerReached == Reaches(worker)

HandlerSymmetry == Permutations(Handler)

=============================================================================
