---------------------------- MODULE MCEventing ----------------------------
EXTENDS Eventing, TLC

CONSTANTS t1, t2, go, web, h1, h2

Row(type, dest) == [type |-> type, topic |-> None, dest |-> dest]

\* go serves finalizes by a function, or records them; web posts messages.
MCOffered ==
  (go :> {Row("finalized", "function"), Row("finalized", "catcher")})
  @@ (web :> {Row("messagePublished", "http")})

AnyType == [topic |-> t1, types |-> {}]
Deletes == [topic |-> t1, types |-> {"OBJECT_DELETE"}]

\* Either two clients administer configurations while a topic comes and goes, or
\* the triggers and the function change under a configuration that stays.
VARIABLE focus

MCInit ==
  /\ Init
  /\ \/ focus = "notifications" /\ triggers = [t \in Trigger |-> None] /\ invoker = FALSE
        /\ gens = {1}
     \/ focus = "triggers" /\ topics = Topic /\ gens = {}

Notifications ==
  \/ PutObject \/ DeleteObject
  \/ \E cfg \in {AnyType, Deletes} : insertNotification(h1, cfg)
  \/ insertNotification(h2, AnyType)
  \/ \E i \in ConfigId : deleteNotification(h2, i)
  \/ \E h \in Handler : RequestStep(h)
  \/ Administer /\ UNCHANGED <<function, invoker>>

Triggers ==
  \/ PutObject
  \/ meta = 1 /\ insertNotification(h1, AnyType)
  \/ RequestStep(h1)
  \/ Administer /\ UNCHANGED topics
  \/ AdministerTriggers

MCNext ==
  /\ \/ focus = "notifications" /\ Notifications
     \/ focus = "triggers" /\ Triggers
     \/ \E r \in routines : RoutineStep(r)
     \/ Restart
  /\ UNCHANGED focus

MCSpec == MCInit /\ [][MCNext]_<<vars, focus>> /\ WF_vars(\E r \in routines : RoutineStep(r))
=============================================================================
