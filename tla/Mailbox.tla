------------------------------ MODULE Mailbox ------------------------------
(***************************************************************************)
(* What the subscriptions of a Pub/Sub project promise, without handlers,  *)
(* leases or counters.  Each message has a fresh id and is stored once per *)
(* subscription.  A stored copy is kept until it is settled (acknowledged, *)
(* or purged by a seek or a deletion), or until a message carrying its     *)
(* payload to the dead-letter topic has been fanned out; once gone it does *)
(* not come back.                                                          *)
(***************************************************************************)
EXTENDS Integers

CONSTANTS Sub, MaxId

MsgId == 1 .. MaxId
Copy  == MsgId \X Sub

VARIABLES
  stored,     \* copies in their subscriptions
  settled,    \* copies acknowledged or purged
  forwarded,  \* copies whose dead-letter message is fanned out
  next        \* the next id

vars == <<stored, settled, forwarded, next>>

Init == stored = {} /\ settled = {} /\ forwarded = {} /\ next = 1

\* source is empty for a client's message, and the copy that a dead-letter
\* policy forwards otherwise.
Fanout(source) ==
  /\ next \in MsgId
  /\ \A c \in source : c[1] < next
  /\ next' = next + 1
  /\ \E dest \in SUBSET Sub : stored' = stored \cup ({next} \X dest)
  /\ forwarded' = forwarded \cup source
  /\ UNCHANGED settled

Settle ==
  /\ \E gone \in SUBSET stored : /\ stored' = stored \ gone
                                 /\ settled' = settled \cup gone
  /\ UNCHANGED <<forwarded, next>>

Discard ==
  /\ \E c \in stored \cap forwarded : stored' = stored \ {c}
  /\ UNCHANGED <<settled, forwarded, next>>

Next ==
  \/ Fanout({}) \/ \E c \in Copy : Fanout({c})
  \/ Settle
  \/ Discard

Spec == Init /\ [][Next]_vars
=============================================================================
