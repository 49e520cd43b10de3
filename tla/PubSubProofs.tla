---------------------------- MODULE PubSubProofs ----------------------------
(***************************************************************************)
(* Theorems about PubSub, for every set of topics, subscriptions and       *)
(* handlers and every value of the bounds.                                 *)
(*                                                                         *)
(* TypeOK and the safety properties are not inductive: what a handler will *)
(* write was read earlier, so the invariant must say what stays true of    *)
(* registers while other handlers run.  All of it is monotone: ids and     *)
(* counts of deliveries only grow, and what has happened to a copy is not  *)
(* undone.                                                                 *)
(***************************************************************************)
EXTENDS PubSub, TLAPS

Known(c) == c[1] < nextId

\* A row that a handler has read: its message exists, and its counter, however
\* stale, counts deliveries that were made.
Read(w) == w.copy[1] < nextId /\ w.attempts <= tries[w.copy]

Exhausted(c) == tries[c] + 1 >= MaxAttempts

\* What a handler's registers promise of the tables.
Tracks(r) ==
  /\ \A w \in r.work : Read(w)
  /\ \A c \in r.got : Known(c)
  /\ r.cur # NoWork => Read(r.cur)
  /\ r.pc \in {"list", "insert"} =>
       IF r.caller = "publish" THEN r.out.from = NoCopy
       ELSE r.out.from = r.cur.copy /\ Exhausted(r.cur.copy)
  /\ r.pc = "drop" => "forwarded" \in past[r.cur.copy]

RegInv == /\ reg \in [Handler -> Reg]
          /\ \A h \in Handler : Holding(reg[h]) /\ Tracks(reg[h])

DataOK ==
  /\ topics \subseteq Topic
  /\ subs \in [Sub -> SubConfig \cup {NoSub}]
  /\ message \in [MsgId -> Message \cup {NoMessage}]
  /\ lease \in [Copy -> {"none", "free", "held", "expired"}]
  /\ attempts \in [Copy -> Nat]
  /\ nextId \in 1 .. MaxId + 1
  /\ tries \in [Copy -> Nat]
  /\ past \in [Copy -> SUBSET Fate]

\* What holds of one copy's row and history.
CopyInv(c) ==
  /\ past[c] # {} \/ Stored(c) => c[1] < nextId
  /\ attempts[c] <= tries[c]
  /\ "forwarded" \in past[c] => Exhausted(c)
  /\ past[c] \cap {"acked", "purged"} # {} => ~Stored(c)
  /\ "stored" \in past[c] /\ ~Stored(c) => past[c] \cap {"acked", "purged", "forwarded"} # {}

TableInv ==
  /\ DataOK
  /\ \A i \in MsgId : i < nextId => message[i] \in Message
  /\ \A c \in Copy : CopyInv(c)

Inv == RegInv /\ TableInv

\* Ids, counts and histories never shrink.
Growing ==
  /\ nextId' \in Nat /\ nextId <= nextId'
  /\ \A c \in Copy : /\ tries'[c] \in Nat /\ tries[c] <= tries'[c]
                     /\ past[c] \subseteq past'[c]

-----------------------------------------------------------------------------
LEMMA TracksStable ==
  ASSUME DataOK, Growing, NEW r \in Reg, Holding(r), Tracks(r)
  PROVE  Tracks(r)'
<1>1. ASSUME NEW w \in Work, Read(w) PROVE Read(w)'
  BY <1>1 DEF Growing, Read, Work, DataOK, Copy, MsgId
<1>2. \A w \in r.work : Read(w)'
  BY <1>1 DEF Tracks, Reg
<1>3. r.cur # NoWork => Read(r.cur)'
  BY <1>1 DEF Tracks, Reg
<1>4. ASSUME NEW c \in Copy, Exhausted(c) PROVE Exhausted(c)'
  BY <1>4, ConstantsAssumption DEF Growing, Exhausted, DataOK
<1>5. ASSUME r.cur # NoWork PROVE r.cur.copy \in Copy
  BY <1>5 DEF Reg, Work
<1>6. r.pc \in {"list", "insert"} =>
        IF r.caller = "publish" THEN r.out.from = NoCopy
        ELSE r.out.from = r.cur.copy /\ Exhausted(r.cur.copy)'
  BY <1>4, <1>5 DEF Tracks, Holding
<1>7. r.pc = "drop" => "forwarded" \in past'[r.cur.copy]
  BY <1>5 DEF Tracks, Holding, Growing
<1>8. \A c \in r.got : Known(c)'
  BY DEF Tracks, Known, Growing, Reg, Copy, MsgId, DataOK
<1> QED
  BY <1>2, <1>3, <1>6, <1>7, <1>8 DEF Tracks

\* Writing well-formed registers for one handler keeps RegInv.
LEMMA SetKeeps ==
  ASSUME RegInv, DataOK, Growing, NEW h \in Handler, NEW r \in Reg,
         Holding(r), Tracks(r)', Set(h, r)
  PROVE  RegInv'
<1>1. ASSUME NEW k \in Handler, k # h PROVE Holding(reg[k]) /\ Tracks(reg[k])' /\ reg'[k] = reg[k]
  BY <1>1, TracksStable DEF RegInv, Set
<1>2. reg'[h] = r /\ reg' \in [Handler -> Reg]
  BY DEF RegInv, Set
<1>3. ASSUME NEW k \in Handler PROVE Holding(reg'[k]) /\ Tracks(reg[k])'
  BY <1>1, <1>2 DEF Tracks, Read, Known, Exhausted
<1> QED
  BY <1>2, <1>3 DEF RegInv

LEMMA IdleOK == Idle \in Reg /\ Holding(Idle) /\ Tracks(Idle) /\ Tracks(Idle)'
  BY DEF Idle, Reg, Holding, Tracks

\* A step that leaves the tables and the history alone and sets one handler's
\* registers keeps Inv.
LEMMA LocalStep ==
  ASSUME Inv, UNCHANGED <<tables, tries, past>>, NEW h \in Handler, NEW r \in Reg,
         Holding(r), Tracks(r), Set(h, r)
  PROVE  Inv'
<1>1. Growing
  BY DEF Growing, tables, Inv, TableInv, DataOK
<1>2. Tracks(r)'
  BY <1>1, TracksStable DEF Inv, TableInv
<1>3. RegInv'
  BY <1>1, <1>2, SetKeeps DEF Inv, TableInv
<1>4. TableInv'
  BY DEF Inv, TableInv, DataOK, CopyInv, Stored, Exhausted, tables
<1> QED
  BY <1>3, <1>4 DEF Inv

\* A step that leaves the registers alone keeps their invariant.
LEMMA RegStable ==
  ASSUME RegInv, DataOK, Growing, reg' = reg
  PROVE  RegInv'
<1>1. ASSUME NEW h \in Handler PROVE Tracks(reg[h])'
  <2>1. Tracks(reg[h]) /\ Holding(reg[h]) /\ reg[h] \in Reg
    BY DEF RegInv
  <2> QED
    BY <2>1, TracksStable
<1> QED
  BY <1>1 DEF RegInv

\* Deleting the rows of gone for a reason that accounts for them.
LEMMA RemoveKeeps ==
  ASSUME TableInv, NEW gone, NEW why \in SUBSET Fate, Remove(gone, why),
         UNCHANGED <<message, nextId, tries>>, topics' \subseteq Topic,
         subs' \in [Sub -> SubConfig \cup {NoSub}], "forwarded" \notin why,
         \/ why \cap {"acked", "purged"} # {}
         \/ \A c \in Copy : c \in gone => "forwarded" \in past[c]
  PROVE  TableInv' /\ Growing
<1>1. DataOK'
  BY DEF Remove, TableInv, DataOK
<1>2. ASSUME NEW c \in Copy PROVE CopyInv(c)'
  <2>0. CopyInv(c)
    BY DEF TableInv
  <2>1. CASE c \in gone
    BY <2>0, <2>1 DEF Remove, CopyInv, Stored, Exhausted, TableInv, DataOK
  <2>2. CASE c \notin gone
    BY <2>0, <2>2 DEF Remove, CopyInv, Stored, Exhausted, TableInv, DataOK
  <2> QED
    BY <2>1, <2>2
<1>3. Growing
  BY DEF Growing, Remove, TableInv, DataOK
<1> QED
  BY <1>1, <1>2, <1>3 DEF TableInv

LEMMA InitInv == Init => Inv
<1> SUFFICES ASSUME Init PROVE Inv
  OBVIOUS
<1>1. RegInv
  BY IdleOK DEF Init, RegInv
<1>2. DataOK
  BY ConstantsAssumption DEF Init, DataOK
<1>3. TableInv
  BY <1>2 DEF Init, TableInv, CopyInv, Stored, MsgId
<1> QED
  BY <1>1, <1>3 DEF Inv

-----------------------------------------------------------------------------
(* The actions.                                                            *)

LEMMA AdminInv == ASSUME Inv, Admin PROVE Inv'
<1>1. ASSUME UNCHANGED <<message, lease, attempts, nextId, reg, tries, past>>,
             topics' \subseteq Topic, subs' \in [Sub -> SubConfig \cup {NoSub}]
      PROVE  Inv'
  BY <1>1 DEF Inv, RegInv, Tracks, Read, Known, Exhausted, TableInv, DataOK, CopyInv, Stored
<1>2. ASSUME NEW t \in Topic, CreateTopic(t) \/ DeleteTopic(t) PROVE Inv'
  BY <1>1, <1>2 DEF CreateTopic, DeleteTopic, Inv, TableInv, DataOK
<1>3. ASSUME NEW s \in Sub, DeleteSubscription(s) PROVE Inv'
  <2>1. subs' \in [Sub -> SubConfig \cup {NoSub}] /\ topics' \subseteq Topic
    BY <1>3 DEF DeleteSubscription, Inv, TableInv, DataOK
  <2>2. TableInv' /\ Growing
    BY <1>3, <2>1, RemoveKeeps DEF DeleteSubscription, Fate, Inv
  <2> QED
    BY <1>3, <2>2, RegStable DEF DeleteSubscription, Inv, TableInv
<1> QED
  BY <1>2, <1>3 DEF Admin

\* What Inv says of the registers a handler acts on.
LEMMA Registers ==
  ASSUME Inv, NEW h \in Handler
  PROVE  \E old \in Reg : old = reg[h] /\ Holding(old) /\ Tracks(old)
  BY DEF Inv, RegInv

\* A handler that administers a subscription holds its name and configuration.
LEMMA AdministerInv == ASSUME Inv, NEW h \in Handler, Administer(h) PROVE Inv'
<1>1. PICK old \in Reg : old = reg[h] /\ Holding(old) /\ Tracks(old)
  BY Registers
<1>2. ASSUME NEW s \in Sub, NEW cfg \in Offered[s],
             StartCreateSubscription(h, s, cfg) \/ StartUpdateSubscription(h, s, cfg)
      PROVE  Inv'
  <2>1. cfg \in SubConfig
    BY ConstantsAssumption
  <2>2. PICK pc \in {"attach", "patch", "policy"} :
          Set(h, [Idle EXCEPT !.pc = pc, !.sub = s, !.cfg = cfg])
    BY <1>2 DEF StartCreateSubscription, StartUpdateSubscription
  <2> DEFINE r == [Idle EXCEPT !.pc = pc, !.sub = s, !.cfg = cfg]
  <2>3. r \in Reg /\ Holding(r) /\ Tracks(r)
    BY <2>1, ConstantsAssumption DEF Idle, Reg, Holding, Tracks
  <2>4. UNCHANGED <<tables, tries, past>>
    BY <1>2 DEF StartCreateSubscription, StartUpdateSubscription
  <2> QED
    BY <2>2, <2>3, <2>4, LocalStep
<1>3. CASE Attach(h) \/ CheckPolicy(h)
  <2>1. old.pc \in {"attach", "policy"}
    BY <1>1, <1>3 DEF Attach, CheckPolicy, At
  <2>2. PICK pc \in {"create", "patch"} : Set(h, [old EXCEPT !.pc = pc]) \/ Set(h, Idle)
    BY <1>1, <1>3 DEF Attach, CheckPolicy
  <2> DEFINE r == [old EXCEPT !.pc = pc]
  <2>3. r \in Reg /\ Holding(r) /\ Tracks(r)
    BY <1>1, <2>1 DEF Reg, Holding, Tracks
  <2>4. UNCHANGED <<tables, tries, past>>
    BY <1>3 DEF Attach, CheckPolicy
  <2> QED
    BY <2>2, <2>3, <2>4, IdleOK, LocalStep
<1>4. CASE InsertSubscription(h) \/ PatchSubscription(h)
  <2>1. old.pc \in {"create", "patch"}
    BY <1>1, <1>4 DEF InsertSubscription, PatchSubscription, At
  <2>2. old.sub \in Sub /\ old.cfg \in SubConfig
    BY <1>1, <2>1 DEF Holding, Reg
  <2>3. subs \in [Sub -> SubConfig \cup {NoSub}]
    BY DEF Inv, TableInv, DataOK
  <2>4. subs' \in [Sub -> SubConfig \cup {NoSub}]
    <3>1. CASE InsertSubscription(h)
      BY <1>1, <2>2, <2>3, <3>1 DEF InsertSubscription
    <3>2. CASE PatchSubscription(h)
      <4> DEFINE cfg == [old.cfg EXCEPT !.topic = subs[old.sub].topic]
      <4>1. subs[old.sub] # NoSub => cfg \in SubConfig
        BY <2>2, <2>3 DEF SubConfig
      <4>2. subs' = [subs EXCEPT ![old.sub] = IF subs[old.sub] = NoSub THEN NoSub ELSE cfg]
        BY <1>1, <2>2, <2>3, <3>2 DEF PatchSubscription
      <4> HIDE DEF cfg
      <4> QED
        BY <2>2, <2>3, <4>1, <4>2
    <3> QED
      BY <1>4, <3>1, <3>2
  <2>5. Set(h, Idle) /\ UNCHANGED <<topics, message, lease, attempts, nextId, tries, past>>
    BY <1>4 DEF InsertSubscription, PatchSubscription
  <2>6. TableInv' /\ Growing
    BY <2>4, <2>5 DEF Inv, TableInv, DataOK, CopyInv, Stored, Exhausted, Growing
  <2> QED
    BY <2>5, <2>6, IdleOK, SetKeeps DEF Inv, TableInv
<1> QED
  BY <1>2, <1>3, <1>4 DEF Administer

LEMMA RequestInv == ASSUME Inv, NEW h \in Handler, Request(h) PROVE Inv'
<1>1. ASSUME NEW t \in Topic, NEW d \in Payload, StartPublish(h, t, d) PROVE Inv'
  <2> DEFINE out == [data |-> d, from |-> NoCopy]
             r == [Idle EXCEPT !.pc = "list", !.topic = t, !.out = out]
  <2>1. out \in Message
    BY DEF Message
  <2>2. r \in Reg /\ Holding(r) /\ Tracks(r)
    BY <2>1, ConstantsAssumption DEF Idle, Reg, Holding, Tracks
  <2> QED
    BY <1>1, <2>2, LocalStep DEF StartPublish
<1>2. ASSUME NEW s \in Sub, StartPull(h, s) PROVE Inv'
  <2> DEFINE r == [Idle EXCEPT !.pc = "select", !.caller = "pull", !.sub = s, !.cfg = subs[s]]
  <2>1. subs[s] \in SubConfig /\ subs[s] # NoSub
    BY <1>2 DEF StartPull, Inv, TableInv, DataOK
  <2>2. r \in Reg /\ Holding(r) /\ Tracks(r)
    BY <2>1, ConstantsAssumption DEF Idle, Reg, Holding, Tracks
  <2> QED
    BY <1>2, <2>2, LocalStep DEF StartPull
<1> QED
  BY <1>1, <1>2 DEF Request

LEMMA ListInv ==
  ASSUME Inv, NEW h \in Handler, ListSubscriptionsForTopic(h) PROVE Inv'
<1> DEFINE dest == {s \in Sub : /\ subs[s] # NoSub
                                /\ subs[s].topic = reg[h].topic
                                /\ reg[h].out.data \in subs[s].accepts}
           r == [reg[h] EXCEPT !.pc = "insert", !.dest = dest]
<1> HIDE DEF dest
<1>1. dest \subseteq Sub
  BY DEF dest
<1>2. reg[h] \in Reg /\ Holding(reg[h]) /\ Tracks(reg[h]) /\ reg[h].pc = "list"
  BY DEF Inv, RegInv, ListSubscriptionsForTopic, At
<1>3. r \in Reg /\ Holding(r) /\ Tracks(r)
  BY <1>1, <1>2 DEF Reg, Holding, Tracks
<1> QED
  BY <1>3, LocalStep DEF ListSubscriptionsForTopic, dest

LEMMA InsertInv ==
  ASSUME Inv, NEW h \in Handler, InsertCopies(h) PROVE Inv'
<1>0. PICK old \in Reg, id \in MsgId : old = reg[h] /\ id = nextId
  BY ConstantsAssumption DEF Inv, RegInv, TableInv, DataOK, InsertCopies, MsgId
<1> DEFINE new == {id} \X old.dest
           r   == IF old.caller = "publish"
                  THEN [Idle EXCEPT !.pc = "push",
                          !.work = {[copy |-> c, attempts |-> 0] : c \in new}]
                  ELSE [old EXCEPT !.pc = "drop"]
<1>1. /\ old \in Reg /\ Holding(old) /\ Tracks(old) /\ old.pc = "insert"
      /\ old.out \in Message /\ DataOK
  BY <1>0 DEF Inv, RegInv, TableInv, DataOK, InsertCopies, At, Holding, Reg, MsgId
<1>2. new \subseteq Copy
  BY <1>1 DEF Reg, Copy
<1>3. DataOK'
  <2>1. \A c \in Copy : past'[c] \subseteq Fate
    BY <1>1 DEF InsertCopies, DataOK, Fate
  <2>2. past' \in [Copy -> SUBSET Fate]
    BY <2>1 DEF InsertCopies
  <2>3. nextId' \in 1 .. MaxId + 1
    BY <1>0, ConstantsAssumption DEF InsertCopies, MsgId
  <2>4. /\ message' \in [MsgId -> Message \cup {NoMessage}]
        /\ lease' \in [Copy -> {"none", "free", "held", "expired"}]
    BY <1>0, <1>1 DEF InsertCopies, DataOK
  <2> QED
    BY <1>1, <2>2, <2>3, <2>4 DEF InsertCopies, DataOK
<1>4. Growing
  BY <1>0, <1>1 DEF InsertCopies, Growing, DataOK, MsgId
<1>5. ASSUME NEW c \in Copy PROVE CopyInv(c)'
  <2>0. CopyInv(c)
    BY DEF Inv, TableInv
  <2>1. c = old.out.from => c[1] < nextId /\ Exhausted(c)
    <3>1. old.caller = "publish" => c # old.out.from
      BY <1>1, ConstantsAssumption DEF Tracks, NoCopy, Copy
    <3>2. old.caller # "publish" => old.cur \in Work /\ Read(old.cur)
      BY <1>1 DEF Holding, Reg, Tracks
    <3> QED
      BY <1>1, <3>1, <3>2 DEF Tracks, Read
  <2>2. CASE c \in new
    <3>1. past[c] = {} /\ c[1] = id /\ c # old.out.from
      BY <1>0, <1>1, <2>0, <2>1, <2>2 DEF CopyInv, MsgId, DataOK
    <3> QED
      BY <1>0, <1>1, <2>0, <2>2, <3>1 DEF InsertCopies, CopyInv, Stored, Exhausted, MsgId, DataOK
  <2>3. CASE c \notin new
    BY <1>0, <1>1, <2>0, <2>1, <2>3 DEF InsertCopies, CopyInv, Stored, Exhausted, MsgId, DataOK, Copy
  <2> QED
    BY <2>2, <2>3
<1>6. \A i \in MsgId : i < nextId' => message'[i] \in Message
  BY <1>0, <1>1, ConstantsAssumption DEF InsertCopies, Inv, TableInv, DataOK, MsgId
<1>7. r \in Reg /\ Holding(r) /\ Tracks(r)'
  <2>1. CASE old.caller = "publish"
    <3> DEFINE work == {[copy |-> c, attempts |-> 0] : c \in new}
               p    == [Idle EXCEPT !.pc = "push", !.work = work]
    <3>1. work \subseteq Work
      BY <1>2 DEF Work
    <3>2. \A w \in work : Read(w)'
      BY <1>0, <1>1, <1>2, <1>3 DEF InsertCopies, Read, DataOK, MsgId, Copy
    <3>3. p.work = work /\ p.got = {} /\ p.cur = NoWork /\ p.pc = "push" /\ p.caller = "publish"
      BY DEF Idle
    <3>5. p \in Reg
      BY <3>1 DEF Idle, Reg
    <3>6. Holding(p)
      BY <3>3 DEF Holding
    <3>4. Tracks(p)'
      BY <3>2, <3>3 DEF Tracks
    <3> QED
      BY <2>1, <3>5, <3>6, <3>4
  <2>2. CASE old.caller # "publish"
    <3> DEFINE d == [old EXCEPT !.pc = "drop"]
    <3>1. d \in Reg /\ Holding(d)
      BY <1>1, <2>2 DEF Reg, Holding
    <3>2. /\ d.work = old.work /\ d.got = old.got /\ d.cur = old.cur /\ d.pc = "drop"
          /\ old.cur \in Work /\ old.out.from = old.cur.copy
      BY <1>1, <2>2 DEF Reg, Tracks, Holding
    <3>3. "forwarded" \in past'[d.cur.copy]
      BY <1>0, <3>2 DEF InsertCopies, Work
    <3>4. Tracks(old)'
      BY <1>1, <1>4, TracksStable
    <3>5. Tracks(d)'
      BY <3>2, <3>3, <3>4 DEF Tracks
    <3> QED
      BY <2>2, <3>1, <3>5
  <2> QED
    BY <2>1, <2>2
<1>8. RegInv'
  <2> QED
    BY <1>0, <1>1, <1>4, <1>7, SetKeeps DEF Inv, InsertCopies, r
<1> QED
  BY <1>3, <1>5, <1>6, <1>8 DEF Inv, TableInv

\* The row in cur is a known copy.
LEMMA CurKnown ==
  ASSUME NEW r \in Reg, r.cur # NoWork, Tracks(r)
  PROVE  r.cur \in Work /\ r.cur.copy \in Copy /\ Read(r.cur)
  BY DEF Reg, Work, Tracks

LEMMA DropInv == ASSUME Inv, NEW h \in Handler, Drop(h) PROVE Inv'
<1>1. PICK old \in Reg : old = reg[h] /\ Holding(old) /\ Tracks(old)
  BY Registers
<1>2. old.pc = "drop" /\ old.cur # NoWork /\ old.cur.copy \in Copy
      /\ "forwarded" \in past[old.cur.copy]
  BY <1>1, CurKnown DEF Drop, At, Holding, Tracks
<1>3. Remove({old.cur.copy}, {})
  BY <1>1 DEF Drop
<1>4. TableInv' /\ Growing
  BY <1>2, <1>3, RemoveKeeps DEF Drop, Inv, TableInv, DataOK
<1> DEFINE r == [old EXCEPT !.pc = IF old.caller = "pull" THEN "lease" ELSE "push",
                   !.caller = IF old.caller = "pull" THEN "pull" ELSE "publish",
                   !.topic = NoTopic, !.out = NoMessage, !.dest = {}, !.cur = NoWork]
<1>5. Set(h, r)
  BY <1>1 DEF Drop
<1>6. r \in Reg /\ r.work = old.work /\ r.got = old.got /\ r.cur = NoWork /\ r.pc \in {"lease", "push"}
  BY ZenonT(40) DEF Reg
<1>7. Holding(r)
  BY <1>1, <1>2 DEF Holding, Reg
<1>8. Tracks(old)'
  BY <1>1, <1>4, TracksStable DEF Inv, TableInv
<1>9. Tracks(r)'
  BY <1>6, <1>8 DEF Tracks
<1> HIDE DEF r
<1> QED
  BY <1>4, <1>5, <1>6, <1>7, <1>9, SetKeeps DEF Inv, TableInv

LEMMA PushInv ==
  ASSUME Inv, NEW h \in Handler, PushNext(h) \/ PushDone(h) \/ PushOk(h) \/ PushFail(h)
  PROVE  Inv'
<1>1. PICK old \in Reg : old = reg[h] /\ Holding(old) /\ Tracks(old)
  BY Registers
<1>2. CASE PushNext(h)
  <2>1. PICK w \in old.work :
          Set(h, [old EXCEPT !.work = old.work \ {w},
                    !.pc = IF subs[w.copy[2]] # NoSub /\ subs[w.copy[2]].push THEN "http" ELSE "push",
                    !.cur = IF subs[w.copy[2]] # NoSub /\ subs[w.copy[2]].push THEN w ELSE NoWork])
    BY <1>1, <1>2 DEF PushNext
  <2>2. w \in Work /\ w # NoWork /\ Read(w) /\ old.caller = "publish"
    <3>1. old.pc = "push" /\ w \in Work
      BY <1>1, <1>2, <2>1 DEF PushNext, At, Reg
    <3> QED
      BY <1>1, <2>1, <3>1, ConstantsAssumption DEF Tracks, Holding
  <2> DEFINE to == [old EXCEPT !.work = old.work \ {w}, !.pc = "http", !.cur = w]
             skip == [old EXCEPT !.work = old.work \ {w}, !.pc = "push", !.cur = NoWork]
  <2>3. to \in Reg /\ Holding(to) /\ Tracks(to)
    BY <1>1, <2>2 DEF Reg, Holding, Tracks
  <2>5. skip \in Reg /\ Holding(skip) /\ Tracks(skip)
    BY <1>1, <2>2 DEF Reg, Holding, Tracks
  <2>4. Set(h, to) \/ Set(h, skip)
    BY <2>1
  <2> HIDE DEF to, skip
  <2> QED
    BY <1>2, <2>3, <2>5, <2>4, LocalStep DEF PushNext
<1>3. CASE PushDone(h)
  BY <1>3, IdleOK, LocalStep DEF PushDone
<1>4. CASE PushOk(h)
  <2> DEFINE r == [old EXCEPT !.pc = "push", !.cur = NoWork]
  <2>0. old.caller = "publish"
    BY <1>1, <1>4 DEF PushOk, At, Holding
  <2>1. TableInv' /\ Growing
    BY <1>1, <1>4, RemoveKeeps DEF PushOk, Fate, Inv, TableInv, DataOK
  <2>2. r \in Reg /\ Holding(r)
    BY <2>0 DEF Reg, Holding
  <2>3. Tracks(old)'
    BY <1>1, <2>1, TracksStable DEF Inv, TableInv
  <2>4. Tracks(r)'
    BY <2>3 DEF Tracks, Reg
  <2> QED
    BY <1>1, <1>4, <2>1, <2>2, <2>4, SetKeeps DEF PushOk, Inv, TableInv
<1>5. CASE PushFail(h)
  <2> DEFINE r == [old EXCEPT !.pc = "record"]
  <2>1. old.pc = "http" /\ old.cur # NoWork /\ old.caller = "publish"
    BY <1>1, <1>5 DEF PushFail, At, Holding
  <2>2. r \in Reg /\ Holding(r) /\ Tracks(r)
    BY <1>1, <2>1 DEF Reg, Holding, Tracks
  <2> QED
    BY <1>1, <1>5, <2>2, LocalStep DEF PushFail
<1> QED
  BY <1>2, <1>3, <1>4, <1>5

\* The message of a row that a handler has read is in the table.
LEMMA MessageKnown ==
  ASSUME Inv, NEW w \in Work, Read(w) PROVE message[w.copy[1]] \in Message
  BY DEF Inv, TableInv, Read, Work, Copy

\* Starting the dead-letter publish of a row that is due, on behalf of Pull or
\* of RecordPushDeliveryFailure.
LEMMA ForwardInv ==
  ASSUME Inv, UNCHANGED <<tables, tries, past>>, NEW h \in Handler,
         NEW r \in Reg, \A v \in r.work : Read(v), \A c \in r.got : Known(c), r.caller # "publish",
         r.caller = "pull" => r.sub # NoSub /\ r.cfg # NoSub,
         NEW failed \in Reg, Holding(failed), Tracks(failed),
         NEW cfg \in SubConfig, NEW w \in Work, Read(w), Due(cfg, w),
         Forward(h, r, cfg, w, failed)
  PROVE  Inv'
<1> DEFINE out  == [data |-> message[w.copy[1]].data, from |-> w.copy]
           sent == [r EXCEPT !.pc = "list", !.topic = cfg.deadLetter, !.cur = w, !.out = out]
<1>1. CASE cfg.deadLetter \in topics
  <2>1. out \in Message
    BY MessageKnown DEF Message, Work
  <2>2. sent \in Reg
    BY <1>1, <2>1 DEF Reg, Inv, TableInv, DataOK
  <2>3. /\ sent.pc = "list" /\ sent.caller = r.caller /\ sent.cur = w /\ sent.out = out
        /\ sent.work = r.work /\ sent.got = r.got /\ sent.sub = r.sub /\ sent.cfg = r.cfg
    BY DEF Reg
  <2>4. Holding(sent)
    BY <2>1, <2>3, ConstantsAssumption DEF Holding
  <2>5. Exhausted(w.copy)
    BY ConstantsAssumption DEF Due, Read, Exhausted, Inv, TableInv, DataOK, Work
  <2>6. Tracks(sent)
    BY <2>3, <2>5 DEF Tracks
  <2>7. Set(h, sent)
    BY <1>1 DEF Forward
  <2> HIDE DEF sent
  <2> QED
    BY <2>2, <2>4, <2>6, <2>7, LocalStep
<1>2. CASE cfg.deadLetter \notin topics
  BY <1>2, LocalStep DEF Forward
<1> QED
  BY <1>1, <1>2

LEMMA RecordInv ==
  ASSUME Inv, NEW h \in Handler, RecordPushDeliveryFailure(h) PROVE Inv'
<1>1. PICK old \in Reg : old = reg[h] /\ Holding(old) /\ Tracks(old)
  BY Registers
<1>2. old.pc = "record" /\ old.cur # NoWork /\ old.caller = "publish"
  BY <1>1 DEF RecordPushDeliveryFailure, At, Holding
<1>3. old.cur \in Work /\ old.cur.copy \in Copy /\ Read(old.cur)
  BY <1>1, <1>2, CurKnown
<1> DEFINE c == old.cur.copy
           w == [copy |-> c, attempts |-> attempts[c]]
           back == [old EXCEPT !.pc = "push", !.cur = NoWork]
           asked == [old EXCEPT !.caller = "push"]
           counting == [old EXCEPT !.pc = "count", !.cur = w]
<1>4. back \in Reg /\ Holding(back) /\ Tracks(back)
  BY <1>1, <1>2 DEF Reg, Holding, Tracks
<1>5. w \in Work /\ w # NoWork /\ Read(w)
  <2>1. attempts[c] \in Nat /\ attempts[c] <= tries[c]
    BY <1>3 DEF Inv, TableInv, DataOK, CopyInv
  <2> QED
    BY <1>3, <2>1, ConstantsAssumption DEF Work, Read
<1>6. counting \in Reg /\ Holding(counting) /\ Tracks(counting)
  BY <1>1, <1>2, <1>5 DEF Reg, Holding, Tracks
<1>7. CASE Set(h, back)
  BY <1>4, <1>7, LocalStep DEF RecordPushDeliveryFailure
<1>8. CASE Set(h, counting)
  <2> HIDE DEF counting
  <2> QED
    BY <1>6, <1>8, LocalStep DEF RecordPushDeliveryFailure
<1>9. CASE /\ subs[c[2]] # NoSub /\ Due(subs[c[2]], w)
           /\ Forward(h, asked, subs[c[2]], w, back)
  <2>1. subs[c[2]] \in SubConfig
    BY <1>3, <1>9 DEF Inv, TableInv, DataOK, Copy
  <2>2. /\ asked \in Reg /\ asked.work = old.work /\ asked.caller = "push"
        /\ asked.got = old.got
        /\ \A v \in old.work : Read(v)
        /\ \A k \in old.got : Known(k)
    BY <1>1 DEF Reg, Tracks
  <2> HIDE DEF asked, back
  <2> QED
    BY <1>4, <1>5, <1>9, <2>1, <2>2, ForwardInv DEF RecordPushDeliveryFailure
<1> QED
  BY <1>1, <1>7, <1>8, <1>9 DEF RecordPushDeliveryFailure

\* Writing back a counter read earlier, together with the delivery it counts.
LEMMA Counted ==
  ASSUME Inv, NEW w \in Work, Read(w), UNCHANGED <<topics, subs, message, nextId, past>>,
         attempts' = IF Stored(w.copy)
                     THEN [attempts EXCEPT ![w.copy] = w.attempts + 1] ELSE attempts,
         tries' = [tries EXCEPT ![w.copy] = @ + 1],
         lease' \in [Copy -> {"none", "free", "held", "expired"}],
         \A c \in Copy : lease'[c] = "none" <=> lease[c] = "none"
  PROVE  TableInv' /\ Growing
<1>1. w.copy \in Copy /\ w.attempts \in Nat /\ DataOK
  BY DEF Work, Inv, TableInv
<1>2. DataOK' /\ Growing
  BY <1>1 DEF DataOK, Growing
<1>3. ASSUME NEW c \in Copy PROVE CopyInv(c)'
  <2>1. CopyInv(c)
    BY DEF Inv, TableInv
  <2>2. /\ attempts'[c] = (IF c = w.copy /\ Stored(c) THEN w.attempts + 1 ELSE attempts[c])
        /\ tries'[c] = (IF c = w.copy THEN tries[c] + 1 ELSE tries[c])
        /\ tries[c] \in Nat /\ attempts[c] \in Nat
    BY <1>1 DEF DataOK
  <2>3. attempts'[c] <= tries'[c]
    BY <1>1, <2>1, <2>2 DEF CopyInv, Read
  <2>4. Exhausted(c) => Exhausted(c)'
    BY <2>2, ConstantsAssumption DEF Exhausted
  <2> QED
    BY <2>1, <2>3, <2>4 DEF CopyInv, Stored
<1> QED
  BY <1>2, <1>3 DEF Inv, TableInv

LEMMA CountInv ==
  ASSUME Inv, NEW h \in Handler, CountPushFailure(h) PROVE Inv'
<1>1. PICK old \in Reg : old = reg[h] /\ Holding(old) /\ Tracks(old)
  BY Registers
<1>2. old.pc = "count" /\ old.cur # NoWork /\ old.caller = "publish"
  BY <1>1 DEF CountPushFailure, At, Holding
<1>3. old.cur \in Work /\ Read(old.cur)
  BY <1>1, <1>2, CurKnown
<1> DEFINE r == [old EXCEPT !.pc = "push", !.cur = NoWork]
<1>4. r \in Reg /\ Holding(r) /\ Tracks(r)
  BY <1>1, <1>2 DEF Reg, Holding, Tracks
<1>5. TableInv' /\ Growing
  BY <1>1, <1>3, Counted DEF CountPushFailure, Inv, TableInv, DataOK
<1>6. Tracks(r)'
  BY <1>4, <1>5, TracksStable DEF Inv, TableInv
<1> QED
  BY <1>1, <1>4, <1>5, <1>6, SetKeeps DEF CountPushFailure, Inv, TableInv

LEMMA PullInv ==
  ASSUME Inv, NEW h \in Handler,
         SelectCandidates(h) \/ DeadLetterNext(h) \/ LeaseNext(h) \/ ReturnPulled(h)
  PROVE  Inv'
<1>1. PICK old \in Reg : old = reg[h] /\ Holding(old) /\ Tracks(old)
  BY Registers
<1>2. CASE SelectCandidates(h)
  <2>1. old.pc = "select"
    BY <1>1, <1>2 DEF SelectCandidates, At
  <2> DEFINE work == {[copy |-> c, attempts |-> attempts[c]] : c \in Candidates(old.sub)}
             r == [old EXCEPT !.pc = "lease", !.work = work]
  <2>2. ASSUME NEW c \in Candidates(old.sub)
        PROVE  [copy |-> c, attempts |-> attempts[c]] \in Work
               /\ Read([copy |-> c, attempts |-> attempts[c]])
    <3>1. c \in MsgId \X {old.sub} /\ Stored(c) /\ old.sub \in Sub
      BY <1>1, <2>1 DEF Candidates, Available, Stored, Holding, Reg
    <3>2. c \in Copy
      BY <3>1 DEF Copy
    <3> QED
      BY <3>1, <3>2 DEF Inv, TableInv, DataOK, CopyInv, Work, Read
  <2>3. work \subseteq Work /\ \A w \in work : Read(w)
    BY <2>2
  <2> HIDE DEF work
  <2>4. r \in Reg /\ Holding(r) /\ Tracks(r)
    BY <1>1, <2>1, <2>3 DEF Reg, Holding, Tracks
  <2>5. Set(h, r)
    BY <1>1, <1>2 DEF SelectCandidates, work
  <2> QED
    BY <1>2, <2>4, <2>5, LocalStep DEF SelectCandidates
<1>3. CASE DeadLetterNext(h)
  <2>1. PICK w \in old.work :
          Due(old.cfg, w) /\ Forward(h, [old EXCEPT !.work = @ \ {w}], old.cfg, w, Idle)
    BY <1>1, <1>3 DEF DeadLetterNext, Oldest
  <2>2. old.pc = "lease" /\ old.caller = "pull" /\ old.cfg \in SubConfig /\ old.sub # NoSub
    BY <1>1, <1>3 DEF DeadLetterNext, MoreToLease, At, Holding, Reg
  <2>3. w \in Work /\ Read(w)
    BY <1>1 DEF Reg, Tracks
  <2> DEFINE r == [old EXCEPT !.work = @ \ {w}]
  <2>4. /\ r \in Reg
        /\ \A v \in r.work : Read(v)
        /\ \A c \in r.got : Known(c)
        /\ r.caller = "pull" /\ r.sub # NoSub /\ r.cfg # NoSub
    BY <1>1, <2>2, ConstantsAssumption DEF Reg, Tracks
  <2>5. Forward(h, r, old.cfg, w, Idle)
    BY <2>1
  <2>6. UNCHANGED <<tables, tries, past>> /\ r.caller # "publish" /\ Due(old.cfg, w)
    BY <1>3, <2>1, <2>4 DEF DeadLetterNext
  <2>7. Idle \in Reg /\ Holding(Idle) /\ Tracks(Idle)
    BY IdleOK
  <2> HIDE DEF r
  <2> QED
    BY <2>2, <2>3, <2>4, <2>5, <2>6, <2>7, ForwardInv
<1>4. CASE LeaseNext(h)
  <2>1. PICK w \in old.work :
          /\ lease' = IF Stored(w.copy) THEN [lease EXCEPT ![w.copy] = "held"] ELSE lease
          /\ attempts' = IF Stored(w.copy)
                         THEN [attempts EXCEPT ![w.copy] = w.attempts + 1] ELSE attempts
          /\ tries' = [tries EXCEPT ![w.copy] = @ + 1]
          /\ Set(h, [old EXCEPT !.work = @ \ {w}, !.got = @ \cup {w.copy}])
    BY <1>1, <1>4 DEF LeaseNext, Oldest
  <2>2. w \in Work /\ w.copy \in Copy /\ Read(w) /\ Known(w.copy)
    BY <1>1 DEF Reg, Tracks, Work, Read, Known
  <2>3. old.pc = "lease"
    BY <1>1, <1>4 DEF LeaseNext, MoreToLease, At
  <2> DEFINE r == [old EXCEPT !.work = @ \ {w}, !.got = @ \cup {w.copy}]
  <2>4. r \in Reg /\ Holding(r) /\ Tracks(r)
    BY <1>1, <2>2, <2>3 DEF Reg, Holding, Tracks
  <2>5. /\ lease' \in [Copy -> {"none", "free", "held", "expired"}]
        /\ \A c \in Copy : lease'[c] = "none" <=> lease[c] = "none"
    BY <2>1, <2>2 DEF Inv, TableInv, DataOK, Stored
  <2>6. TableInv' /\ Growing
    BY <1>4, <2>1, <2>2, <2>5, Counted DEF LeaseNext
  <2>7. Tracks(r)'
    BY <2>4, <2>6, TracksStable DEF Inv, TableInv
  <2> HIDE DEF r
  <2> QED
    BY <2>1, <2>4, <2>6, <2>7, SetKeeps DEF Inv, TableInv, r
<1>5. CASE ReturnPulled(h)
  <2>1. /\ past' = [c \in Copy |-> IF c \in old.got THEN past[c] \cup {"received"} ELSE past[c]]
        /\ Set(h, Idle) /\ UNCHANGED <<tables, tries>>
    BY <1>1, <1>5 DEF ReturnPulled
  <2>2. \A c \in old.got : c \in Copy /\ c[1] < nextId
    BY <1>1 DEF Tracks, Reg, Known
  <2>3. DataOK' /\ Growing
    BY <2>1, ConstantsAssumption DEF tables, Inv, TableInv, DataOK, Growing, Fate
  <2>4. ASSUME NEW c \in Copy PROVE CopyInv(c)'
    <3>1. CopyInv(c)
      BY DEF Inv, TableInv
    <3>2. past'[c] = (IF c \in old.got THEN past[c] \cup {"received"} ELSE past[c])
      BY <2>1
    <3> QED
      BY <2>1, <2>2, <3>1, <3>2 DEF CopyInv, Stored, Exhausted, tables
  <2>5. TableInv'
    BY <2>1, <2>3, <2>4 DEF Inv, TableInv, tables
  <2> QED
    BY <2>1, <2>3, <2>5, IdleOK, SetKeeps DEF Inv, TableInv
<1> QED
  BY <1>2, <1>3, <1>4, <1>5

LEMMA ClientInv == ASSUME Inv, Client PROVE Inv'
<1>0. \A c \in MsgId \X Sub : c \in Copy
  BY DEF Copy
<1>1. ASSUME NEW c \in Copy, Acknowledge(c) PROVE Inv'
  <2>1. TableInv' /\ Growing
    BY <1>1, RemoveKeeps DEF Acknowledge, Fate, Inv, TableInv, DataOK
  <2> QED
    BY <1>1, <2>1, RegStable DEF Acknowledge, Inv, TableInv
<1>2. ASSUME NEW c \in Copy, NEW to \in {"held", "expired"}, ModifyAckDeadline(c, to)
      PROVE  Inv'
  <2>1. TableInv' /\ Growing
    BY <1>2 DEF ModifyAckDeadline, Inv, TableInv, DataOK, CopyInv, Stored, Exhausted, Growing
  <2> QED
    BY <1>2, <2>1, RegStable DEF ModifyAckDeadline, Inv, TableInv
<1>3. ASSUME NEW s \in Sub, NEW i \in MsgId, SeekToTime(s, i) PROVE Inv'
  <2> DEFINE older == {c \in Copy : c[2] = s /\ c[1] < i}
  <2>1. ASSUME NEW c \in Copy
        PROVE  /\ lease'[c] \in {"none", "free", "held", "expired"}
               /\ lease'[c] = "none" <=> lease[c] = "none" \/ c \in older
               /\ attempts'[c] = IF c \in older THEN 0 ELSE attempts[c]
               /\ past'[c] = IF c \in older /\ Stored(c)
                             THEN past[c] \cup {"purged"} ELSE past[c]
    BY <1>3 DEF SeekToTime, Inv, TableInv, DataOK, Stored
  <2>2. DataOK'
    <3>1. lease' \in [Copy -> {"none", "free", "held", "expired"}]
      BY <1>3, <2>1 DEF SeekToTime
    <3>2. attempts' \in [Copy -> Nat]
      BY <1>3 DEF SeekToTime, Inv, TableInv, DataOK
    <3>3. past' \in [Copy -> SUBSET Fate]
      BY <1>3 DEF SeekToTime, Inv, TableInv, DataOK, Fate
    <3> QED
      BY <1>3, <3>1, <3>2, <3>3 DEF SeekToTime, Inv, TableInv, DataOK
  <2>3. Growing
    BY <1>3, <2>1 DEF SeekToTime, Inv, TableInv, DataOK, Growing
  <2> HIDE DEF older
  <2>4. ASSUME NEW c \in Copy PROVE CopyInv(c)'
    <3>1. CopyInv(c) /\ tries'[c] = tries[c] /\ tries[c] \in Nat /\ nextId' = nextId
      BY <1>3 DEF SeekToTime, Inv, TableInv, DataOK
    <3>2. CASE c \in older
      <4>1. /\ lease'[c] = "none" /\ attempts'[c] = 0 /\ past[c] \subseteq past'[c]
            /\ past'[c] \subseteq past[c] \cup {"purged"}
            /\ Stored(c) => "purged" \in past'[c]
        BY <2>1, <3>2
      <4>2. past'[c] # {} => c[1] < nextId'
        BY <3>1, <3>2, <2>1 DEF CopyInv
      <4>3. "forwarded" \in past'[c] => Exhausted(c)'
        BY <3>1, <4>1 DEF CopyInv, Exhausted
      <4>4. "stored" \in past'[c] => past'[c] \cap {"acked", "purged", "forwarded"} # {}
        BY <3>1, <4>1 DEF CopyInv
      <4> QED
        BY <3>1, <4>1, <4>2, <4>3, <4>4 DEF CopyInv, Stored
    <3>3. CASE c \notin older
      BY <2>1, <3>1, <3>3 DEF CopyInv, Stored, Exhausted
    <3> QED
      BY <3>2, <3>3
  <2>5. TableInv'
    BY <1>3, <2>2, <2>4 DEF SeekToTime, Inv, TableInv
  <2> QED
    BY <1>3, <2>3, <2>5, RegStable DEF SeekToTime, Inv, TableInv
<1> QED
  BY <1>1, <1>2, <1>3 DEF Client

LEMMA ExpireInv == ASSUME Inv, NEW c \in Copy, Expire(c) PROVE Inv'
<1>1. TableInv' /\ Growing
  BY DEF Expire, Inv, TableInv, DataOK, CopyInv, Stored, Exhausted, Growing
<1> QED
  BY <1>1, RegStable DEF Expire, Inv, TableInv

LEMMA RestartInv == ASSUME Inv, Restart PROVE Inv'
<1>1. TableInv'
  BY DEF Restart, tables, Inv, TableInv, DataOK, CopyInv, Stored, Exhausted
<1>2. RegInv'
  BY IdleOK DEF Restart, RegInv
<1> QED
  BY <1>1, <1>2 DEF Inv

LEMMA NextInv == Inv /\ [Next]_vars => Inv'
<1> SUFFICES ASSUME Inv, [Next]_vars PROVE Inv'
  OBVIOUS
<1>1. CASE Admin
  BY <1>1, AdminInv
<1>2. ASSUME NEW h \in Handler, Request(h) PROVE Inv'
  BY <1>2, RequestInv
<1>3. ASSUME NEW h \in Handler, Step(h) PROVE Inv'
  BY <1>3, ListInv, InsertInv, DropInv, PushInv, RecordInv, CountInv, PullInv DEF Step
<1>4. CASE Client
  BY <1>4, ClientInv
<1>5. ASSUME NEW c \in Copy, Expire(c) PROVE Inv'
  BY <1>5, ExpireInv
<1>6. CASE Restart
  BY <1>6, RestartInv
<1>7. ASSUME NEW h \in Handler, Administer(h) PROVE Inv'
  BY <1>7, AdministerInv
<1>8. CASE UNCHANGED vars
  BY <1>8 DEF vars, Inv, RegInv, Tracks, Read, Known, Exhausted, TableInv, DataOK, CopyInv, Stored
<1> QED
  BY <1>1, <1>2, <1>3, <1>4, <1>5, <1>6, <1>7, <1>8 DEF Next

-----------------------------------------------------------------------------
\* The invariant holds in every reachable state of every instance.
THEOREM Invariance == Spec => []Inv
  BY InitInv, NextInv, PTL DEF Spec

\* Tables, history and registers are well typed, and a handler holds the row
\* that its next statement writes.
THEOREM TypeCorrect == Spec => []TypeOK
<1>1. Inv => TypeOK
  BY DEF Inv, RegInv, TableInv, DataOK, TypeOK
<1> QED
  BY <1>1, Invariance, PTL

\* No interleaving of pulls, pushes, dead-letter publishes, seeks, deletions
\* and restarts loses a copy.
THEOREM NothingLost == Spec => []NoLoss
<1>1. Inv => NoLoss
  BY DEF Inv, TableInv, CopyInv, NoLoss
<1> QED
  BY <1>1, Invariance, PTL

\* A handler that read a row before it was acknowledged or purged never brings
\* it back.
THEOREM SettledForGood == Spec => []SettledStaysGone
<1>1. Inv => SettledStaysGone
  BY DEF Inv, TableInv, CopyInv, SettledStaysGone
<1> QED
  BY <1>1, Invariance, PTL

\* However stale the counters that handlers write back, a copy is dead-lettered
\* only after MaxAttempts - 1 deliveries.
THEOREM DeadLetterJustified == Spec => []DeadLetterEarned
<1>1. Inv => DeadLetterEarned
  BY DEF Inv, TableInv, CopyInv, Exhausted, DeadLetterEarned
<1> QED
  BY <1>1, Invariance, PTL

-----------------------------------------------------------------------------
(* PubSub implements Mailbox.                                              *)

Settled(c) == past[c] \cap {"acked", "purged"} # {}
Forwarded(c) == "forwarded" \in past[c]

\* A step that changes none of what the mapping looks at is a stutter.
LEMMA Stutter ==
  ASSUME nextId' = nextId,
         \A c \in Copy : /\ Stored(c)' <=> Stored(c)
                         /\ Settled(c)' <=> Settled(c)
                         /\ Forwarded(c)' <=> Forwarded(c)
  PROVE  UNCHANGED M!vars
  BY DEF M!vars, Settled, Forwarded

\* Deleting rows and recording that they are settled is a Settle.
LEMMA Settling ==
  ASSUME NEW gone, nextId' = nextId,
         \A c \in Copy : /\ Stored(c)' <=> Stored(c) /\ c \notin gone
                         /\ Settled(c)' <=> Settled(c) \/ (Stored(c) /\ c \in gone)
                         /\ Forwarded(c)' <=> Forwarded(c)
  PROVE  M!Settle
<1> DEFINE S == {c \in Copy : Stored(c)}
           G == {c \in Copy : Stored(c) /\ c \in gone}
           T == {c \in Copy : Settled(c)}
           F == {c \in Copy : Forwarded(c)}
<1>1. G \in SUBSET S
  OBVIOUS
<1>2. {c \in Copy : Stored(c)'} = S \ G
  OBVIOUS
<1>3. {c \in Copy : Settled(c)'} = T \cup G
  OBVIOUS
<1>4. {c \in Copy : Forwarded(c)'} = F
  OBVIOUS
<1> QED
  BY <1>1, <1>2, <1>3, <1>4 DEF M!Settle, Settled, Forwarded

LEMMA RemoveSettles ==
  ASSUME Inv, NEW gone, NEW why \in SUBSET Fate, Remove(gone, why), nextId' = nextId,
         why \cap {"acked", "purged"} # {}, "forwarded" \notin why
  PROVE  M!Settle
<1>1. ASSUME NEW c \in Copy
      PROVE  /\ Stored(c)' <=> Stored(c) /\ c \notin gone
             /\ Settled(c)' <=> Settled(c) \/ (Stored(c) /\ c \in gone)
             /\ Forwarded(c)' <=> Forwarded(c)
  <2>1. past'[c] = IF c \in gone /\ Stored(c) THEN past[c] \cup why ELSE past[c]
    BY DEF Remove
  <2>2. Stored(c)' <=> Stored(c) /\ c \notin gone
    BY DEF Remove, Stored
  <2> QED
    BY <2>1, <2>2 DEF Settled, Forwarded
<1> QED
  BY <1>1, Settling

LEMMA InsertRefines ==
  ASSUME Inv, NEW h \in Handler, InsertCopies(h)
  PROVE  M!Fanout({}) \/ \E c \in Copy : M!Fanout({c})
<1>1. PICK old \in Reg, id \in MsgId : old = reg[h] /\ id = nextId /\ Holding(old) /\ Tracks(old)
  BY Registers, ConstantsAssumption DEF Inv, TableInv, DataOK, InsertCopies, MsgId
<1>2. old.pc = "insert" /\ old.out \in Message /\ old.dest \in SUBSET Sub
  BY <1>1 DEF InsertCopies, At, Holding, Reg
<1> DEFINE from == old.out.from
           new  == {id} \X old.dest
<1>3. nextId' = nextId + 1
  BY DEF InsertCopies
<1>4. ASSUME NEW c \in Copy
      PROVE  /\ Stored(c)' <=> Stored(c) \/ c \in new
             /\ Settled(c)' <=> Settled(c)
             /\ Forwarded(c)' <=> Forwarded(c) \/ c = from
  <2>1. lease'[c] = IF c \in new THEN "free" ELSE lease[c]
    BY <1>1 DEF InsertCopies
  <2>2. past'[c] = past[c] \cup (IF c \in new THEN {"stored"} ELSE {})
                           \cup (IF c = from THEN {"forwarded"} ELSE {})
    BY <1>1 DEF InsertCopies
  <2> QED
    BY <2>1, <2>2 DEF Stored, Settled, Forwarded
<1> DEFINE S == {c \in Copy : Stored(c)}
           T == {c \in Copy : Settled(c)}
           F == {c \in Copy : Forwarded(c)}
<1>5. {c \in Copy : Stored(c)'} = S \cup new
  BY <1>2, <1>4 DEF Copy
<1>6. {c \in Copy : Settled(c)'} = T
  BY <1>4
<1>7. CASE from \notin Copy
  <2>1. {c \in Copy : Forwarded(c)'} = F \cup {}
    BY <1>4, <1>7
  <2>2. M!Fanout({})
    BY <1>1, <1>2, <1>3, <1>5, <1>6, <2>1 DEF M!Fanout, M!MsgId, MsgId, Settled, Forwarded
  <2> QED
    BY <2>2
<1>8. CASE from \in Copy
  <2>1. {c \in Copy : Forwarded(c)'} = F \cup {from}
    BY <1>4, <1>8
  <2>2. from[1] < nextId
    <3>1. old.caller # "publish"
      BY <1>1, <1>2, <1>8, ConstantsAssumption DEF Tracks, NoCopy, Copy
    <3> QED
      BY <1>1, <1>2, <3>1 DEF Tracks, Holding, Read
  <2>3. M!Fanout({from})
    BY <1>1, <1>2, <1>3, <1>5, <1>6, <2>1, <2>2 DEF M!Fanout, M!MsgId, MsgId, Settled, Forwarded
  <2> QED
    BY <1>8, <2>3
<1> QED
  BY <1>7, <1>8

LEMMA DropRefines ==
  ASSUME Inv, NEW h \in Handler, Drop(h) PROVE M!Discard \/ UNCHANGED M!vars
<1>1. PICK old \in Reg : old = reg[h] /\ Holding(old) /\ Tracks(old)
  BY Registers
<1> DEFINE k == old.cur.copy
<1>2. k \in Copy /\ Forwarded(k) /\ Remove({k}, {}) /\ nextId' = nextId
  BY <1>1, CurKnown DEF Drop, At, Holding, Tracks, Forwarded
<1>3. ASSUME NEW c \in Copy
      PROVE  /\ Stored(c)' <=> Stored(c) /\ c # k
             /\ Settled(c)' <=> Settled(c)
             /\ Forwarded(c)' <=> Forwarded(c)
  BY <1>2 DEF Remove, Stored, Settled, Forwarded
<1>4. CASE ~Stored(k)
  BY <1>2, <1>3, <1>4, Stutter
<1>5. CASE Stored(k)
  <2> DEFINE S == {c \in Copy : Stored(c)}
             T == {c \in Copy : Settled(c)}
             F == {c \in Copy : Forwarded(c)}
  <2>1. /\ {c \in Copy : Stored(c)'} = S \ {k}
        /\ {c \in Copy : Settled(c)'} = T
        /\ {c \in Copy : Forwarded(c)'} = F
        /\ k \in S \cap F
    BY <1>2, <1>3, <1>5
  <2> QED
    BY <1>2, <2>1 DEF M!Discard, Settled, Forwarded
<1> QED
  BY <1>4, <1>5

LEMMA StepRefines == Inv /\ [Next]_vars => [M!Next]_M!vars
<1> SUFFICES ASSUME Inv, [Next]_vars PROVE M!Next \/ UNCHANGED M!vars
  OBVIOUS
<1>1. ASSUME UNCHANGED <<lease, nextId, past>> PROVE UNCHANGED M!vars
  BY <1>1, Stutter DEF Stored, Settled, Forwarded
<1>2. ASSUME NEW s \in Sub, DeleteSubscription(s) PROVE M!Settle
  BY <1>2, RemoveSettles DEF DeleteSubscription, Fate
<1>3. CASE Admin
  BY <1>1, <1>2, <1>3 DEF Admin, CreateTopic, DeleteTopic, M!Next
<1>4. ASSUME NEW h \in Handler, Request(h) PROVE UNCHANGED M!vars
  BY <1>1, <1>4 DEF Request, StartPublish, StartPull, tables
<1>5. ASSUME NEW h \in Handler, Step(h) PROVE M!Next \/ UNCHANGED M!vars
  <2>1. CASE \/ ListSubscriptionsForTopic(h) \/ PushNext(h) \/ PushDone(h) \/ PushFail(h)
             \/ RecordPushDeliveryFailure(h) \/ CountPushFailure(h)
             \/ SelectCandidates(h) \/ DeadLetterNext(h)
    BY <1>1, <2>1 DEF ListSubscriptionsForTopic, PushNext, PushDone, PushFail,
         RecordPushDeliveryFailure, CountPushFailure, SelectCandidates, DeadLetterNext, tables
  <2>2. CASE InsertCopies(h)
    BY <2>2, InsertRefines DEF M!Next, M!Copy, M!MsgId, Copy, MsgId
  <2>3. CASE Drop(h)
    BY <2>3, DropRefines DEF M!Next
  <2>4. CASE PushOk(h)
    BY <2>4, RemoveSettles DEF PushOk, Fate, M!Next
  <2>5. CASE LeaseNext(h)
    <3>1. \A c \in Copy : lease'[c] = "none" <=> lease[c] = "none"
      BY <2>5 DEF LeaseNext, Inv, TableInv, DataOK, Stored
    <3>2. nextId' = nextId /\ past' = past
      BY <2>5 DEF LeaseNext
    <3> QED
      BY <3>1, <3>2, Stutter DEF Stored, Settled, Forwarded
  <2>6. CASE ReturnPulled(h)
    <3>1. /\ lease' = lease /\ nextId' = nextId
          /\ past' = [c \in Copy |-> IF c \in reg[h].got THEN past[c] \cup {"received"} ELSE past[c]]
      BY <2>6 DEF ReturnPulled, tables
    <3>2. ASSUME NEW c \in Copy
          PROVE  (Settled(c)' <=> Settled(c)) /\ (Forwarded(c)' <=> Forwarded(c))
      BY <3>1 DEF Settled, Forwarded
    <3> QED
      BY <3>1, <3>2, Stutter DEF Stored
  <2> QED
    BY <1>5, <2>1, <2>2, <2>3, <2>4, <2>5, <2>6 DEF Step
<1>6. ASSUME NEW c \in Copy, Acknowledge(c) PROVE M!Settle
  BY <1>6, RemoveSettles DEF Acknowledge, Fate
<1>7. ASSUME NEW c \in Copy, NEW to \in {"held", "expired"}, ModifyAckDeadline(c, to)
      PROVE  UNCHANGED M!vars
  BY <1>7, Stutter DEF ModifyAckDeadline, Stored, Settled, Forwarded, Inv, TableInv, DataOK
<1>8. ASSUME NEW s \in Sub, NEW i \in MsgId, SeekToTime(s, i) PROVE M!Settle
  <2> DEFINE older == {c \in Copy : c[2] = s /\ c[1] < i}
  <2>1. ASSUME NEW c \in Copy
        PROVE  /\ Stored(c)' <=> Stored(c) /\ c \notin older
               /\ Settled(c)' <=> Settled(c) \/ (Stored(c) /\ c \in older)
               /\ Forwarded(c)' <=> Forwarded(c)
    <3>1. lease'[c] = "none" <=> lease[c] = "none" \/ c \in older
      BY <1>8 DEF SeekToTime, Stored, Inv, TableInv, DataOK
    <3>2. past'[c] = IF c \in older /\ Stored(c) THEN past[c] \cup {"purged"} ELSE past[c]
      BY <1>8 DEF SeekToTime
    <3> HIDE DEF older
    <3> QED
      BY <3>1, <3>2 DEF Stored, Settled, Forwarded
  <2>2. nextId' = nextId
    BY <1>8 DEF SeekToTime
  <2> HIDE DEF older
  <2> QED
    BY <2>1, <2>2, Settling
<1>9. CASE Client
  BY <1>6, <1>7, <1>8, <1>9 DEF Client, M!Next
<1>10. ASSUME NEW c \in Copy, Expire(c) PROVE UNCHANGED M!vars
  BY <1>10, Stutter DEF Expire, Stored, Settled, Forwarded, Inv, TableInv, DataOK
<1>11. CASE Restart \/ UNCHANGED vars
  BY <1>1, <1>11 DEF Restart, tables, vars
<1>12. ASSUME NEW h \in Handler, Administer(h) PROVE UNCHANGED M!vars
  BY <1>1, <1>12 DEF Administer, StartCreateSubscription, StartUpdateSubscription, Attach,
       CheckPolicy, InsertSubscription, PatchSubscription, tables
<1> QED
  BY <1>3, <1>4, <1>5, <1>9, <1>10, <1>11, <1>12 DEF Next

\* Every behaviour of the handlers is, seen through the mapping, a behaviour of
\* Mailbox: at-least-once delivery with dead-lettering.
THEOREM Refinement == Spec => ImplementsMailbox
<1>1. Init => M!Init
  BY ConstantsAssumption DEF Init, M!Init, Stored
<1> QED
  BY <1>1, StepRefines, Invariance, PTL DEF Spec, ImplementsMailbox, M!Spec

=============================================================================
