-------------------------- MODULE BackgroundProofs --------------------------
(***************************************************************************)
(* Theorems about the services of MCBackground together, for every set of  *)
(* queues, tasks, jobs and builds and every finite set of handlers.        *)
(*                                                                         *)
(* CountsBalance says nothing of a name without a row, so it cannot tell   *)
(* what a task created there starts with.  The invariant of Cloud Tasks    *)
(* adds it: a name without a row has an empty history and no dispatch that *)
(* counts on a row (Fresh).  That of Cloud Scheduler relates the map of    *)
(* tickers, the goroutines and what a request in the middle of its work    *)
(* remembers (JobInv), that of Cloud Build a runner, the row of its build  *)
(* and the history of what failed (BuildInv).                              *)
(***************************************************************************)
EXTENDS MCBackground, FiniteSetTheorems, SequenceTheorems, TLAPS

Reg == [pc : {"idle", "insert", "created", "dispatch", "call", "answer"},
        id : Id \cup {None}, due : BOOLEAN, of : {"none", "stored", "deleted"}]

Names(r)      == r.pc # "idle" => r.id \in Id
Counted(r, i) == r.id = i /\ r.pc \in {"call", "answer"} /\ r.of = "stored"

RegInv == reg \in [Handler -> Reg] /\ \A h \in Handler : Names(reg[h])

TableInv ==
  /\ queues \subseteq Queue
  /\ tasks \in [Id -> Row \cup {None}]
  /\ cut \in [Id -> Nat] /\ strays \in [Id -> Nat] /\ wins \in [Id -> Nat]

Fresh(i)   == tasks[i] = None => cut[i] = 0 /\ strays[i] = 0 /\ wins[i] = 0 /\ Calling(i) = {}
Balance(i) == tasks[i] # None =>
  tasks[i].dispatches + strays[i] = tasks[i].responses + cut[i] + Cardinality(Calling(i))

Inv == /\ RegInv
       /\ TableInv
       /\ \A i \in Id : Fresh(i) /\ Balance(i) /\ wins[i] <= 1

-----------------------------------------------------------------------------
LEMMA CallingSet ==
  ASSUME NEW i
  PROVE  /\ Calling(i) = {h \in Handler : Counted(reg[h], i)}
         /\ IsFiniteSet(Calling(i))
         /\ Cardinality(Calling(i)) \in Nat
<1>1. Calling(i) = {h \in Handler : Counted(reg[h], i)}
  BY DEF Calling, Counted
<1>2. IsFiniteSet(Calling(i))
  BY <1>1, FS_Subset, ConstantsAssumption
<1> QED
  BY <1>1, <1>2, FS_CardinalityType

\* Handlers whose dispatch counts on the row afterwards.
LEMMA CallingNext ==
  ASSUME NEW i
  PROVE  Calling(i)' = {h \in Handler : Counted(reg'[h], i)}
  BY DEF Calling, Counted

\* A step that moves one handler and does not begin or end a counted dispatch.
LEMMA SetKeeps ==
  ASSUME RegInv, NEW h \in Handler, NEW r \in Reg, Names(r), Goto(h, r),
         \A i \in Id : Counted(r, i) <=> Counted(reg[h], i)
  PROVE  RegInv' /\ \A i \in Id : Calling(i)' = Calling(i)
<1>1. reg' \in [Handler -> Reg] /\ reg'[h] = r /\ \A k \in Handler : k # h => reg'[k] = reg[k]
  BY DEF Goto, RegInv
<1>2. \A k \in Handler : Names(reg'[k])
  BY <1>1 DEF RegInv
<1>3. ASSUME NEW i \in Id PROVE Calling(i)' = Calling(i)
  <2>1. \A k \in Handler : Counted(reg'[k], i) <=> Counted(reg[k], i)
    BY <1>1
  <2> QED
    BY <2>1, CallingSet, CallingNext
<1> QED
  BY <1>1, <1>2, <1>3 DEF RegInv, Names

LEMMA LocalStep ==
  ASSUME Inv, NEW h \in Handler, NEW r \in Reg, Names(r), Goto(h, r),
         \A i \in Id : Counted(r, i) <=> Counted(reg[h], i),
         queues' \subseteq Queue, UNCHANGED <<tasks, cut, strays, wins>>
  PROVE  Inv'
<1>1. RegInv' /\ \A i \in Id : Calling(i)' = Calling(i)
  BY SetKeeps DEF Inv
<1>2. TableInv'
  BY DEF Inv, TableInv
<1>3. ASSUME NEW i \in Id PROVE (Fresh(i) /\ Balance(i) /\ wins[i] <= 1)'
  BY <1>1 DEF Inv, Fresh, Balance
<1> QED
  BY <1>1, <1>2, <1>3 DEF Inv

LEMMA IdleOK == Idle \in Reg /\ Names(Idle) /\ \A i : ~Counted(Idle, i)
  BY DEF Idle, Reg, Names, Counted

LEMMA InitInv == Init => Inv
<1> SUFFICES ASSUME Init PROVE Inv
  OBVIOUS
<1>1. RegInv /\ TableInv
  BY IdleOK DEF Init, RegInv, TableInv
<1>2. ASSUME NEW i \in Id PROVE Fresh(i) /\ Balance(i) /\ wins[i] <= 1
  <2>1. Calling(i) = {}
    BY IdleOK, CallingSet DEF Init
  <2> QED
    BY <2>1 DEF Init, Fresh, Balance
<1> QED
  BY <1>1, <1>2 DEF Inv

\* Requests, and the steps that only read.
LEMMA ReadStep ==
  ASSUME Inv, NEW h \in Handler, Request(h) \/ GetCreatedTask(h) \/ Call(h)
  PROVE  Inv'
<1>1. reg[h] \in Reg /\ Names(reg[h])
  BY DEF Inv, RegInv
<1>2. queues \subseteq Queue
  BY DEF Inv, TableInv
<1>3. ASSUME NEW i \in Id, NEW due \in BOOLEAN, CreateTask(h, i, due) PROVE Inv'
  <2> DEFINE r == [Idle EXCEPT !.pc = "insert", !.id = i, !.due = due]
  <2>1. r \in Reg /\ Names(r) /\ \A j \in Id : Counted(r, j) <=> Counted(reg[h], j)
    BY <1>3 DEF Idle, Reg, Names, Counted, CreateTask, At
  <2>2. Goto(h, r) /\ UNCHANGED <<queues, tasks, cut, strays, wins>>
    BY <1>3 DEF CreateTask
  <2> HIDE DEF r
  <2> QED
    BY <1>2, <2>1, <2>2, LocalStep
<1>4. ASSUME NEW i \in Id, RunTask(h, i) PROVE Inv'
  <2> DEFINE r == [Idle EXCEPT !.pc = "dispatch", !.id = i]
  <2>1. r \in Reg /\ Names(r) /\ \A j \in Id : Counted(r, j) <=> Counted(reg[h], j)
    BY <1>4 DEF Idle, Reg, Names, Counted, RunTask, At
  <2>2. Goto(h, r) /\ UNCHANGED <<queues, tasks, cut, strays, wins>>
    BY <1>4 DEF RunTask
  <2> HIDE DEF r
  <2> QED
    BY <1>2, <2>1, <2>2, LocalStep
<1>5. CASE GetCreatedTask(h)
  <2> DEFINE r == [reg[h] EXCEPT !.pc = "dispatch"]
  <2>1. /\ r \in Reg /\ Names(r) /\ \A j \in Id : Counted(r, j) <=> Counted(reg[h], j)
        /\ \A j \in Id : ~Counted(reg[h], j)
    BY <1>1, <1>5 DEF Reg, Names, Counted, GetCreatedTask, At
  <2>2. /\ Goto(h, r) \/ Goto(h, Idle)
        /\ UNCHANGED <<queues, tasks, cut, strays, wins>>
    BY <1>5 DEF GetCreatedTask, Return, Step
  <2> HIDE DEF r
  <2> QED
    BY <1>2, <2>1, <2>2, IdleOK, LocalStep
<1>6. CASE Call(h)
  <2> DEFINE r == [reg[h] EXCEPT !.pc = "answer"]
  <2>1. r \in Reg /\ Names(r) /\ \A j \in Id : Counted(r, j) <=> Counted(reg[h], j)
    BY <1>1, <1>6 DEF Reg, Names, Counted, Call, At
  <2>2. Goto(h, r) /\ UNCHANGED <<queues, tasks, cut, strays, wins>>
    BY <1>6 DEF Call, Step
  <2> HIDE DEF r
  <2> QED
    BY <1>2, <2>1, <2>2, LocalStep
<1> QED
  BY <1>3, <1>4, <1>5, <1>6 DEF Request

\* A task starts with counters that balance: its name had no history left.
LEMMA InsertKeeps ==
  ASSUME Inv, NEW h \in Handler, CreateCloudTask(h)
  PROVE  Inv'
<1> DEFINE i == reg[h].id
<1> DEFINE r == [reg[h] EXCEPT !.pc = "created"]
<1>1. /\ r \in Reg /\ Names(r) /\ i \in Id
      /\ \A j \in Id : ~Counted(r, j) /\ ~Counted(reg[h], j)
  BY DEF Inv, RegInv, Reg, Names, Counted, CreateCloudTask, At
<1>2. CASE tasks[i] # None
  <2>1. /\ Goto(h, Idle) /\ UNCHANGED <<queues, tasks, cut, strays, wins>>
        /\ queues \subseteq Queue
    BY <1>2 DEF CreateCloudTask, Return, Inv, TableInv
  <2> HIDE DEF r, i
  <2> QED
    BY <1>1, <2>1, IdleOK, LocalStep
<1>3. CASE tasks[i] = None
  <2>1. /\ Goto(h, r) /\ tasks' = [tasks EXCEPT ![i] = New] /\ wins' = [wins EXCEPT ![i] = @ + 1]
        /\ UNCHANGED <<queues, cut, strays>>
    BY <1>3 DEF CreateCloudTask, Step
  <2>2. New \in Row /\ New # None /\ New.dispatches = 0 /\ New.responses = 0
    BY ConstantsAssumption DEF New, Row
  <2> HIDE DEF r, i
  <2>3. RegInv' /\ \A j \in Id : Calling(j)' = Calling(j)
    BY <1>1, <2>1, SetKeeps DEF Inv
  <2>4. cut[i] = 0 /\ strays[i] = 0 /\ wins[i] = 0 /\ Calling(i) = {}
    BY <1>1, <1>3 DEF Inv, Fresh
  <2>5. TableInv'
    BY <1>1, <2>1, <2>2 DEF Inv, TableInv
  <2>6. ASSUME NEW j \in Id PROVE (Fresh(j) /\ Balance(j) /\ wins[j] <= 1)'
    <3>1. CASE j = i
      <4>1. Cardinality(Calling(j)') = 0
        BY <2>3, <2>4, <3>1, FS_EmptySet
      <4>2. tasks'[j] = New /\ wins'[j] = 1 /\ cut'[j] = 0 /\ strays'[j] = 0
        BY <2>1, <2>4, <3>1 DEF Inv, TableInv
      <4> QED
        BY <2>2, <4>1, <4>2 DEF Fresh, Balance
    <3>2. CASE j # i
      <4>1. tasks'[j] = tasks[j] /\ wins'[j] = wins[j] /\ Calling(j)' = Calling(j)
        BY <2>1, <2>3, <3>2 DEF Inv, TableInv
      <4> QED
        BY <2>1, <4>1 DEF Inv, Fresh, Balance
    <3> QED
      BY <3>1, <3>2
  <2> QED
    BY <2>3, <2>5, <2>6 DEF Inv
<1> QED
  BY <1>2, <1>3

\* Counting a dispatch adds the handler to those that are calling.
LEMMA DispatchKeeps ==
  ASSUME Inv, NEW h \in Handler, IncrementCloudTaskDispatch(h)
  PROVE  Inv'
<1> PICK i \in Id : reg[h].id = i
  BY DEF Inv, RegInv, Names, IncrementCloudTaskDispatch, At
<1>1. /\ reg[h] \in Reg /\ reg[h].id = i /\ reg[h].pc = "dispatch"
      /\ \A j \in Id : ~Counted(reg[h], j)
  BY DEF Inv, RegInv, Names, Counted, IncrementCloudTaskDispatch, At
<1>2. CASE tasks[i] = None
  <2> DEFINE r == [reg[h] EXCEPT !.pc = "call", !.of = "deleted"]
  <2>1. r \in Reg /\ Names(r) /\ \A j \in Id : ~Counted(r, j)
    BY <1>1 DEF Reg, Names, Counted
  <2>2. /\ Goto(h, r) /\ UNCHANGED <<queues, tasks, cut, strays, wins>>
        /\ queues \subseteq Queue
    BY <1>2 DEF IncrementCloudTaskDispatch, Inv, TableInv
  <2> HIDE DEF r
  <2> QED
    BY <1>1, <2>1, <2>2, LocalStep
<1>3. CASE tasks[i] # None
  <2> DEFINE r == [reg[h] EXCEPT !.pc = "call", !.of = "stored"]
  <2> DEFINE row == [tasks[i] EXCEPT !.dispatches = @ + 1]
  <2>1. r \in Reg /\ Names(r) /\ \A j \in Id : Counted(r, j) <=> j = i
    BY <1>1 DEF Reg, Names, Counted
  <2>2. /\ Goto(h, r) /\ tasks' = [tasks EXCEPT ![i] = row]
        /\ tasks[i].dispatches < MaxRuns /\ UNCHANGED <<queues, cut, strays, wins>>
    BY <1>3 DEF IncrementCloudTaskDispatch
  <2>3. /\ tasks[i] \in Row /\ row \in Row /\ row # None
        /\ row.dispatches = tasks[i].dispatches + 1 /\ row.responses = tasks[i].responses
    BY <1>1, <1>3, <2>2, ConstantsAssumption DEF Inv, TableInv, Row
  <2>4. reg' \in [Handler -> Reg] /\ reg'[h] = r /\ \A k \in Handler : k # h => reg'[k] = reg[k]
    <3> HIDE DEF r
    <3> QED BY <2>1, <2>2 DEF Goto, Inv, RegInv
  <2> HIDE DEF r, row
  <2>5. RegInv'
    BY <2>1, <2>4 DEF Inv, RegInv, Names
  <2>6. Calling(i)' = Calling(i) \cup {h} /\ h \notin Calling(i)
    <3>1. \A k \in Handler : Counted(reg'[k], i) <=> Counted(reg[k], i) \/ k = h
      BY <1>1, <2>1, <2>4
    <3> QED
      BY <1>1, <3>1, CallingSet, CallingNext
  <2>7. ASSUME NEW j \in Id, j # i PROVE Calling(j)' = Calling(j)
    <3>1. \A k \in Handler : Counted(reg'[k], j) <=> Counted(reg[k], j)
      BY <1>1, <2>1, <2>4, <2>7
    <3> QED
      BY <3>1, CallingSet, CallingNext
  <2>8. TableInv'
    BY <1>1, <2>2, <2>3 DEF Inv, TableInv
  <2>9. ASSUME NEW j \in Id PROVE (Fresh(j) /\ Balance(j) /\ wins[j] <= 1)'
    <3>1. CASE j = i
      <4>1. Cardinality(Calling(j)') = Cardinality(Calling(j)) + 1
        <5>1. IsFiniteSet(Calling(i))
          BY CallingSet
        <5> QED
          BY <2>6, <3>1, <5>1, FS_AddElement
      <4>2. tasks'[j] = row
        BY <2>2, <3>1 DEF Inv, TableInv
      <4>3. tasks[j].dispatches + strays[j] = tasks[j].responses + cut[j] + Cardinality(Calling(j))
        BY <1>3, <3>1 DEF Inv, Balance
      <4>4. row.dispatches + strays'[j] = row.responses + cut'[j] + Cardinality(Calling(j)')
        <5>1. /\ tasks[j].dispatches \in Nat /\ tasks[j].responses \in Nat /\ cut[j] \in Nat
              /\ strays[j] \in Nat /\ Cardinality(Calling(j)) \in Nat
          BY <2>3, <3>1, CallingSet, ConstantsAssumption DEF Inv, TableInv, Row
        <5> QED
          BY <2>2, <2>3, <3>1, <4>1, <4>3, <5>1
      <4> QED
        BY <2>2, <2>3, <4>2, <4>4 DEF Inv, Fresh, Balance
    <3>2. CASE j # i
      <4>1. tasks'[j] = tasks[j] /\ Calling(j)' = Calling(j)
        BY <2>2, <2>7, <3>2 DEF Inv, TableInv
      <4> QED
        BY <2>2, <4>1 DEF Inv, Fresh, Balance
    <3> QED
      BY <3>1, <3>2
  <2> QED
    BY <2>5, <2>8, <2>9 DEF Inv
<1> QED
  BY <1>2, <1>3

\* Counting a response takes the handler out of those that are calling, or is
\* noted as a stray.
LEMMA ResponseKeeps ==
  ASSUME Inv, NEW h \in Handler, IncrementCloudTaskResponse(h)
  PROVE  Inv'
<1> PICK i \in Id : reg[h].id = i
  BY DEF Inv, RegInv, Names, IncrementCloudTaskResponse, At
<1>1. /\ reg[h].pc = "answer" /\ reg[h].id = i /\ Goto(h, Idle)
      /\ \A j \in Id : Counted(reg[h], j) <=> j = i /\ reg[h].of = "stored"
  BY DEF Counted, IncrementCloudTaskResponse, At, Return
<1>2. /\ reg' \in [Handler -> Reg] /\ reg'[h] = Idle
      /\ \A k \in Handler : k # h => reg'[k] = reg[k]
  BY <1>1, IdleOK DEF Goto, Inv, RegInv
<1>3. RegInv'
  BY <1>2, IdleOK DEF Inv, RegInv, Names
<1>4. ASSUME NEW j \in Id
      PROVE  Calling(j)' = IF j = i /\ reg[h].of = "stored" THEN Calling(j) \ {h} ELSE Calling(j)
  <2>1. \A k \in Handler : Counted(reg'[k], j) <=> Counted(reg[k], j) /\ k # h
    BY <1>2, IdleOK
  <2>2. Calling(j)' = {k \in Handler : Counted(reg[k], j) /\ k # h}
    BY <2>1, CallingNext
  <2>3. Counted(reg[h], j) <=> j = i /\ reg[h].of = "stored"
    BY <1>1
  <2> QED
    BY <2>2, <2>3, CallingSet
<1>5. CASE tasks[i] = None
  <2>1. UNCHANGED <<queues, tasks, cut, strays, wins>>
    BY <1>1, <1>5 DEF IncrementCloudTaskResponse
  <2>2. h \notin Calling(i)
    BY <1>5 DEF Inv, Fresh
  <2>3. ASSUME NEW j \in Id PROVE Calling(j)' = Calling(j)
    BY <1>4, <2>2
  <2>4. ASSUME NEW j \in Id PROVE (Fresh(j) /\ Balance(j) /\ wins[j] <= 1)'
    BY <2>1, <2>3 DEF Inv, Fresh, Balance
  <2>5. TableInv'
    BY <2>1 DEF Inv, TableInv
  <2> QED
    BY <1>3, <2>4, <2>5 DEF Inv
<1>6. CASE tasks[i] # None
  <2> DEFINE row == [tasks[i] EXCEPT !.responses = @ + 1]
  <2> DEFINE stray == IF reg[h].of = "stored" THEN strays[i] ELSE strays[i] + 1
  <2>1. /\ tasks' = [tasks EXCEPT ![i] = row] /\ strays' = [strays EXCEPT ![i] = stray]
        /\ tasks[i].responses < MaxRuns /\ UNCHANGED <<queues, cut, wins>>
    BY <1>1, <1>6 DEF IncrementCloudTaskResponse
  <2>2. /\ tasks[i] \in Row /\ row \in Row /\ row # None
        /\ row.dispatches = tasks[i].dispatches /\ row.responses = tasks[i].responses + 1
    BY <1>6, <2>1, ConstantsAssumption DEF Inv, TableInv, Row
  <2>3. /\ tasks[i].dispatches \in Nat /\ tasks[i].responses \in Nat /\ cut[i] \in Nat
        /\ strays[i] \in Nat /\ Cardinality(Calling(i)) \in Nat /\ stray \in Nat
    BY <2>2, CallingSet, ConstantsAssumption DEF Inv, TableInv, Row
  <2>4. tasks[i].dispatches + strays[i] = tasks[i].responses + cut[i] + Cardinality(Calling(i))
    BY <1>6 DEF Inv, Balance
  <2>5. tasks[i].dispatches + stray = tasks[i].responses + 1 + cut[i] + Cardinality(Calling(i)')
    <3>1. CASE reg[h].of = "stored"
      <4>1. h \in Calling(i)
        BY <1>1, <3>1, CallingSet
      <4>2. IsFiniteSet(Calling(i)) /\ Calling(i)' = Calling(i) \ {h}
        BY <1>4, <3>1, CallingSet
      <4>3. Cardinality(Calling(i)') = Cardinality(Calling(i)) - 1
        BY <4>1, <4>2, FS_RemoveElement
      <4>4. stray = strays[i]
        BY <3>1
      <4> HIDE DEF stray
      <4> QED
        BY <2>3, <2>4, <4>3, <4>4
    <3>2. CASE reg[h].of # "stored"
      <4>1. Calling(i)' = Calling(i)
        BY <1>4, <3>2
      <4> QED
        BY <2>3, <2>4, <3>2, <4>1
    <3> QED
      BY <3>1, <3>2
  <2> HIDE DEF row, stray
  <2>6. TableInv'
    BY <2>1, <2>2, <2>3 DEF Inv, TableInv
  <2>7. ASSUME NEW j \in Id PROVE (Fresh(j) /\ Balance(j) /\ wins[j] <= 1)'
    <3>1. CASE j = i
      <4>1. tasks'[j] = row /\ strays'[j] = stray
        BY <2>1, <3>1 DEF Inv, TableInv
      <4>2. wins'[j] <= 1 /\ cut'[j] = cut[j]
        BY <2>1 DEF Inv
      <4>3. row.dispatches + strays'[j] = row.responses + cut'[j] + Cardinality(Calling(j)')
        BY <2>2, <2>5, <3>1, <4>1, <4>2
      <4> QED
        BY <2>2, <4>1, <4>2, <4>3 DEF Fresh, Balance
    <3>2. CASE j # i
      <4>1. tasks'[j] = tasks[j] /\ strays'[j] = strays[j] /\ Calling(j)' = Calling(j)
        BY <1>4, <2>1, <3>2 DEF Inv, TableInv
      <4> QED
        BY <2>1, <4>1 DEF Inv, Fresh, Balance
    <3> QED
      BY <3>1, <3>2
  <2> QED
    BY <1>3, <2>6, <2>7 DEF Inv
<1> QED
  BY <1>5, <1>6

\* Deleting rows ends their history and the dispatches that count on them.
LEMMA ForgetKeeps ==
  ASSUME Inv, NEW gone \in SUBSET Id, Forget(gone), queues' \subseteq Queue
  PROVE  Inv'
<1> DEFINE Left(r) == IF r.id \in gone /\ r.of = "stored" THEN [r EXCEPT !.of = "deleted"] ELSE r
<1>1. ASSUME NEW r \in Reg, Names(r)
      PROVE  /\ Left(r) \in Reg /\ Names(Left(r))
             /\ \A j \in Id : Counted(Left(r), j) <=> Counted(r, j) /\ j \notin gone
  BY <1>1 DEF Reg, Names, Counted
<1>2. \A k \in Handler : reg'[k] = Left(reg[k])
  BY DEF Forget
<1>3. reg' = [k \in Handler |-> Left(reg[k])]
  BY DEF Forget
<1> HIDE DEF Left
<1>4. RegInv'
  BY <1>1, <1>3 DEF Inv, RegInv, Names
<1>5. ASSUME NEW j \in Id PROVE Calling(j)' = IF j \in gone THEN {} ELSE Calling(j)
  <2>1. \A k \in Handler : Counted(reg'[k], j) <=> Counted(reg[k], j) /\ j \notin gone
    BY <1>1, <1>2 DEF Inv, RegInv
  <2> QED
    BY <2>1, CallingSet, CallingNext
<1>6. TableInv'
  BY DEF Inv, TableInv, Forget
<1>7. ASSUME NEW j \in Id PROVE (Fresh(j) /\ Balance(j) /\ wins[j] <= 1)'
  <2>1. CASE j \in gone
    BY <1>5, <2>1 DEF Forget, Fresh, Balance
  <2>2. CASE j \notin gone
    BY <1>5, <2>2 DEF Forget, Inv, Fresh, Balance
  <2> QED
    BY <2>1, <2>2
<1> QED
  BY <1>4, <1>6, <1>7 DEF Inv

\* A restart moves the dispatches under way to those it cut off.
LEMMA RestartKeeps ==
  ASSUME Inv, Restart
  PROVE  Inv'
<1>1. RegInv'
  BY IdleOK DEF Restart, RegInv
<1>2. ASSUME NEW j \in Id PROVE Calling(j)' = {}
  BY IdleOK, CallingNext DEF Restart
<1>3. ASSUME NEW j \in Id
      PROVE  /\ cut'[j] = cut[j] + Cardinality(Calling(j)) /\ cut'[j] \in Nat
             /\ tasks[j] = None => cut'[j] = 0
  <2>1. cut'[j] = cut[j] + Cardinality(Calling(j)) /\ cut[j] \in Nat
    BY DEF Restart, Inv, TableInv
  <2>2. tasks[j] = None => cut[j] = 0 /\ Cardinality(Calling(j)) = 0
    BY FS_EmptySet DEF Inv, Fresh
  <2> QED
    BY <2>1, <2>2, CallingSet
<1>4. TableInv'
  <2>1. cut' = [j \in Id |-> cut'[j]]
    BY DEF Restart
  <2> QED
    BY <1>3, <2>1 DEF Restart, Inv, TableInv
<1>5. ASSUME NEW j \in Id PROVE (Fresh(j) /\ Balance(j) /\ wins[j] <= 1)'
  <2>1. Fresh(j)' /\ (wins[j] <= 1)'
    BY <1>2, <1>3 DEF Restart, Inv, Fresh
  <2>2. ASSUME tasks[j] # None
        PROVE  tasks[j].dispatches + strays[j] = tasks[j].responses + cut'[j] + Cardinality(Calling(j)')
    <3>1. tasks[j].dispatches + strays[j] = tasks[j].responses + cut[j] + Cardinality(Calling(j))
      BY <2>2 DEF Inv, Balance
    <3>2. tasks[j].responses \in Nat /\ cut[j] \in Nat
      BY <2>2, ConstantsAssumption DEF Inv, TableInv, Row
    <3>3. Cardinality(Calling(j)') = 0
      BY <1>2, FS_EmptySet
    <3> QED
      BY <1>3, <3>1, <3>2, <3>3, CallingSet
  <2> QED
    BY <2>1, <2>2 DEF Restart, Balance
<1> QED
  BY <1>1, <1>4, <1>5 DEF Inv

LEMMA NextInv == Inv /\ [Next]_vars => Inv'
<1> SUFFICES ASSUME Inv, [Next]_vars PROVE Inv'
  OBVIOUS
<1>1. ASSUME NEW h \in Handler, Request(h) \/ Advance(h) PROVE Inv'
  BY <1>1, ReadStep, InsertKeeps, DispatchKeeps, ResponseKeeps DEF Advance
<1>2. ASSUME NEW q \in Queue, CreateQueue(q) PROVE Inv'
  <2>1. RegInv' /\ TableInv'
    BY <1>2 DEF CreateQueue, Inv, RegInv, TableInv
  <2>2. ASSUME NEW j \in Id PROVE (Fresh(j) /\ Balance(j) /\ wins[j] <= 1)'
    BY <1>2 DEF CreateQueue, Inv, Fresh, Balance, Calling
  <2> QED
    BY <2>1, <2>2 DEF Inv
<1>3. ASSUME NEW q \in Queue, DeleteQueue(q) PROVE Inv'
  <2>1. Forget({i \in Id : i[1] = q}) /\ queues' \subseteq Queue
    BY <1>3 DEF DeleteQueue, Inv, TableInv
  <2> QED
    BY <2>1, ForgetKeeps
<1>4. ASSUME NEW i \in Id, DeleteTask(i) PROVE Inv'
  <2>1. Forget({i}) /\ queues' \subseteq Queue
    BY <1>4 DEF DeleteTask, Inv, TableInv
  <2> QED
    BY <2>1, ForgetKeeps
<1>5. CASE UNCHANGED vars
  <2>1. RegInv' /\ TableInv'
    BY <1>5 DEF vars, Inv, RegInv, TableInv
  <2>2. ASSUME NEW j \in Id PROVE (Fresh(j) /\ Balance(j) /\ wins[j] <= 1)'
    BY <1>5 DEF vars, Inv, Fresh, Balance, Calling
  <2> QED
    BY <2>1, <2>2 DEF Inv
<1> QED
  BY <1>1, <1>2, <1>3, <1>4, <1>5, RestartKeeps DEF Next

-----------------------------------------------------------------------------
(***************************************************************************)
(* Theorems.                                                               *)
(***************************************************************************)

\* Counters, histories and registers agree after every statement, deletion and
\* restart.
THEOREM Invariance == Spec => []Inv
  BY InitInv, NextInv, PTL DEF Spec

\* Rows, registers and histories are well formed.
THEOREM TypeCorrect == Spec => []TypeOK
<1>1. Inv => TypeOK
  BY DEF Inv, RegInv, TableInv, Reg, Names, TypeOK
<1> QED
  BY <1>1, Invariance, PTL

\* The dispatch and response counters of a task (IncrementCloudTaskDispatch,
\* IncrementCloudTaskResponse) account for every dispatch of any number of
\* handlers.
THEOREM CountersAgree == Spec => []CountsBalance
<1>1. Inv => CountsBalance
  BY DEF Inv, Balance, CountsBalance
<1> QED
  BY <1>1, Invariance, PTL

\* Of any number of clients that create one task, one is told so
\* (CreateCloudTask).
THEOREM CreatorUnique == Spec => []OneCreator
<1>1. Inv => OneCreator
  BY DEF Inv, OneCreator
<1> QED
  BY <1>1, Invariance, PTL

-----------------------------------------------------------------------------
(***************************************************************************)
(* Cloud Scheduler, for every set of handlers, jobs and goroutines.        *)
(*                                                                         *)
(* TickersFollowJobs speaks of moments at which no client is served.       *)
(* Orderly says what holds at the others while clients take turns: one     *)
(* handler is at work, a goroutine that goes on is that of an entry, and   *)
(* the one job between its row and its entry is the one being served.      *)
(***************************************************************************)
JobReg     == [pc : {"idle", "update", "stop", "replace", "delete", "get", "start"},
            op : {"replace", "stop", "delete", None}, job : Job \cup {None}, row : Jobs!Row \cup {None}]
Routine == [pc : {"ended", "waiting", "reading", "firing"}, job : Job \cup {None}, cancelled : BOOLEAN]

\* What the theorems assume of the constants.
JobConstants == None \notin Job \cup Ticker \cup Jobs!Row \cup {"replace", "stop", "delete"}

\* What a register holds is what its next step needs.
Carries(r) ==
  /\ r.pc # "idle" => r.job \in Job
  /\ r.pc = "update" => r.row # None /\ r.op \in {"replace", "stop"}
  /\ r.pc = "stop" => r.op \in {"stop", "delete"}

JobTypeInv ==
  /\ jobs \in [Job -> Jobs!Row \cup {None}]
  /\ tickers \in [Job -> Ticker \cup {None}]
  /\ run \in [Ticker -> Routine]
  /\ jobReg \in [Pair -> JobReg]
  /\ \A h \in Pair : Carries(jobReg[h])
  /\ touched \subseteq Job /\ turns \in BOOLEAN

\* Whatever requests race, an entry is of one job and cancels a goroutine of that job.
Entries ==
  /\ \A k \in Ticker : run[k].pc = "ended" => ~run[k].cancelled
  /\ \A j \in Job : tickers[j] # None =>
       /\ ~run[tickers[j]].cancelled
       /\ run[tickers[j]].pc # "ended" => run[tickers[j]].job = j
       /\ \A i \in Job : tickers[i] = tickers[j] => i = j

Goes(k, j) == run[k].pc # "ended" /\ run[k].job = j /\ ~run[k].cancelled
Quiet(j)   == \A k \in Ticker : ~Goes(k, j)

Following(j) ==
  /\ Jobs!Active(j) => tickers[j] \in Ticker /\ Goes(tickers[j], j)
  /\ ~Jobs!Active(j) => Quiet(j)

\* The row of the job and its goroutines may differ while r is at work on it.
Serves(r, j) == r.pc \notin {"idle", "update"} /\ r.job = j

Knows(r) ==
  /\ r.pc = "update" /\ r.op = "stop" => r.row.state = "PAUSED"
  /\ r.pc = "stop" /\ r.op = "stop" => ~Jobs!Active(r.job)
  /\ r.pc \in {"get", "start", "delete"} => Quiet(r.job)
  /\ r.pc = "start" => Jobs!Active(r.job)

OneAtWork == \A h, k \in Pair : ~Jobs!At(h, "idle") /\ ~Jobs!At(k, "idle") => h = k
Traced    == \A k \in Ticker, j \in Job : Goes(k, j) => tickers[j] = k
Followed  == \A j \in touched : (\A h \in Pair : ~Serves(jobReg[h], j)) => Following(j)

Orderly == OneAtWork /\ Traced /\ Followed /\ \A h \in Pair : Knows(jobReg[h])

JobInv == JobTypeInv /\ Entries /\ (turns => Orderly)

-----------------------------------------------------------------------------
LEMMA IdleFacts ==
  /\ Jobs!Idle \in JobReg /\ Jobs!Idle.pc = "idle"
  /\ Carries(Jobs!Idle) /\ Knows(Jobs!Idle) /\ Knows(Jobs!Idle)'
<1>1. Jobs!Idle \in JobReg /\ Jobs!Idle.pc = "idle"
  BY DEF Jobs!Idle, JobReg
<1> QED
  BY <1>1 DEF Carries, Knows

LEMMA EndedFacts == Jobs!Ended \in Routine /\ Jobs!Ended.pc = "ended" /\ ~Jobs!Ended.cancelled
  BY DEF Jobs!Ended, Routine

\* A handler that works on a job while clients take turns is the only one.
LEMMA OthersIdle ==
  ASSUME JobInv, turns, NEW h \in Pair, ~Jobs!At(h, "idle") \/ Jobs!Free(h)
  PROVE  \A k \in Pair : k # h => Jobs!At(k, "idle")
  BY DEF JobInv, Orderly, OneAtWork, Jobs!Free

\* A step of h that leaves the goroutines and their entries alone.
LEMMA RowStep ==
  ASSUME JobInv, NEW h \in Pair, NEW r \in JobReg, Jobs!Goto(h, r), Carries(r),
         ~Jobs!At(h, "idle") \/ Jobs!Free(h),
         UNCHANGED <<tickers, run, touched, turns>>,
         jobs' \in [Job -> Jobs!Row \cup {None}],
         turns => Knows(r)',
         ASSUME turns, NEW j \in touched, ~Serves(r, j), Serves(jobReg[h], j) \/ jobs'[j] # jobs[j]
         PROVE  Following(j)'
  PROVE  JobInv'
<1>1. \A k \in Pair : jobReg'[k] = IF k = h THEN r ELSE jobReg[k]
  BY DEF Jobs!Goto, JobInv, JobTypeInv
<1>2. JobTypeInv'
  <2>1. jobReg' \in [Pair -> JobReg]
    BY DEF Jobs!Goto, JobInv, JobTypeInv
  <2> QED
    BY <1>1, <2>1 DEF JobInv, JobTypeInv
<1>3. Entries'
  BY DEF JobInv, Entries
<1>4. ASSUME turns PROVE Orderly'
  <2>1. \A k \in Pair : k # h => Jobs!At(k, "idle") /\ Jobs!At(k, "idle")'
    BY <1>1, <1>4, OthersIdle DEF Jobs!At
  <2>2. OneAtWork'
    BY <2>1 DEF OneAtWork
  <2>3. Traced'
    BY <1>4 DEF JobInv, Orderly, Traced, Goes
  <2>4. Followed'
    <3>1. SUFFICES ASSUME NEW j \in touched, ~Serves(r, j) PROVE Following(j)'
      BY <1>1 DEF Followed, Serves
    <3>2. CASE Serves(jobReg[h], j) \/ jobs'[j] # jobs[j]
      BY <1>4, <3>1, <3>2
    <3>3. CASE ~Serves(jobReg[h], j) /\ jobs'[j] = jobs[j]
      <4>1. \A k \in Pair : ~Serves(jobReg[k], j)
        BY <2>1, <3>3 DEF Serves, Jobs!At
      <4>2. Following(j)
        BY <1>4, <4>1 DEF JobInv, Orderly, Followed
      <4> QED
        BY <3>3, <4>2 DEF Following, Jobs!Active, Quiet, Goes
    <3> QED
      BY <3>2, <3>3
  <2>5. \A k \in Pair : Knows(jobReg[k])'
    BY <1>1, <1>4, <2>1 DEF Knows, Jobs!At
  <2> QED
    BY <2>2, <2>3, <2>4, <2>5 DEF Orderly
<1> QED
  BY <1>2, <1>3, <1>4 DEF JobInv

LEMMA RequestInv ==
  ASSUME JobConstants, JobInv, NEW h \in Pair, Jobs!Request(h)
  PROVE  JobInv'
<1>1. PICK j \in Job :
        \/ \E row \in Jobs!Row : Jobs!CreateJob(h, j, row)
        \/ \E ticks \in BOOLEAN, state \in {None, "ENABLED", "PAUSED"} : Jobs!PatchJob(h, j, ticks, state)
        \/ \E state \in {"ENABLED", "PAUSED"} : Jobs!SetJobState(h, j, state)
        \/ Jobs!DeleteJob(h, j)
  BY DEF Jobs!Request
<1>2. jobs \in [Job -> Jobs!Row \cup {None}]
  BY DEF JobInv, JobTypeInv
<1>3. ASSUME Jobs!Free(h) PROVE \A i : ~Serves(jobReg[h], i)
  BY <1>3 DEF Jobs!Free, Jobs!At, Serves
<1>4. ASSUME NEW row \in Jobs!Row, Jobs!CreateJob(h, j, row) PROVE JobInv'
  <2>1. PICK r : r = [Jobs!Idle EXCEPT !.pc = "replace", !.job = j]
    OBVIOUS
  <2>2. r \in JobReg /\ r.pc = "replace" /\ r.job = j
    BY <2>1 DEF Jobs!Idle, JobReg
  <2>3. Jobs!Goto(h, r) /\ Jobs!Free(h) /\ UNCHANGED <<tickers, run, touched, turns>>
    BY <1>4, <2>1 DEF Jobs!CreateJob
  <2>4. jobs' \in [Job -> Jobs!Row \cup {None}] /\ \A i \in Job : i # j => jobs'[i] = jobs[i]
    BY <1>2, <1>4 DEF Jobs!CreateJob
  <2>5. Carries(r) /\ Knows(r)' /\ Serves(r, j)
    BY <2>2 DEF Carries, Knows, Serves
  <2>6. touched \subseteq Job
    BY DEF JobInv, JobTypeInv
  <2> QED
    BY <1>3, <2>2, <2>3, <2>4, <2>5, <2>6, RowStep
<1>5. ASSUME NEW r \in JobReg, Jobs!Goto(h, r), Jobs!Free(h), UNCHANGED <<jobs, tickers, run, touched, turns>>,
             Carries(r), Knows(r)'
      PROVE  JobInv'
  BY <1>2, <1>3, <1>5, RowStep
<1>6. ASSUME NEW ticks \in BOOLEAN, NEW state \in {None, "ENABLED", "PAUSED"}, Jobs!PatchJob(h, j, ticks, state)
      PROVE  JobInv'
  <2>1. PICK row : row = [state |-> IF state = None THEN jobs[j].state ELSE state, ticks |-> ticks]
    OBVIOUS
  <2>2. row \in Jobs!Row /\ row # None
    BY <1>2, <1>6, <2>1 DEF Jobs!PatchJob, Jobs!Row, JobConstants
  <2>3. PICK r : r = [Jobs!Idle EXCEPT !.pc = "update", !.op = "replace", !.job = j, !.row = row]
    OBVIOUS
  <2>4. r \in JobReg /\ r.pc = "update" /\ r.op = "replace" /\ r.job = j /\ r.row = row
    BY <2>2, <2>3 DEF Jobs!Idle, JobReg
  <2>5. Carries(r) /\ Knows(r)'
    BY <2>2, <2>4 DEF Carries, Knows
  <2> QED
    BY <1>5, <1>6, <2>1, <2>3, <2>4, <2>5 DEF Jobs!PatchJob
<1>7. ASSUME NEW state \in {"ENABLED", "PAUSED"}, Jobs!SetJobState(h, j, state) PROVE JobInv'
  <2>1. PICK row : row = [jobs[j] EXCEPT !.state = state]
    OBVIOUS
  <2>2. row \in Jobs!Row /\ row # None /\ row.state = state
    BY <1>2, <1>7, <2>1 DEF Jobs!SetJobState, Jobs!Row, JobConstants
  <2>3. PICK r : r = [Jobs!Idle EXCEPT !.pc = "update", !.op = IF state = "ENABLED" THEN "replace" ELSE "stop",
                                  !.job = j, !.row = row]
    OBVIOUS
  <2>4. /\ r \in JobReg /\ r.pc = "update" /\ r.job = j /\ r.row = row
        /\ r.op = IF state = "ENABLED" THEN "replace" ELSE "stop"
    BY <2>2, <2>3 DEF Jobs!Idle, JobReg
  <2>5. Carries(r) /\ Knows(r)'
    BY <2>2, <2>4 DEF Carries, Knows
  <2> QED
    BY <1>5, <1>7, <2>1, <2>3, <2>4, <2>5 DEF Jobs!SetJobState
<1>8. CASE Jobs!DeleteJob(h, j)
  <2>1. PICK r : r = [Jobs!Idle EXCEPT !.pc = "stop", !.op = "delete", !.job = j]
    OBVIOUS
  <2>2. r \in JobReg /\ r.pc = "stop" /\ r.op = "delete" /\ r.job = j
    BY <2>1 DEF Jobs!Idle, JobReg
  <2>3. Carries(r) /\ Knows(r)'
    BY <2>2 DEF Carries, Knows
  <2> QED
    BY <1>5, <1>8, <2>1, <2>2, <2>3 DEF Jobs!DeleteJob
<1> QED
  BY <1>1, <1>4, <1>6, <1>7, <1>8

LEMMA WriteInv ==
  ASSUME JobConstants, JobInv, NEW h \in Pair, Jobs!UpdateSchedulerJob(h) \/ Jobs!DeleteSchedulerJob(h)
  PROVE  JobInv'
<1>1. PICK q, j : q = jobReg[h] /\ j = q.job
  OBVIOUS
<1>2. jobs \in [Job -> Jobs!Row \cup {None}] /\ q \in JobReg /\ Carries(q)
  BY <1>1 DEF JobInv, JobTypeInv
<1>3. turns => Knows(q)
  BY <1>1 DEF JobInv, Orderly
<1>4. CASE Jobs!UpdateSchedulerJob(h)
  <2>1. /\ q.pc = "update" /\ j \in Job /\ q.row \in Jobs!Row
        /\ q.op \in {"replace", "stop"}
    BY <1>1, <1>2, <1>4 DEF Jobs!UpdateSchedulerJob, Jobs!At, Carries, JobReg
  <2>2. PICK r : r = [q EXCEPT !.pc = q.op]
    OBVIOUS
  <2>3. r \in JobReg /\ r.pc = q.op /\ r.op = q.op /\ r.job = j
    BY <1>1, <1>2, <2>1, <2>2 DEF JobReg
  <2>4. Jobs!Goto(h, r) /\ ~Jobs!At(h, "idle") /\ UNCHANGED <<tickers, run, touched, turns>>
    BY <1>1, <1>4, <2>2 DEF Jobs!UpdateSchedulerJob, Jobs!At
  <2>5. /\ jobs' \in [Job -> Jobs!Row \cup {None}]
        /\ jobs'[j] = IF jobs[j] = None THEN None ELSE q.row
        /\ \A i \in Job : i # j => jobs'[i] = jobs[i]
    BY <1>1, <1>2, <1>4, <2>1 DEF Jobs!UpdateSchedulerJob
  <2>6. Carries(r) /\ Serves(r, j) /\ ~Serves(q, j)
    BY <2>1, <2>3 DEF Carries, Serves
  <2>7. turns => Knows(r)'
    BY <1>3, <2>1, <2>3, <2>5 DEF Knows, Jobs!Active
  <2>8. touched \subseteq Job /\ \A i : ~Serves(q, i)
    BY <2>1 DEF JobInv, JobTypeInv, Serves
  <2> QED
    BY <1>1, <2>3, <2>4, <2>5, <2>6, <2>7, <2>8, RowStep
<1>5. CASE Jobs!DeleteSchedulerJob(h)
  <2>1. /\ q.pc = "delete" /\ j \in Job /\ Jobs!Goto(h, Jobs!Idle)
        /\ UNCHANGED <<tickers, run, touched, turns>> /\ ~Jobs!At(h, "idle")
    BY <1>1, <1>2, <1>5 DEF Jobs!DeleteSchedulerJob, Jobs!At, Carries, Jobs!Return
  <2>2. /\ jobs' \in [Job -> Jobs!Row \cup {None}] /\ jobs'[j] = None
        /\ \A i \in Job : i # j => jobs'[i] = jobs[i]
    BY <1>1, <1>2, <1>5, <2>1 DEF Jobs!DeleteSchedulerJob
  <2>3. touched \subseteq Job /\ \A i : Serves(q, i) => i = j
    BY <1>1 DEF JobInv, JobTypeInv, Serves
  <2>4. turns => Following(j)'
    BY <1>1, <1>3, <2>1, <2>2 DEF Knows, Following, Jobs!Active, Quiet, Goes
  <2> QED
    BY <1>1, <2>1, <2>2, <2>3, <2>4, IdleFacts, RowStep
<1> QED
  BY <1>4, <1>5

LEMMA ReadForTickerInv ==
  ASSUME JobConstants, JobInv, NEW h \in Pair, Jobs!ReadForTicker(h)
  PROVE  JobInv'
<1>1. PICK q, j : q = jobReg[h] /\ j = q.job
  OBVIOUS
<1>2. /\ q \in JobReg /\ Carries(q) /\ (turns => Knows(q)) /\ q.pc = "get"
      /\ jobs \in [Job -> Jobs!Row \cup {None}]
  BY <1>1 DEF JobInv, JobTypeInv, Orderly, Jobs!ReadForTicker, Jobs!At
<1>3. PICK r : r = IF Jobs!Active(j) THEN [q EXCEPT !.pc = "start"] ELSE Jobs!Idle
  OBVIOUS
<1>4. Jobs!Goto(h, r) /\ ~Jobs!At(h, "idle") /\ UNCHANGED <<jobs, tickers, run, touched, turns>>
  BY <1>1, <1>2, <1>3 DEF Jobs!ReadForTicker, Jobs!Return, Jobs!At
<1>5. r \in JobReg /\ (Jobs!Active(j) => r.pc = "start" /\ r.job = j) /\ (~Jobs!Active(j) => r.pc = "idle")
  BY <1>1, <1>2, <1>3, IdleFacts DEF JobReg
<1>6. Carries(r)
  BY <1>1, <1>2, <1>5, IdleFacts DEF Carries
<1>7. turns => Quiet(j)
  BY <1>1, <1>2 DEF Knows
<1>8. turns => Knows(r)'
  BY <1>4, <1>5, <1>7 DEF Knows, Quiet, Goes, Jobs!Active
<1>9. ASSUME turns, NEW i \in touched, ~Serves(r, i), Serves(q, i) PROVE Following(i)'
  <2>1. i = j
    BY <1>1, <1>9 DEF Serves
  <2>2. ~Jobs!Active(j)
    BY <1>5, <1>9, <2>1 DEF Serves
  <2> QED
    BY <1>4, <1>7, <1>9, <2>1, <2>2 DEF Following, Jobs!Active, Quiet, Goes
<1> QED
  BY <1>1, <1>2, <1>4, <1>5, <1>6, <1>8, <1>9, RowStep

\* The goroutine of the entry is cancelled and no other one of the job goes on.
LEMMA StopTickerInv ==
  ASSUME JobConstants, JobInv, NEW h \in Pair, Jobs!StopTicker(h)
  PROVE  JobInv'
<1>1. PICK q, j : q = jobReg[h] /\ j = q.job
  OBVIOUS
<1>2. /\ q \in JobReg /\ Carries(q) /\ (turns => Knows(q)) /\ q.pc \in {"stop", "replace"} /\ j \in Job
      /\ tickers \in [Job -> Ticker \cup {None}] /\ run \in [Ticker -> Routine]
      /\ jobReg \in [Pair -> JobReg]
  BY <1>1 DEF JobInv, JobTypeInv, Orderly, Jobs!StopTicker, Carries
<1>3. PICK r : r = IF q.pc = "replace" THEN [q EXCEPT !.pc = "get"]
                   ELSE IF q.op = "delete" THEN [q EXCEPT !.pc = "delete"] ELSE Jobs!Idle
  OBVIOUS
<1>4. Jobs!Goto(h, r) /\ ~Jobs!At(h, "idle") /\ jobs' = jobs /\ turns' = turns /\ touched' = touched \cup {j}
  BY <1>1, <1>2, <1>3 DEF Jobs!StopTicker, Jobs!Return, Jobs!At
<1>5. /\ r \in JobReg
      /\ q.pc = "replace" => r.pc = "get" /\ r.job = j
      /\ q.pc = "stop" /\ q.op = "delete" => r.pc = "delete" /\ r.job = j
      /\ q.pc = "stop" /\ q.op # "delete" => r.pc = "idle"
  BY <1>1, <1>2, <1>3, IdleFacts DEF JobReg
<1>6. Carries(r)
  BY <1>2, <1>5 DEF Carries
<1>7. /\ tickers' = [tickers EXCEPT ![j] = None]
      /\ tickers' \in [Job -> Ticker \cup {None}] /\ tickers'[j] = None
      /\ \A i \in Job : i # j => tickers'[i] = tickers[i]
  BY <1>1, <1>2 DEF Jobs!StopTicker
<1>8. run' = Jobs!Cancelled(j)
  BY <1>1 DEF Jobs!StopTicker
<1>9. \A k \in Ticker : /\ run'[k] \in Routine /\ run'[k].pc = run[k].pc /\ run'[k].job = run[k].job
                        /\ run'[k].cancelled = IF k = tickers[j] THEN run[k].pc # "ended" ELSE run[k].cancelled
  <2>1. SUFFICES ASSUME NEW k \in Ticker
                 PROVE  /\ run'[k] \in Routine /\ run'[k].pc = run[k].pc /\ run'[k].job = run[k].job
                        /\ run'[k].cancelled = IF k = tickers[j] THEN run[k].pc # "ended" ELSE run[k].cancelled
    OBVIOUS
  <2>2. PICK old, new : old = run[k] /\ new = [old EXCEPT !.cancelled = old.pc # "ended"]
    OBVIOUS
  <2>3. old \in Routine /\ run'[k] = IF k = tickers[j] THEN new ELSE old
    BY <1>2, <1>8, <2>2 DEF Jobs!Cancelled
  <2>4. new \in Routine /\ new.pc = old.pc /\ new.job = old.job /\ new.cancelled = (old.pc # "ended")
    BY <2>2, <2>3 DEF Routine
  <2> QED
    BY <2>2, <2>3, <2>4
<1>10. \A k \in Pair : jobReg'[k] = IF k = h THEN r ELSE jobReg[k]
  BY <1>2, <1>4 DEF Jobs!Goto
<1>11. JobTypeInv'
  <2>1. jobReg' \in [Pair -> JobReg]
    BY <1>2, <1>4, <1>5 DEF Jobs!Goto
  <2>2. run' \in [Ticker -> Routine]
    BY <1>8, <1>9 DEF Jobs!Cancelled
  <2> QED
    BY <1>2, <1>4, <1>6, <1>7, <1>10, <2>1, <2>2 DEF JobInv, JobTypeInv
<1>12. Entries'
  <2>1. \A k \in Ticker : run'[k].pc = "ended" => ~run'[k].cancelled
    BY <1>9 DEF JobInv, Entries
  <2>2. ASSUME NEW i \in Job, tickers'[i] # None
        PROVE  /\ ~run'[tickers'[i]].cancelled
               /\ run'[tickers'[i]].pc # "ended" => run'[tickers'[i]].job = i
               /\ \A l \in Job : tickers'[l] = tickers'[i] => l = i
    <3>1. i # j /\ tickers'[i] = tickers[i] /\ tickers[i] \in Ticker /\ tickers[i] # None
      BY <1>2, <1>7, <2>2
    <3>2. tickers[i] # tickers[j]
      BY <1>2, <3>1 DEF JobInv, Entries
    <3> QED
      BY <1>7, <1>9, <3>1, <3>2 DEF JobInv, Entries
  <2> QED
    BY <2>1, <2>2 DEF Entries
<1>13. ASSUME turns PROVE Orderly'
  <2>1. \A k \in Pair : k # h => Jobs!At(k, "idle") /\ Jobs!At(k, "idle")'
    BY <1>4, <1>10, <1>13, OthersIdle DEF Jobs!At
  <2>2. OneAtWork'
    BY <2>1 DEF OneAtWork
  <2>3. \A k \in Ticker, i \in Job : Goes(k, i)' <=> Goes(k, i) /\ k # tickers[j]
    BY <1>9 DEF Goes
  <2>4. Traced /\ Followed
    BY <1>13 DEF JobInv, Orderly
  <2>5. Traced'
    BY <1>7, <2>3, <2>4 DEF Traced
  <2>6. Quiet(j)'
    BY <1>2, <2>3, <2>4 DEF Quiet, Traced
  <2>7. Followed'
    <3>1. SUFFICES ASSUME NEW i \in touched', \A k \in Pair : ~Serves(jobReg'[k], i) PROVE Following(i)'
      BY DEF Followed, Serves
    <3>2. i \in Job /\ ~Serves(r, i)
      BY <1>10, <1>11, <3>1 DEF JobTypeInv
    <3>3. CASE i = j
      <4>1. q.pc = "stop" /\ q.op = "stop"
        BY <1>2, <1>5, <3>2, <3>3 DEF Serves, Carries
      <4>2. ~Jobs!Active(j)
        BY <1>1, <1>2, <1>13, <4>1 DEF Knows
      <4> QED
        BY <1>4, <2>6, <3>3, <4>2 DEF Following, Jobs!Active
    <3>4. CASE i # j
      <4>1. i \in touched /\ \A k \in Pair : ~Serves(jobReg[k], i)
        BY <1>1, <1>4, <2>1, <3>1, <3>4 DEF Serves, Jobs!At
      <4>2. Following(i) /\ tickers'[i] = tickers[i]
        BY <1>7, <2>4, <3>2, <3>4, <4>1 DEF Followed
      <4>3. CASE Jobs!Active(i)
        <5>1. tickers[i] \in Ticker /\ Goes(tickers[i], i) /\ tickers[i] # None
          BY <4>2, <4>3 DEF Following, JobConstants
        <5>2. tickers[i] # tickers[j]
          BY <1>2, <3>2, <3>4, <5>1 DEF JobInv, Entries
        <5>3. Jobs!Active(i)'
          BY <1>4, <4>3 DEF Jobs!Active
        <5>4. Goes(tickers[i], i)'
          BY <1>9, <4>2, <5>1, <5>2 DEF Goes
        <5> QED
          BY <4>2, <5>1, <5>3, <5>4 DEF Following, Goes
      <4>4. CASE ~Jobs!Active(i)
        BY <1>4, <2>3, <3>2, <4>2, <4>4 DEF Following, Jobs!Active, Quiet
      <4> QED
        BY <4>3, <4>4
    <3> QED
      BY <3>3, <3>4
  <2>8. Knows(r)'
    BY <1>2, <1>5, <2>6 DEF Knows, Carries
  <2>9. \A k \in Pair : Knows(jobReg[k])'
    BY <1>10, <2>1, <2>8 DEF Knows, Jobs!At
  <2> QED
    BY <2>2, <2>5, <2>7, <2>9 DEF Orderly
<1> QED
  BY <1>4, <1>11, <1>12, <1>13 DEF JobInv

\* The goroutine that is started is of no entry, and none of the job goes on.
LEMMA StartTickerInv ==
  ASSUME JobConstants, JobInv, NEW h \in Pair, Jobs!StartTicker(h)
  PROVE  JobInv'
<1>1. PICK j : j = jobReg[h].job
  OBVIOUS
<1>2. /\ Carries(jobReg[h]) /\ (turns => Knows(jobReg[h])) /\ jobReg[h].pc = "start" /\ j \in Job
      /\ tickers \in [Job -> Ticker \cup {None}] /\ run \in [Ticker -> Routine]
      /\ jobReg \in [Pair -> JobReg]
  BY <1>1 DEF JobInv, JobTypeInv, Orderly, Jobs!StartTicker, Carries, Jobs!At
<1>3. PICK n \in Ticker :
        /\ run[n].pc = "ended" /\ \A i \in Job : tickers[i] # n
        /\ run' = [run EXCEPT ![n] = [pc |-> "waiting", job |-> j, cancelled |-> FALSE]]
        /\ tickers' = [tickers EXCEPT ![j] = n]
  BY <1>1 DEF Jobs!StartTicker
<1>4. Jobs!Goto(h, Jobs!Idle) /\ ~Jobs!At(h, "idle") /\ UNCHANGED <<jobs, touched, turns>>
  BY <1>2 DEF Jobs!StartTicker, Jobs!Return, Jobs!At
<1>5. PICK new : new = [pc |-> "waiting", job |-> j, cancelled |-> FALSE]
  OBVIOUS
<1>6. new \in Routine /\ new.pc = "waiting" /\ new.job = j /\ ~new.cancelled
  BY <1>2, <1>5 DEF Routine
<1>7. /\ run' \in [Ticker -> Routine] /\ \A k \in Ticker : run'[k] = IF k = n THEN new ELSE run[k]
      /\ tickers' \in [Job -> Ticker \cup {None}]
      /\ \A i \in Job : tickers'[i] = IF i = j THEN n ELSE tickers[i]
  BY <1>2, <1>3, <1>5, <1>6
<1>8. \A k \in Pair : jobReg'[k] = IF k = h THEN Jobs!Idle ELSE jobReg[k]
  BY <1>2, <1>4 DEF Jobs!Goto
<1>9. JobTypeInv'
  <2>1. jobReg' \in [Pair -> JobReg]
    BY <1>2, <1>4, IdleFacts DEF Jobs!Goto
  <2> QED
    BY <1>4, <1>7, <1>8, <2>1, IdleFacts DEF JobInv, JobTypeInv
<1>10. Entries'
  <2>1. \A k \in Ticker : run'[k].pc = "ended" => ~run'[k].cancelled
    BY <1>6, <1>7 DEF JobInv, Entries
  <2>2. ASSUME NEW i \in Job, tickers'[i] # None
        PROVE  /\ ~run'[tickers'[i]].cancelled
               /\ run'[tickers'[i]].pc # "ended" => run'[tickers'[i]].job = i
               /\ \A l \in Job : tickers'[l] = tickers'[i] => l = i
    <3>1. CASE i = j
      BY <1>3, <1>6, <1>7, <3>1
    <3>2. CASE i # j
      <4>1. tickers'[i] = tickers[i] /\ tickers[i] # n /\ tickers[i] \in Ticker /\ tickers[i] # None
        BY <1>2, <1>3, <1>7, <2>2, <3>2
      <4> QED
        BY <1>7, <4>1 DEF JobInv, Entries
    <3> QED
      BY <3>1, <3>2
  <2> QED
    BY <2>1, <2>2 DEF Entries
<1>11. ASSUME turns PROVE Orderly'
  <2>1. \A k \in Pair : Jobs!At(k, "idle")' /\ (k # h => Jobs!At(k, "idle"))
    BY <1>4, <1>8, <1>11, OthersIdle, IdleFacts DEF Jobs!At
  <2>2. OneAtWork'
    BY <2>1 DEF OneAtWork
  <2>3. Traced /\ Followed /\ Quiet(j) /\ Jobs!Active(j)
    BY <1>1, <1>2, <1>11 DEF JobInv, Orderly, Knows
  <2>4. \A k \in Ticker, i \in Job : Goes(k, i)' <=> IF k = n THEN i = j ELSE Goes(k, i)
    BY <1>6, <1>7 DEF Goes
  <2>5. Traced'
    BY <1>7, <2>3, <2>4 DEF Traced, Quiet
  <2>6. Followed'
    <3>1. SUFFICES ASSUME NEW i \in touched PROVE Following(i)'
      BY <1>4 DEF Followed
    <3>2. i \in Job
      BY DEF JobInv, JobTypeInv
    <3>3. CASE i = j
      <4>1. Jobs!Active(j)' /\ tickers'[j] = n /\ Goes(n, j)'
        BY <1>2, <1>4, <1>7, <2>3, <2>4 DEF Jobs!Active
      <4> QED
        BY <1>3, <3>3, <4>1 DEF Following, Goes
    <3>4. CASE i # j
      <4>1. Following(i) /\ tickers'[i] = tickers[i] /\ tickers[i] # n
        BY <1>1, <1>3, <1>7, <2>1, <2>3, <3>2, <3>4 DEF Followed, Serves, Jobs!At
      <4>2. CASE Jobs!Active(i)
        <5>1. tickers[i] \in Ticker /\ Goes(tickers[i], i) /\ Jobs!Active(i)'
          BY <1>4, <4>1, <4>2 DEF Following, Jobs!Active
        <5>2. Goes(tickers[i], i)'
          BY <1>7, <4>1, <5>1 DEF Goes
        <5> QED
          BY <4>1, <5>1, <5>2 DEF Following, Goes
      <4>3. CASE ~Jobs!Active(i)
        BY <1>4, <2>4, <3>2, <3>4, <4>1, <4>3 DEF Following, Jobs!Active, Quiet
      <4> QED
        BY <4>2, <4>3
    <3> QED
      BY <3>3, <3>4
  <2>7. \A k \in Pair : Knows(jobReg[k])'
    BY <2>1 DEF Knows, Jobs!At
  <2> QED
    BY <2>2, <2>5, <2>6, <2>7 DEF Orderly
<1> QED
  BY <1>4, <1>9, <1>10, <1>11 DEF JobInv

\* A goroutine goes on for its job, or ends because it was cancelled or because the
\* job is no longer active.
LEMMA RoutineStep ==
  ASSUME JobConstants, JobInv, NEW k \in Ticker, NEW x \in Routine, run' = [run EXCEPT ![k] = x],
         UNCHANGED <<jobs, tickers, jobReg, touched, turns>>,
         \/ x.pc # "ended" /\ run[k].pc # "ended" /\ x.job = run[k].job /\ x.cancelled = run[k].cancelled
         \/ /\ x.pc = "ended" /\ ~x.cancelled
            /\ run[k].cancelled \/ ~(run[k].job \in Job /\ Jobs!Active(run[k].job))
  PROVE  JobInv'
<1>1. run \in [Ticker -> Routine] /\ tickers \in [Job -> Ticker \cup {None}]
  BY DEF JobInv, JobTypeInv
<1>2. run' \in [Ticker -> Routine] /\ \A l \in Ticker : run'[l] = IF l = k THEN x ELSE run[l]
  BY <1>1
<1>3. JobTypeInv'
  BY <1>2 DEF JobInv, JobTypeInv
<1>4. Entries'
  <2>1. \A l \in Ticker : run'[l].pc = "ended" => ~run'[l].cancelled
    BY <1>2 DEF JobInv, Entries
  <2>2. ASSUME NEW j \in Job, tickers[j] # None
        PROVE  ~run'[tickers[j]].cancelled /\ (run'[tickers[j]].pc # "ended" => run'[tickers[j]].job = j)
    BY <1>1, <1>2, <2>2 DEF JobInv, Entries
  <2> QED
    BY <2>1, <2>2 DEF JobInv, Entries
<1>5. ASSUME turns PROVE Orderly'
  <2>1. \A l \in Ticker, j \in Job : Goes(l, j)' => Goes(l, j)
    BY <1>2 DEF Goes
  <2>2. \A l \in Ticker, j \in Job : Goes(l, j) /\ Jobs!Active(j) => Goes(l, j)'
    BY <1>2 DEF Goes
  <2>3. \A j \in Job : Quiet(j) => Quiet(j)'
    BY <2>1 DEF Quiet
  <2>4. OneAtWork' /\ Traced'
    BY <1>5, <2>1 DEF JobInv, Orderly, OneAtWork, Traced, Jobs!At
  <2>5. ASSUME NEW j \in Job, Following(j) PROVE Following(j)'
    <3>1. Jobs!Active(j)' <=> Jobs!Active(j)
      BY DEF Jobs!Active
    <3>2. CASE Jobs!Active(j)
      <4>1. tickers[j] \in Ticker /\ Goes(tickers[j], j)
        BY <2>5, <3>2 DEF Following
      <4>2. Goes(tickers[j], j)'
        BY <1>2, <3>2, <4>1 DEF Goes
      <4> QED
        BY <3>1, <3>2, <4>1, <4>2 DEF Following, Goes
    <3>3. CASE ~Jobs!Active(j)
      BY <2>3, <2>5, <3>1, <3>3 DEF Following
    <3> QED
      BY <3>2, <3>3
  <2>6. Followed'
    BY <1>3, <1>5, <2>5 DEF JobInv, Orderly, Followed, JobTypeInv, Serves
  <2>7. ASSUME NEW h \in Pair PROVE Knows(jobReg[h])'
    <3>1. Knows(jobReg[h]) /\ Carries(jobReg[h])
      BY <1>5 DEF JobInv, JobTypeInv, Orderly
    <3>2. jobReg[h].pc \in {"get", "start", "delete"} => Quiet(jobReg[h].job)'
      BY <2>3, <3>1 DEF Knows, Carries
    <3> QED
      BY <3>1, <3>2 DEF Knows, Jobs!Active, Quiet, Goes
  <2> QED
    BY <2>4, <2>6, <2>7 DEF Orderly
<1> QED
  BY <1>3, <1>4, <1>5 DEF JobInv

LEMMA GoroutineInv ==
  ASSUME JobConstants, JobInv, NEW k \in Ticker, Jobs!Goroutine(k)
  PROVE  JobInv'
<1>1. PICK old : old = run[k]
  OBVIOUS
<1>2. old \in Routine /\ run \in [Ticker -> Routine]
  BY <1>1 DEF JobInv, JobTypeInv
<1>3. ASSUME NEW pc \in {"waiting", "reading", "firing"}, old.pc # "ended",
             run' = [run EXCEPT ![k].pc = pc], UNCHANGED <<jobs, tickers, jobReg, touched, turns>>
      PROVE  JobInv'
  <2>1. PICK x : x = [old EXCEPT !.pc = pc]
    OBVIOUS
  <2>2. x \in Routine /\ x.pc = pc /\ x.job = old.job /\ x.cancelled = old.cancelled
    BY <1>2, <2>1 DEF Routine
  <2>3. run' = [run EXCEPT ![k] = x]
    BY <1>1, <1>3, <2>1
  <2> QED
    BY <1>1, <1>3, <2>2, <2>3, RoutineStep
<1>4. CASE Jobs!Tick(k) \/ Jobs!Fire(k)
  BY <1>1, <1>3, <1>4 DEF Jobs!Tick, Jobs!Fire
<1>5. CASE Jobs!ReadAtTick(k)
  <2>1. PICK j : j = old.job
    OBVIOUS
  <2>2. CASE jobs[j] # None /\ jobs[j].state = "ENABLED"
    <3>1. run' = [run EXCEPT ![k].pc = "firing"]
      BY <1>1, <1>5, <2>1, <2>2 DEF Jobs!ReadAtTick
    <3> QED
      BY <1>1, <1>3, <1>5, <3>1 DEF Jobs!ReadAtTick
  <2>3. CASE ~(jobs[j] # None /\ jobs[j].state = "ENABLED")
    <3>1. run' = [run EXCEPT ![k] = Jobs!Ended] /\ UNCHANGED <<jobs, tickers, jobReg, touched, turns>>
      BY <1>1, <1>5, <2>1, <2>3 DEF Jobs!ReadAtTick
    <3>2. ~Jobs!Active(run[k].job)
      BY <1>1, <2>1, <2>3 DEF Jobs!Active
    <3> QED
      BY <3>1, <3>2, EndedFacts, RoutineStep
  <2> QED
    BY <2>2, <2>3
<1>6. CASE Jobs!Done(k)
  BY <1>6, EndedFacts, RoutineStep DEF Jobs!Done
<1> QED
  BY <1>4, <1>5, <1>6 DEF Jobs!Goroutine

-----------------------------------------------------------------------------
(***************************************************************************)
(* The invariant, and what follows from it.                                *)
(***************************************************************************)
LEMMA FreshInv ==
  ASSUME JobConstants, jobs \in [Job -> Jobs!Row \cup {None}], turns \in BOOLEAN,
         tickers = [j \in Job |-> None], run = [k \in Ticker |-> Jobs!Ended],
         jobReg = [h \in Pair |-> Jobs!Idle], touched = {}
  PROVE  JobInv
<1>1. JobTypeInv
  BY IdleFacts, EndedFacts DEF JobTypeInv
<1>2. Entries
  BY EndedFacts DEF Entries
<1>3. \A h \in Pair : jobReg[h] = Jobs!Idle
  OBVIOUS
<1>4. Orderly
  BY <1>3, IdleFacts, EndedFacts DEF Orderly, OneAtWork, Traced, Followed, Goes, Jobs!At
<1> QED
  BY <1>1, <1>2, <1>4 DEF JobInv

LEMMA RestartInv ==
  ASSUME JobConstants, JobInv, Jobs!Restart
  PROVE  JobInv'
<1>1. JobTypeInv'
  BY IdleFacts, EndedFacts DEF Jobs!Restart, JobInv, JobTypeInv
<1>2. Entries'
  BY EndedFacts DEF Jobs!Restart, Entries
<1>3. \A h \in Pair : jobReg'[h] = Jobs!Idle
  BY DEF Jobs!Restart
<1>4. Orderly'
  BY <1>3, IdleFacts, EndedFacts DEF Jobs!Restart, Orderly, OneAtWork, Traced, Followed, Knows, Goes, Jobs!At
<1> QED
  BY <1>1, <1>2, <1>4 DEF JobInv

LEMMA JobInitInv == ASSUME JobConstants PROVE Jobs!Init => JobInv
  BY FreshInv DEF Jobs!Init

LEMMA JobNextInv ==
  ASSUME JobConstants, JobInv, [Jobs!Next]_(Jobs!vars)
  PROVE  JobInv'
<1>1. ASSUME NEW h \in Pair, Jobs!Step(h) PROVE JobInv'
  BY <1>1, WriteInv, StopTickerInv, ReadForTickerInv, StartTickerInv DEF Jobs!Step
<1>2. CASE UNCHANGED Jobs!vars
  BY <1>2 DEF Jobs!vars, JobInv, JobTypeInv, Entries, Orderly, OneAtWork, Traced, Followed, Serves,
              Following, Jobs!Active, Quiet, Goes, Knows, Carries, Jobs!At
<1> QED
  BY <1>1, <1>2, RequestInv, GoroutineInv, RestartInv DEF Jobs!Next

\* Rows, entries and goroutines fit together, and while clients take turns only the
\* job being served may be between its row and its goroutine.
THEOREM JobInvariance ==
  ASSUME JobConstants
  PROVE  Jobs!Spec => []JobInv
<1>1. JobInv /\ [Jobs!Next]_(Jobs!vars) => JobInv'
  BY JobNextInv
<1> QED
  BY <1>1, JobInitInv, PTL DEF Jobs!Spec

\* Whatever requests race, what an entry of the map cancels is a goroutine that nobody
\* has cancelled yet, or one that has ended.
THEOREM JobTypeCorrect ==
  ASSUME JobConstants
  PROVE  Jobs!Spec => []Jobs!TypeOK
<1>1. JobInv => Jobs!TypeOK
  BY DEF JobInv, JobTypeInv, Entries, Carries, Routine, Jobs!TypeOK
<1> QED
  BY <1>1, JobInvariance, PTL

LEMMA InvFollows == JobInv => Jobs!TickersFollowJobs
<1>1. SUFFICES ASSUME JobInv, turns, \A h \in Pair : Jobs!At(h, "idle"), NEW j \in touched
               PROVE  Jobs!Going(j) = IF Jobs!Active(j) THEN {tickers[j]} ELSE {}
  BY DEF Jobs!TickersFollowJobs
<1>2. j \in Job /\ Traced /\ Following(j)
  BY <1>1 DEF JobInv, JobTypeInv, Orderly, Followed, Serves, Jobs!At
<1>3. Jobs!Going(j) = {k \in Ticker : Goes(k, j)}
  BY DEF Jobs!Going, Goes
<1> QED
  BY <1>2, <1>3 DEF Following, Traced, Quiet

\* Creating, patching, pausing, resuming and deleting jobs one after another leaves each
\* enabled periodic job with one goroutine, that of its entry, and every other job with
\* none.
THEOREM JobTickersFollow ==
  ASSUME JobConstants
  PROVE  Jobs!Spec => []Jobs!TickersFollowJobs
  BY InvFollows, JobInvariance, PTL

-----------------------------------------------------------------------------
(***************************************************************************)
(* Cloud Build, for every set of handlers and builds and any number of     *)
(* steps.                                                                  *)
(*                                                                         *)
(* SuccessEarned speaks of rows only.  That the SUCCESS about to be written *)
(* is earned is a matter of what its runner knows (RunnerOK): the output   *)
(* kept so far is that of the steps before its own, in order, and none has *)
(* failed.  It stays so while others act, because a build has one runner   *)
(* (Alone) and a cancellation writes neither output nor a number of steps. *)
(***************************************************************************)
Mark   == Builds!Status \cup {"unset"}
Put    == [status : Builds!Status, steps : Seq(Mark), finished : BOOLEAN]
Stored == [status : Builds!Status, steps : Seq(Mark), finished : BOOLEAN, logs : Seq(Nat)]
Work   == {"open", "next", "run", "log", "put", "write"}
BuildReg    == [pc : Work \cup {"idle", "retry", "cancel"}, b : Build \cup {None}, i : Nat,
           ok : BOOLEAN, gone : BOOLEAN, steps : Seq(Mark), put : Put \cup {None}]

\* What the theorems assume of the constants.
BuildConstants == Steps \in Nat \ {0} /\ None \notin Build \cup Stored \cup Put

BuildTypeInv ==
  /\ builds \in [Build -> Stored \cup {None}]
  /\ buildReg \in [Pair -> BuildReg]
  /\ engine \in BOOLEAN /\ failed \subseteq Build
  /\ \A b \in failed : builds[b] # None

Upto(n)   == [i \in 1..n |-> i]
Length(b) == Len(builds[b].steps)

\* The output kept of b is that of its first n steps, and none of them failed.
Through(b, n) == engine /\ b \notin failed /\ builds[b].logs = Upto(n)

\* What the runner of a build knows of it.
Holding(r) ==
  r.pc \in Work => r.b \in Build /\ builds[r.b] # None /\ builds[r.b].status # "SUCCESS"
Opening(r) ==
  r.pc = "open" => builds[r.b].logs = <<>> /\ r.b \notin failed
Looping(r) ==
  /\ r.pc \in {"next", "run", "log"} =>
       /\ engine /\ Len(r.steps) = Length(r.b) /\ r.i \in 1 .. Length(r.b) + 1
       /\ builds[r.b].logs = Upto(r.i - 1)
  /\ r.pc \in {"run", "log"} => r.i <= Length(r.b)
Unfailed(r) ==
  /\ r.pc \in {"next", "run"} => r.b \notin failed
  /\ r.pc = "log" /\ r.ok => r.b \notin failed
Writing(r) ==
  r.pc \in {"put", "write"} =>
    /\ r.put # None /\ r.put.status # "CANCELLED"
    /\ Len(r.put.steps) = Length(r.b) \/ (r.pc = "put" /\ r.put.steps = <<>>)
    /\ r.put.status = "SUCCESS" => Through(r.b, Length(r.b))
    /\ r.put.status = "WORKING" /\ engine =>
         Through(r.b, r.i) /\ Len(r.steps) = Length(r.b) /\ r.i \in 1 .. Length(r.b)
Cancelling(r) ==
  r.pc = "cancel" =>
    /\ r.b \in Build /\ builds[r.b] # None
    /\ r.put # None /\ r.put.status = "CANCELLED" /\ Len(r.put.steps) = Length(r.b)

RunnerOK(r) ==
  Holding(r) /\ Opening(r) /\ Looping(r) /\ Unfailed(r) /\ Writing(r) /\ Cancelling(r)

\* A build has one runner.
Alone ==
  \A h, k \in Pair : buildReg[h].pc \in Work /\ buildReg[k].pc \in Work /\ buildReg[h].b = buildReg[k].b => h = k

Earned ==
  \A b \in Build : builds[b] # None /\ builds[b].status = "SUCCESS" => Through(b, Length(b))

BuildInv == BuildTypeInv /\ Alone /\ Earned /\ \A h \in Pair : RunnerOK(buildReg[h])

-----------------------------------------------------------------------------
LEMMA MarkedSeq ==
  ASSUME NEW s \in Seq(Mark), NEW x \in Mark
  PROVE  Builds!AllMarked(s, x) \in Seq(Mark) /\ Len(Builds!AllMarked(s, x)) = Len(s)
<1>1. PICK n \in Nat : n = Len(s) /\ DOMAIN s = 1 .. n
  BY LenProperties
<1>2. Builds!AllMarked(s, x) = [i \in 1 .. n |-> x]
  BY <1>1 DEF Builds!AllMarked
<1>3. [i \in 1 .. n |-> x] \in Seq(Mark) /\ Len([i \in 1 .. n |-> x]) = n
  OBVIOUS
<1> QED
  BY <1>1, <1>2, <1>3

LEMMA UptoSeq ==
  ASSUME NEW n \in Nat
  PROVE  /\ Upto(n) \in Seq(Nat) /\ Len(Upto(n)) = n /\ DOMAIN Upto(n) = 1 .. n
         /\ Upto(0) = <<>>
         /\ Append(Upto(n), n + 1) = Upto(n + 1)
<1>1. \A m \in Nat : Upto(m) \in Seq(Nat) /\ Len(Upto(m)) = m /\ \A i \in 1 .. m : Upto(m)[i] = i
  BY DEF Upto
<1>2. DOMAIN Upto(n) = 1 .. n
  BY DEF Upto
<1>3. Upto(0) = <<>>
  BY <1>1, EmptySeq
<1>4. Append(Upto(n), n + 1) = Upto(n + 1)
  <2>1. PICK s, t : s = Append(Upto(n), n + 1) /\ t = Upto(n + 1)
    OBVIOUS
  <2>2. /\ s \in Seq(Nat) /\ Len(s) = n + 1 /\ s[n + 1] = n + 1
        /\ \A i \in 1 .. n : s[i] = i
    <3>1. Upto(n) \in Seq(Nat) /\ Len(Upto(n)) = n /\ n + 1 \in Nat
      BY <1>1
    <3>2. /\ s \in Seq(Nat) /\ Len(s) = Len(Upto(n)) + 1 /\ s[Len(Upto(n)) + 1] = n + 1
          /\ \A i \in 1 .. Len(Upto(n)) : s[i] = Upto(n)[i]
      BY <2>1, <3>1, AppendProperties
    <3> QED
      BY <1>1, <3>1, <3>2
  <2>3. t \in Seq(Nat) /\ Len(t) = n + 1 /\ \A i \in 1 .. n + 1 : t[i] = i
    BY <1>1, <2>1
  <2>4. \A i \in 1 .. Len(s) : s[i] = t[i]
    BY <2>2, <2>3
  <2> QED
    BY <2>1, <2>2, <2>3, <2>4, SeqEqual
<1> QED
  BY <1>1, <1>2, <1>3, <1>4

\* A step of h that leaves what the other runners know of their builds as it is.
LEMMA HandlerStep ==
  ASSUME BuildConstants, BuildInv, NEW h \in Pair, NEW r \in BuildReg, Builds!Goto(h, r),
         builds' \in [Build -> Stored \cup {None}], engine' = engine,
         failed' \subseteq Build, \A b \in failed' : builds'[b] # None,
         RunnerOK(r)', Earned',
         r.pc \in Work => \A k \in Pair : k # h /\ buildReg[k].pc \in Work => buildReg[k].b # r.b,
         \A b \in Build : builds[b] # None => builds'[b] # None /\ Length(b)' = Length(b),
         \A k \in Pair : k # h /\ buildReg[k].pc \in Work =>
           /\ builds'[buildReg[k].b].logs = builds[buildReg[k].b].logs
           /\ builds'[buildReg[k].b].status = "SUCCESS" => builds[buildReg[k].b].status = "SUCCESS"
           /\ buildReg[k].b \in failed' => buildReg[k].b \in failed
  PROVE  BuildInv'
<1>1. buildReg \in [Pair -> BuildReg]
  BY DEF BuildInv, BuildTypeInv
<1>2. buildReg' \in [Pair -> BuildReg] /\ \A k \in Pair : buildReg'[k] = IF k = h THEN r ELSE buildReg[k]
  BY <1>1 DEF Builds!Goto
<1>3. BuildTypeInv'
  BY <1>2 DEF BuildInv, BuildTypeInv
<1>4. Alone'
  BY <1>2 DEF BuildInv, Alone
<1>5. ASSUME NEW k \in Pair PROVE RunnerOK(buildReg[k])'
  <2>1. CASE k = h
    BY <1>2, <2>1
  <2>2. CASE k # h
    <3>1. PICK q : q = buildReg[k]
      OBVIOUS
    <3>2. RunnerOK(q) /\ buildReg'[k] = q
      BY <1>2, <2>2, <3>1 DEF BuildInv
    <3>3. q.pc \in Work \/ q.pc = "cancel" => q.b \in Build /\ builds[q.b] # None
      BY <3>2 DEF RunnerOK, Holding, Cancelling
    <3>4. q.pc \in Work \/ q.pc = "cancel" => builds'[q.b] # None /\ Length(q.b)' = Length(q.b)
      BY <3>3
    <3>5. q.pc \in Work =>
            /\ builds'[q.b].logs = builds[q.b].logs
            /\ builds'[q.b].status # "SUCCESS"
            /\ q.b \in failed' => q.b \in failed
      BY <2>2, <3>1, <3>2 DEF RunnerOK, Holding
    <3>6. q.pc \in Work => \A n : Through(q.b, n) => Through(q.b, n)'
      BY <3>5 DEF Through
    <3>7. Holding(q)' /\ Opening(q)'
      BY <3>2, <3>3, <3>4, <3>5 DEF RunnerOK, Holding, Opening, Work
    <3>8. Looping(q)'
      BY <3>2, <3>4, <3>5 DEF RunnerOK, Looping, Work
    <3>9. Unfailed(q)'
      BY <3>2, <3>5 DEF RunnerOK, Unfailed, Work
    <3>10. Writing(q)'
      BY <3>2, <3>4, <3>6 DEF RunnerOK, Writing, Work
    <3>11. Cancelling(q)'
      BY <3>2, <3>3, <3>4 DEF RunnerOK, Cancelling
    <3> QED
      BY <3>2, <3>7, <3>8, <3>9, <3>10, <3>11 DEF RunnerOK
  <2> QED
    BY <2>1, <2>2
<1> QED
  BY <1>3, <1>4, <1>5 DEF BuildInv

\* A step that writes no row.
LEMMA QuietStep ==
  ASSUME BuildConstants, BuildInv, NEW h \in Pair, NEW r \in BuildReg, Builds!Goto(h, r),
         UNCHANGED <<builds, engine, failed>>,
         RunnerOK(r), r.pc \in Work => buildReg[h].pc \in Work /\ r.b = buildReg[h].b
  PROVE  BuildInv'
<1>1. RunnerOK(r)'
  BY DEF RunnerOK, Holding, Opening, Looping, Unfailed, Writing, Cancelling, Through, Length
<1>2. Earned'
  BY DEF BuildInv, Earned, Through, Length
<1>3. \A b \in Build : builds[b] # None => builds'[b] # None /\ Length(b)' = Length(b)
  BY DEF Length
<1>4. r.pc \in Work => \A k \in Pair : k # h /\ buildReg[k].pc \in Work => buildReg[k].b # r.b
  BY DEF BuildInv, Alone
<1> QED
  BY <1>1, <1>2, <1>3, <1>4, HandlerStep DEF BuildInv, BuildTypeInv

\* A step in which the build of h fails.
LEMMA FailingStep ==
  ASSUME BuildConstants, BuildInv, NEW h \in Pair, NEW r \in BuildReg, Builds!Goto(h, r),
         UNCHANGED <<builds, engine>>, failed' = failed \cup {buildReg[h].b},
         RunnerOK(r)', buildReg[h].pc \in Work, r.b = buildReg[h].b
  PROVE  BuildInv'
<1>1. RunnerOK(buildReg[h])
  BY DEF BuildInv
<1>2. buildReg[h].b \in Build /\ builds[buildReg[h].b] # None /\ builds[buildReg[h].b].status # "SUCCESS"
  BY <1>1 DEF RunnerOK, Holding
<1>3. Earned'
  BY <1>2 DEF BuildInv, Earned, Through, Length
<1>4. \A b \in Build : builds[b] # None => builds'[b] # None /\ Length(b)' = Length(b)
  BY DEF Length
<1>5. \A k \in Pair : k # h /\ buildReg[k].pc \in Work => buildReg[k].b # buildReg[h].b
  BY DEF BuildInv, Alone
<1> QED
  BY <1>2, <1>3, <1>4, <1>5, HandlerStep DEF BuildInv, BuildTypeInv

-----------------------------------------------------------------------------
(***************************************************************************)
(* The steps of a request and of a runner.                                 *)
(***************************************************************************)
LEMMA RunnerFacts ==
  ASSUME BuildInv, NEW h \in Pair
  PROVE  /\ buildReg[h] \in BuildReg /\ RunnerOK(buildReg[h])
         /\ buildReg[h].pc \in Work \cup {"cancel"} =>
              /\ buildReg[h].b \in Build /\ builds[buildReg[h].b] # None /\ builds[buildReg[h].b] \in Stored
              /\ builds[buildReg[h].b].steps \in Seq(Mark) /\ Length(buildReg[h].b) \in Nat
<1>1. buildReg[h] \in BuildReg /\ RunnerOK(buildReg[h])
  BY DEF BuildInv, BuildTypeInv
<1>2. ASSUME buildReg[h].pc \in Work \cup {"cancel"}
      PROVE  /\ buildReg[h].b \in Build /\ builds[buildReg[h].b] # None /\ builds[buildReg[h].b] \in Stored
             /\ builds[buildReg[h].b].steps \in Seq(Mark) /\ Length(buildReg[h].b) \in Nat
  <2>1. buildReg[h].b \in Build /\ builds[buildReg[h].b] # None
    BY <1>1, <1>2 DEF RunnerOK, Holding, Cancelling
  <2>2. builds[buildReg[h].b] \in Stored
    BY <2>1 DEF BuildInv, BuildTypeInv
  <2>3. builds[buildReg[h].b].steps \in Seq(Mark)
    BY <2>2 DEF Stored
  <2> QED
    BY <2>1, <2>2, <2>3, LenProperties DEF Length
<1> QED
  BY <1>1, <1>2

LEMMA BuildIdle == Builds!Idle \in BuildReg /\ Builds!Idle.pc \notin Work /\ RunnerOK(Builds!Idle)
<1>1. <<>> \in Seq(Mark)
  OBVIOUS
<1> QED
  BY <1>1 DEF Builds!Idle, BuildReg, Work, RunnerOK, Holding, Opening, Looping, Unfailed, Writing, Cancelling

LEMMA ReturnStep ==
  ASSUME BuildConstants, BuildInv, NEW h \in Pair, Builds!Return(h), UNCHANGED <<builds, engine, failed>>
  PROVE  BuildInv'
BY BuildIdle, QuietStep DEF Builds!Return

\* A runner that goes on to write progress has failed, or is at the end of its steps.
LEMMA FailedProgress ==
  ASSUME NEW s \in Seq(Mark)
  PROVE  /\ Builds!Failed(s) \in Put /\ Builds!Failed(s).status = "FAILURE" /\ Len(Builds!Failed(s).steps) = Len(s)
<1>1. "FAILURE" \in Mark /\ "FAILURE" \in Builds!Status
  BY DEF Mark, Builds!Status, Builds!Terminal
<1>2. Builds!AllMarked(s, "FAILURE") \in Seq(Mark) /\ Len(Builds!AllMarked(s, "FAILURE")) = Len(s)
  BY <1>1, MarkedSeq
<1> QED
  BY <1>1, <1>2 DEF Builds!Failed, Builds!Progress, Put

LEMMA CreateStep ==
  ASSUME BuildConstants, BuildInv, NEW h \in Pair, NEW b \in Build, NEW steps \in Seq(Mark),
         Builds!CreateCbBuild(h, b, steps)
  PROVE  BuildInv'
<1>1. PICK row, r :
        /\ row = [status |-> "WORKING", steps |-> steps, finished |-> FALSE, logs |-> <<>>]
        /\ r = [Builds!Idle EXCEPT !.pc = "open", !.b = b]
  OBVIOUS
<1>2. /\ builds[b] = None /\ builds' = [builds EXCEPT ![b] = row] /\ Builds!Goto(h, r)
      /\ engine' = engine /\ failed' = failed
  BY <1>1 DEF Builds!CreateCbBuild
<1>3. row \in Stored /\ row # None
  <2>1. <<>> \in Seq(Nat)
    OBVIOUS
  <2>2. row \in Stored
    BY <1>1, <2>1 DEF Stored, Builds!Status
  <2> QED
    BY <2>2 DEF BuildConstants
<1>4. r \in BuildReg /\ r.pc = "open" /\ r.b = b
  BY <1>1, BuildIdle DEF BuildReg, Builds!Idle, Work
<1>5. builds \in [Build -> Stored \cup {None}] /\ b \notin failed
  BY <1>2 DEF BuildInv, BuildTypeInv
<1>6. builds' \in [Build -> Stored \cup {None}] /\ builds'[b] = row
      /\ \A c \in Build : c # b => builds'[c] = builds[c]
  BY <1>2, <1>3, <1>5
<1>7. RunnerOK(r)'
  BY <1>1, <1>2, <1>3, <1>4, <1>5, <1>6
  DEF RunnerOK, Holding, Opening, Looping, Unfailed, Writing, Cancelling
<1>8. Earned'
  <2>1. ASSUME NEW c \in Build, builds'[c] # None, builds'[c].status = "SUCCESS"
        PROVE  Through(c, Length(c))'
    <3>1. c # b
      BY <1>1, <1>6, <2>1
    <3> QED
      BY <1>2, <1>6, <2>1, <3>1 DEF BuildInv, Earned, Through, Length
  <2> QED
    BY <2>1 DEF Earned
<1>9. \A k \in Pair : buildReg[k].pc \in Work => buildReg[k].b \in Build /\ buildReg[k].b # b
  BY <1>2, RunnerFacts
<1>10. \A c \in Build : builds[c] # None => builds'[c] # None /\ Length(c)' = Length(c)
  BY <1>2, <1>6 DEF Length
<1>11. failed' \subseteq Build /\ \A c \in failed' : builds'[c] # None
  BY <1>2, <1>5, <1>6 DEF BuildInv, BuildTypeInv
<1> QED
  BY <1>2, <1>4, <1>6, <1>7, <1>8, <1>9, <1>10, <1>11, HandlerStep

LEMMA RequestSteps ==
  ASSUME BuildConstants, BuildInv, NEW h \in Pair, Builds!Request(h) \/ \E b \in Build : Builds!CreateRetry(h, b)
  PROVE  BuildInv'
<1>1. ASSUME NEW b \in Build, Builds!CreateBuild(h, b) PROVE BuildInv'
  <2>1. PICK s : s = [i \in 1 .. Steps |-> "WORKING"]
    OBVIOUS
  <2>2. s \in Seq(Mark)
    BY <2>1 DEF BuildConstants, Mark, Builds!Status
  <2> QED
    BY <1>1, <2>1, <2>2, CreateStep DEF Builds!CreateBuild
<1>2. ASSUME NEW b \in Build, Builds!RunTrigger(h, b) PROVE BuildInv'
  <2>1. <<"unset">> \in Seq(Mark)
    BY DEF Mark
  <2> QED
    BY <1>2, <2>1, CreateStep DEF Builds!RunTrigger
<1>3. ASSUME NEW b \in Build, Builds!CreateRetry(h, b) PROVE BuildInv'
  <2>1. PICK s : s = buildReg[h].steps
    OBVIOUS
  <2>2. s \in Seq(Mark)
    BY <2>1, RunnerFacts DEF BuildReg
  <2> QED
    BY <1>3, <2>1, <2>2, CreateStep DEF Builds!CreateRetry
<1>4. ASSUME NEW b \in Build, Builds!RetryBuild(h, b) PROVE BuildInv'
  <2>1. PICK s, r : s = builds[b].steps /\ r = [Builds!Idle EXCEPT !.pc = "retry", !.steps = s]
    OBVIOUS
  <2>2. builds[b] # None /\ Builds!Goto(h, r) /\ UNCHANGED <<builds, engine, failed>>
    BY <1>4, <2>1 DEF Builds!RetryBuild
  <2>3. s \in Seq(Mark)
    BY <2>1, <2>2 DEF BuildInv, BuildTypeInv, Stored
  <2>4. r \in BuildReg /\ r.pc = "retry"
    BY <2>1, <2>3, BuildIdle DEF BuildReg, Builds!Idle
  <2>5. RunnerOK(r) /\ r.pc \notin Work
    BY <2>4 DEF RunnerOK, Holding, Opening, Looping, Unfailed, Writing, Cancelling, Work
  <2> QED
    BY <2>2, <2>4, <2>5, QuietStep
<1>5. ASSUME NEW b \in Build, Builds!CancelBuild(h, b) PROVE BuildInv'
  <2>1. PICK s, p, r : /\ s = builds[b].steps
                       /\ p = Builds!Progress("CANCELLED", Builds!AllMarked(s, "CANCELLED"), TRUE)
                       /\ r = [Builds!Idle EXCEPT !.pc = "cancel", !.b = b, !.put = p]
    OBVIOUS
  <2>2. builds[b] # None /\ Builds!Goto(h, r) /\ UNCHANGED <<builds, engine, failed>>
    BY <1>5, <2>1 DEF Builds!CancelBuild
  <2>3. s \in Seq(Mark)
    BY <2>1, <2>2 DEF BuildInv, BuildTypeInv, Stored
  <2>4. p \in Put /\ p.status = "CANCELLED" /\ Len(p.steps) = Length(b) /\ p # None
    <3>1. "CANCELLED" \in Mark /\ "CANCELLED" \in Builds!Status
      BY DEF Mark, Builds!Status, Builds!Terminal
    <3>2. Builds!AllMarked(s, "CANCELLED") \in Seq(Mark) /\ Len(Builds!AllMarked(s, "CANCELLED")) = Len(s)
      BY <2>3, <3>1, MarkedSeq
    <3>3. p \in Put /\ p.status = "CANCELLED" /\ Len(p.steps) = Length(b)
      BY <2>1, <3>1, <3>2 DEF Builds!Progress, Put, Length
    <3> QED
      BY <3>3 DEF BuildConstants
  <2>5. r \in BuildReg /\ r.pc = "cancel" /\ r.b = b /\ r.put = p
    BY <2>1, <2>4, BuildIdle DEF BuildReg, Builds!Idle
  <2>6. RunnerOK(r) /\ r.pc \notin Work
    BY <2>2, <2>4, <2>5 DEF RunnerOK, Holding, Opening, Looping, Unfailed, Writing, Cancelling, Work
  <2> QED
    BY <2>2, <2>5, <2>6, QuietStep
<1> QED
  BY <1>1, <1>2, <1>3, <1>4, <1>5 DEF Builds!Request

LEMMA OpenStep ==
  ASSUME BuildConstants, BuildInv, NEW h \in Pair, NEW admitted \in BOOLEAN, Builds!OpenRun(h, admitted)
  PROVE  BuildInv'
<1>1. PICK q, s : q = buildReg[h] /\ s = builds[q.b].steps
  OBVIOUS
<1>2. /\ q \in BuildReg /\ RunnerOK(q) /\ q.pc = "open" /\ q.pc \in Work
      /\ q.b \in Build /\ builds[q.b] # None /\ s \in Seq(Mark)
      /\ Length(q.b) = Len(s) /\ Length(q.b) \in Nat
  BY <1>1, RunnerFacts DEF Builds!OpenRun, Builds!At, Work, Length
<1>3. /\ builds[q.b].status # "SUCCESS" /\ builds[q.b].logs = <<>> /\ q.b \notin failed
  BY <1>2 DEF RunnerOK, Holding, Opening
<1>4. PICK refused, going, left :
        /\ refused = [q EXCEPT !.pc = "put", !.put = Builds!Failed(s)]
        /\ going = [q EXCEPT !.pc = "next", !.i = 1, !.steps = s]
        /\ left = [q EXCEPT !.pc = "put", !.put = Builds!Progress("WORKING", <<>>, FALSE)]
  OBVIOUS
<1>5. /\ builds' = builds /\ engine' = engine
      /\ \/ Builds!Return(h) /\ failed' = failed
         \/ Builds!Goto(h, refused) /\ failed' = failed \cup {q.b}
         \/ engine /\ Builds!Goto(h, going) /\ failed' = failed
         \/ ~engine /\ Builds!Goto(h, left) /\ failed' = failed
  BY <1>1, <1>4 DEF Builds!OpenRun
<1>6. CASE Builds!Return(h) /\ failed' = failed
  BY <1>5, <1>6, ReturnStep
<1>7. CASE Builds!Goto(h, refused) /\ failed' = failed \cup {q.b}
  <2>1. /\ Builds!Failed(s) \in Put /\ Builds!Failed(s) # None /\ Builds!Failed(s).status = "FAILURE"
        /\ Len(Builds!Failed(s).steps) = Len(s)
    BY <1>2, FailedProgress DEF BuildConstants
  <2>2. refused \in BuildReg /\ refused.pc = "put" /\ refused.b = q.b /\ refused.put = Builds!Failed(s)
    BY <1>2, <1>4, <2>1 DEF BuildReg, Work
  <2>3. RunnerOK(refused)'
    BY <1>2, <1>3, <1>5, <2>1, <2>2
    DEF RunnerOK, Holding, Opening, Looping, Unfailed, Writing, Cancelling, Length
  <2> QED
    BY <1>1, <1>2, <1>5, <1>7, <2>2, <2>3, FailingStep
<1>8. CASE engine /\ Builds!Goto(h, going) /\ failed' = failed
  <2>1. going \in BuildReg /\ going.pc = "next" /\ going.b = q.b /\ going.i = 1 /\ going.steps = s
    BY <1>2, <1>4 DEF BuildReg, Work
  <2>2. Upto(going.i - 1) = <<>>
    BY <2>1, UptoSeq
  <2>3. RunnerOK(going)
    BY <1>2, <1>3, <1>8, <2>1, <2>2
    DEF RunnerOK, Holding, Opening, Looping, Unfailed, Writing, Cancelling
  <2>4. going.pc \in Work
    BY <2>1 DEF Work
  <2> QED
    BY <1>1, <1>2, <1>5, <1>8, <2>1, <2>3, <2>4, QuietStep
<1>9. CASE ~engine /\ Builds!Goto(h, left) /\ failed' = failed
  <2>1. PICK p : p = Builds!Progress("WORKING", <<>>, FALSE)
    OBVIOUS
  <2>2. p \in Put /\ p # None /\ p.status = "WORKING" /\ p.steps = <<>>
    <3>1. <<>> \in Seq(Mark)
      OBVIOUS
    <3>2. p \in Put /\ p.status = "WORKING" /\ p.steps = <<>>
      BY <2>1, <3>1 DEF Builds!Progress, Put, Builds!Status
    <3> QED
      BY <3>2 DEF BuildConstants
  <2>3. left \in BuildReg /\ left.pc = "put" /\ left.b = q.b /\ left.put = p
    BY <1>2, <1>4, <2>1, <2>2 DEF BuildReg, Work
  <2>4. RunnerOK(left)
    BY <1>2, <1>3, <1>9, <2>2, <2>3
    DEF RunnerOK, Holding, Opening, Looping, Unfailed, Writing, Cancelling
  <2>5. left.pc \in Work
    BY <2>3 DEF Work
  <2> QED
    BY <1>1, <1>2, <1>5, <1>9, <2>3, <2>4, <2>5, QuietStep
<1> QED
  BY <1>5, <1>6, <1>7, <1>8, <1>9

\* What a runner in its loop knows.
LEMMA LoopFacts ==
  ASSUME BuildInv, NEW h \in Pair, NEW q, q = buildReg[h], q.pc \in {"next", "run", "log"}
  PROVE  /\ q \in BuildReg /\ q.pc \in Work /\ q.b \in Build /\ builds[q.b] # None
         /\ builds[q.b].status # "SUCCESS" /\ builds[q.b].steps \in Seq(Mark)
         /\ Length(q.b) \in Nat /\ q.steps \in Seq(Mark) /\ Len(q.steps) = Length(q.b)
         /\ q.i \in 1 .. Length(q.b) + 1 /\ engine /\ builds[q.b].logs = Upto(q.i - 1)
         /\ q.pc \in {"run", "log"} => q.i \in 1 .. Length(q.b)
<1>1. q.pc \in Work
  BY DEF Work
<1>2. /\ q \in BuildReg /\ RunnerOK(q) /\ q.b \in Build /\ builds[q.b] # None
      /\ builds[q.b].steps \in Seq(Mark) /\ Length(q.b) \in Nat
  BY <1>1, RunnerFacts
<1>3. q.steps \in Seq(Mark)
  BY <1>2 DEF BuildReg
<1>4. Holding(q) /\ Looping(q)
  BY <1>2 DEF RunnerOK
<1> QED
  BY <1>1, <1>2, <1>3, <1>4 DEF Holding, Looping

\* A runner that gives up: it will write FAILURE.
LEMMA GivingUp ==
  ASSUME BuildConstants, BuildInv, NEW h \in Pair, NEW q, q = buildReg[h], q.pc \in {"next", "run", "log"},
         NEW r, r = [q EXCEPT !.pc = "put", !.put = Builds!Failed(q.steps)]
  PROVE  /\ r \in BuildReg /\ r.b = q.b /\ r.pc \in Work /\ RunnerOK(r)
         /\ builds' = builds => RunnerOK(r)'
<1>1. /\ q \in BuildReg /\ q.b \in Build /\ builds[q.b] # None /\ builds[q.b].status # "SUCCESS"
      /\ q.steps \in Seq(Mark) /\ Len(q.steps) = Length(q.b)
  BY LoopFacts
<1>2. PICK p : p = Builds!Failed(q.steps)
  OBVIOUS
<1>3. p \in Put /\ p # None /\ p.status = "FAILURE" /\ Len(p.steps) = Length(q.b)
  BY <1>1, <1>2, FailedProgress DEF BuildConstants
<1>4. r \in BuildReg /\ r.pc = "put" /\ r.b = q.b /\ r.put = p
  BY <1>1, <1>2, <1>3 DEF BuildReg, Work
<1>5. RunnerOK(r)
  BY <1>1, <1>3, <1>4 DEF RunnerOK, Holding, Opening, Looping, Unfailed, Writing, Cancelling
<1>6. builds' = builds => RunnerOK(r)'
  BY <1>1, <1>3, <1>4
  DEF RunnerOK, Holding, Opening, Looping, Unfailed, Writing, Cancelling, Length
<1> QED
  BY <1>4, <1>5, <1>6 DEF Work

LEMMA LoopSteps ==
  ASSUME BuildConstants, BuildInv, NEW h \in Pair, Builds!NextStep(h) \/ Builds!AllStepsDone(h)
  PROVE  BuildInv'
<1>1. PICK q : q = buildReg[h]
  OBVIOUS
<1>2. q.pc = "next" /\ UNCHANGED <<builds, engine, failed>>
  BY <1>1 DEF Builds!NextStep, Builds!AllStepsDone, Builds!At
<1>3. /\ q \in BuildReg /\ q.pc \in Work /\ q.b \in Build /\ builds[q.b] # None
      /\ builds[q.b].status # "SUCCESS" /\ builds[q.b].steps \in Seq(Mark)
      /\ Length(q.b) \in Nat /\ q.steps \in Seq(Mark) /\ Len(q.steps) = Length(q.b)
      /\ q.i \in 1 .. Length(q.b) + 1 /\ engine /\ builds[q.b].logs = Upto(q.i - 1)
  BY <1>1, <1>2, LoopFacts
<1>4. q.b \notin failed
  BY <1>1, <1>2, RunnerFacts DEF RunnerOK, Unfailed
<1>5. CASE Builds!NextStep(h)
  <2>1. PICK s, gone, r : /\ s = builds[q.b].steps
                          /\ gone = [q EXCEPT !.pc = "put", !.put = Builds!Failed(q.steps)]
                          /\ r = [q EXCEPT !.pc = "run", !.steps = s]
    OBVIOUS
  <2>2. q.i <= Length(q.b) /\ (Builds!Goto(h, gone) \/ Builds!Return(h) \/ Builds!Goto(h, r))
    BY <1>1, <1>3, <1>5, <2>1 DEF Builds!NextStep
  <2>3. CASE Builds!Goto(h, gone)
    BY <1>1, <1>2, <1>3, <2>1, <2>3, GivingUp, QuietStep
  <2>4. CASE Builds!Return(h)
    BY <1>2, <2>4, ReturnStep
  <2>5. CASE Builds!Goto(h, r)
    <3>1. /\ r \in BuildReg /\ r.pc = "run" /\ r.b = q.b /\ r.i = q.i /\ r.steps = s
      BY <1>3, <2>1 DEF BuildReg, Work
    <3>2. Len(s) = Length(q.b)
      BY <2>1 DEF Length
    <3>3. RunnerOK(r) /\ r.pc \in Work
      BY <1>3, <1>4, <2>2, <3>1, <3>2
      DEF RunnerOK, Holding, Opening, Looping, Unfailed, Writing, Cancelling, Work
    <3> QED
      BY <1>1, <1>2, <1>3, <2>5, <3>1, <3>3, QuietStep
  <2> QED
    BY <2>2, <2>3, <2>4, <2>5
<1>6. CASE Builds!AllStepsDone(h)
  <2>1. PICK p, r : /\ p = Builds!Progress("SUCCESS", Builds!AllMarked(q.steps, "SUCCESS"), TRUE)
                    /\ r = [q EXCEPT !.pc = "put", !.put = p]
    OBVIOUS
  <2>2. q.i = Length(q.b) + 1 /\ Builds!Goto(h, r)
    BY <1>1, <1>3, <1>6, <2>1 DEF Builds!AllStepsDone
  <2>3. p \in Put /\ p # None /\ p.status = "SUCCESS" /\ Len(p.steps) = Length(q.b)
    <3>1. "SUCCESS" \in Mark /\ "SUCCESS" \in Builds!Status
      BY DEF Mark, Builds!Status, Builds!Terminal
    <3>2. /\ Builds!AllMarked(q.steps, "SUCCESS") \in Seq(Mark)
          /\ Len(Builds!AllMarked(q.steps, "SUCCESS")) = Length(q.b)
      BY <1>3, <3>1, MarkedSeq
    <3>3. p \in Put /\ p.status = "SUCCESS" /\ Len(p.steps) = Length(q.b)
      BY <2>1, <3>1, <3>2 DEF Builds!Progress, Put
    <3> QED
      BY <3>3 DEF BuildConstants
  <2>4. r \in BuildReg /\ r.pc = "put" /\ r.b = q.b /\ r.put = p
    BY <1>3, <2>1, <2>3 DEF BuildReg, Work
  <2>5. Through(q.b, Length(q.b))
    <3>1. q.i - 1 = Length(q.b)
      BY <1>3, <2>2
    <3> QED
      BY <1>3, <1>4, <3>1 DEF Through
  <2>6. RunnerOK(r) /\ r.pc \in Work
    BY <1>3, <2>3, <2>4, <2>5
    DEF RunnerOK, Holding, Opening, Looping, Unfailed, Writing, Cancelling, Work
  <2> QED
    BY <1>1, <1>2, <1>3, <2>2, <2>4, <2>6, QuietStep
<1> QED
  BY <1>5, <1>6

LEMMA RunSteps ==
  ASSUME BuildConstants, BuildInv, NEW h \in Pair, Builds!StepRefused(h) \/ \E ok \in BOOLEAN : Builds!RunOneStep(h, ok)
  PROVE  BuildInv'
<1>1. PICK q : q = buildReg[h]
  OBVIOUS
<1>2. q.pc = "run" /\ UNCHANGED <<builds, engine>>
  BY <1>1 DEF Builds!StepRefused, Builds!RunOneStep, Builds!At
<1>3. /\ q \in BuildReg /\ q.pc \in Work /\ q.b \in Build /\ builds[q.b] # None
      /\ builds[q.b].status # "SUCCESS" /\ Length(q.b) \in Nat /\ Len(q.steps) = Length(q.b)
      /\ q.i \in 1 .. Length(q.b) + 1 /\ q.i \in 1 .. Length(q.b)
      /\ engine /\ builds[q.b].logs = Upto(q.i - 1)
  BY <1>1, <1>2, LoopFacts
<1>4. q.b \notin failed
  BY <1>1, <1>2, RunnerFacts DEF RunnerOK, Unfailed
<1>5. CASE Builds!StepRefused(h)
  <2>1. PICK gone : gone = [q EXCEPT !.pc = "put", !.put = Builds!Failed(q.steps)]
    OBVIOUS
  <2>2. Builds!Goto(h, gone) /\ failed' = failed \cup {q.b}
    BY <1>1, <1>5, <2>1 DEF Builds!StepRefused
  <2>3. gone \in BuildReg /\ gone.b = q.b /\ RunnerOK(gone)'
    BY <1>1, <1>2, <2>1, GivingUp
  <2> QED
    BY <1>1, <1>2, <1>3, <2>2, <2>3, FailingStep
<1>6. ASSUME NEW ok \in BOOLEAN, Builds!RunOneStep(h, ok) PROVE BuildInv'
  <2>1. PICK r : r = [q EXCEPT !.pc = "log", !.ok = ok]
    OBVIOUS
  <2>2. Builds!Goto(h, r) /\ failed' = IF ok THEN failed ELSE failed \cup {q.b}
    BY <1>1, <1>6, <2>1 DEF Builds!RunOneStep
  <2>3. r \in BuildReg /\ r.pc = "log" /\ r.b = q.b /\ r.i = q.i /\ r.steps = q.steps /\ (r.ok <=> ok)
    BY <1>3, <2>1 DEF BuildReg, Work
  <2>4. Holding(r) /\ Opening(r) /\ Looping(r) /\ Writing(r) /\ Cancelling(r)
    BY <1>3, <2>3 DEF Holding, Opening, Looping, Writing, Cancelling
  <2>5. CASE ok
    <3>1. Unfailed(r)
      BY <1>4, <2>3 DEF Unfailed
    <3> QED
      BY <1>1, <1>2, <1>3, <2>2, <2>3, <2>4, <2>5, <3>1, QuietStep DEF RunnerOK, Work
  <2>6. CASE ~ok
    <3>1. Unfailed(r)'
      BY <2>3, <2>6 DEF Unfailed
    <3>2. Holding(r)' /\ Opening(r)' /\ Looping(r)' /\ Writing(r)' /\ Cancelling(r)'
      BY <1>2, <2>3, <2>4 DEF Holding, Opening, Looping, Writing, Cancelling, Length
    <3> QED
      BY <1>1, <1>2, <1>3, <2>2, <2>3, <2>6, <3>1, <3>2, FailingStep DEF RunnerOK
  <2> QED
    BY <2>5, <2>6
<1> QED
  BY <1>5, <1>6

LEMMA LogStep ==
  ASSUME BuildConstants, BuildInv, NEW h \in Pair, Builds!AppendCbBuildLogs(h)
  PROVE  BuildInv'
<1>1. PICK q, b, i, row : q = buildReg[h] /\ b = q.b /\ i = q.i /\ row = builds[b]
  OBVIOUS
<1>2. q.pc = "log" /\ engine' = engine /\ failed' = failed
  BY <1>1 DEF Builds!AppendCbBuildLogs, Builds!At
<1>3. /\ q \in BuildReg /\ q.pc \in Work /\ b \in Build /\ row # None /\ row.status # "SUCCESS"
      /\ Length(b) \in Nat /\ q.steps \in Seq(Mark) /\ Len(q.steps) = Length(b)
      /\ i \in 1 .. Length(b) /\ engine /\ row.logs = Upto(i - 1)
  BY <1>1, <1>2, LoopFacts
<1>4. q.ok => b \notin failed
  BY <1>1, <1>2, RunnerFacts DEF RunnerOK, Unfailed
<1>5. PICK s, p, r :
        /\ s = [q.steps EXCEPT ![i] = IF q.ok THEN "SUCCESS" ELSE "FAILURE"]
        /\ p = IF q.ok THEN Builds!Progress("WORKING", s, FALSE) ELSE Builds!Failed(s)
        /\ r = [q EXCEPT !.pc = "put", !.steps = s, !.put = p]
  OBVIOUS
<1>6. builds' = [builds EXCEPT ![b].logs = Append(@, i)] /\ Builds!Goto(h, r)
  BY <1>1, <1>5 DEF Builds!AppendCbBuildLogs
<1>7. s \in Seq(Mark) /\ Len(s) = Length(b)
  <2>1. PICK m : m = IF q.ok THEN "SUCCESS" ELSE "FAILURE"
    OBVIOUS
  <2>2. m \in Mark
    BY <2>1 DEF Mark, Builds!Status, Builds!Terminal
  <2> QED
    BY <1>3, <1>5, <2>1, <2>2, ExceptSeq
<1>8. /\ p \in Put /\ p # None /\ p.status \in {"WORKING", "FAILURE"} /\ Len(p.steps) = Length(b)
      /\ p.status = "WORKING" => q.ok
  <2>1. /\ Builds!Failed(s) \in Put /\ Builds!Failed(s).status = "FAILURE" /\ Len(Builds!Failed(s).steps) = Len(s)
    BY <1>7, FailedProgress
  <2>2. PICK w : w = Builds!Progress("WORKING", s, FALSE)
    OBVIOUS
  <2>3. w \in Put /\ w.status = "WORKING" /\ w.steps = s
    BY <1>7, <2>2 DEF Builds!Progress, Put, Builds!Status
  <2>4. CASE q.ok
    BY <1>5, <1>7, <2>2, <2>3, <2>4 DEF BuildConstants
  <2>5. CASE ~q.ok
    BY <1>5, <1>7, <2>1, <2>5 DEF BuildConstants
  <2> QED
    BY <2>4, <2>5
<1>9. r \in BuildReg /\ r.pc = "put" /\ r.b = b /\ r.i = i /\ r.steps = s /\ r.put = p
  BY <1>1, <1>3, <1>5, <1>7, <1>8 DEF BuildReg, Work
<1>10. Append(row.logs, i) = Upto(i) /\ Upto(i) \in Seq(Nat)
  <2>1. i - 1 \in Nat /\ (i - 1) + 1 = i /\ i \in Nat
    BY <1>3
  <2> QED
    BY <1>3, <2>1, UptoSeq
<1>11. builds \in [Build -> Stored \cup {None}] /\ row \in Stored
  BY <1>1, <1>3 DEF BuildInv, BuildTypeInv
<1>12. PICK new : new = [row EXCEPT !.logs = Upto(i)]
  OBVIOUS
<1>13. new \in Stored /\ new # None /\ new.status = row.status /\ new.steps = row.steps /\ new.logs = Upto(i)
  <2>1. new \in Stored /\ new.status = row.status /\ new.steps = row.steps /\ new.logs = Upto(i)
    BY <1>10, <1>11, <1>12 DEF Stored
  <2> QED
    BY <2>1 DEF BuildConstants
<1>14. builds' = [builds EXCEPT ![b] = new]
  BY <1>1, <1>3, <1>6, <1>10, <1>11, <1>12
<1>15. /\ builds' \in [Build -> Stored \cup {None}] /\ builds'[b] = new
       /\ \A c \in Build : c # b => builds'[c] = builds[c]
  BY <1>3, <1>11, <1>13, <1>14
<1>16. \A c \in Build : builds[c] # None => builds'[c] # None /\ Length(c)' = Length(c)
  BY <1>1, <1>13, <1>15 DEF Length
<1>17. RunnerOK(r)'
  <2>1. p.status = "WORKING" => Through(b, i)'
    BY <1>2, <1>3, <1>4, <1>8, <1>13, <1>15 DEF Through
  <2>2. Length(b)' = Length(b)
    BY <1>1, <1>3, <1>16
  <2>3. Writing(r)'
    BY <1>3, <1>7, <1>8, <1>9, <2>1, <2>2 DEF Writing
  <2>4. Holding(r)' /\ Opening(r)' /\ Looping(r)' /\ Unfailed(r)' /\ Cancelling(r)'
    BY <1>3, <1>9, <1>13, <1>15 DEF Holding, Opening, Looping, Unfailed, Cancelling
  <2> QED
    BY <2>3, <2>4 DEF RunnerOK
<1>18. Earned'
  <2>1. ASSUME NEW c \in Build, builds'[c] # None, builds'[c].status = "SUCCESS"
        PROVE  Through(c, Length(c))'
    <3>1. c # b
      BY <1>3, <1>13, <1>15, <2>1
    <3> QED
      BY <1>2, <1>15, <2>1, <3>1 DEF BuildInv, Earned, Through, Length
  <2> QED
    BY <2>1 DEF Earned
<1>19. \A k \in Pair : k # h /\ buildReg[k].pc \in Work => buildReg[k].b \in Build /\ buildReg[k].b # b
  BY <1>1, <1>3, RunnerFacts DEF BuildInv, Alone
<1>20. failed' \subseteq Build /\ \A c \in failed' : builds'[c] # None
  BY <1>2, <1>16 DEF BuildInv, BuildTypeInv
<1> QED
  BY <1>2, <1>6, <1>9, <1>15, <1>16, <1>17, <1>18, <1>19, <1>20, HandlerStep

\* What a runner about to write progress knows.
LEMMA PutFacts ==
  ASSUME BuildInv, NEW h \in Pair, NEW q, q = buildReg[h], q.pc \in {"put", "write"}
  PROVE  /\ q \in BuildReg /\ q.pc \in Work /\ q.b \in Build /\ builds[q.b] # None
         /\ builds[q.b] \in Stored /\ builds[q.b].status # "SUCCESS"
         /\ Length(q.b) \in Nat /\ q.put \in Put /\ q.put.status # "CANCELLED"
         /\ Len(q.put.steps) = Length(q.b) \/ (q.pc = "put" /\ q.put.steps = <<>>)
         /\ q.put.status = "SUCCESS" => Through(q.b, Length(q.b))
         /\ q.put.status = "WORKING" /\ engine =>
              Through(q.b, q.i) /\ Len(q.steps) = Length(q.b) /\ q.i \in 1 .. Length(q.b)
<1>1. q.pc \in Work
  BY DEF Work
<1>2. /\ q \in BuildReg /\ RunnerOK(q) /\ q.b \in Build /\ builds[q.b] # None
      /\ builds[q.b] \in Stored /\ Length(q.b) \in Nat
  BY <1>1, RunnerFacts
<1>3. Holding(q) /\ Writing(q)
  BY <1>2 DEF RunnerOK
<1>4. q.put \in Put
  BY <1>2, <1>3 DEF Writing, BuildReg
<1> QED
  BY <1>1, <1>2, <1>3, <1>4 DEF Holding, Writing

\* After a step that was written the runner knows what it needs for the next.
LEMMA Advanced ==
  ASSUME BuildConstants, BuildInv, NEW h \in Pair, NEW q, q = buildReg[h], q.pc \in {"put", "write"},
         q.put.status = "WORKING", engine, engine' = engine, failed' = failed,
         builds'[q.b] # None, Length(q.b)' = Length(q.b),
         builds'[q.b].logs = builds[q.b].logs, builds'[q.b].status # "SUCCESS",
         NEW r, r = [q EXCEPT !.pc = "next", !.i = @ + 1, !.put = None]
  PROVE  r \in BuildReg /\ r.pc = "next" /\ r.b = q.b /\ RunnerOK(r)'
<1>1. /\ q \in BuildReg /\ q.b \in Build /\ Length(q.b) \in Nat
      /\ Through(q.b, q.i) /\ Len(q.steps) = Length(q.b) /\ q.i \in 1 .. Length(q.b)
  BY PutFacts
<1>2. /\ r \in BuildReg /\ r.pc = "next" /\ r.b = q.b /\ r.steps = q.steps /\ r.i = q.i + 1
  <2>1. PICK j \in Nat : j = q.i + 1
    BY <1>1
  <2>2. r = [q EXCEPT !.pc = "next", !.i = j, !.put = None]
    BY <2>1
  <2> QED
    BY <1>1, <2>1, <2>2 DEF BuildReg, Work
<1>3. r.i \in 1 .. Length(q.b) + 1 /\ r.i - 1 = q.i
  BY <1>1, <1>2
<1>4. Looping(r)'
  BY <1>1, <1>2, <1>3 DEF Looping, Through
<1>5. Unfailed(r)'
  BY <1>1, <1>2 DEF Unfailed, Through
<1>6. Holding(r)' /\ Opening(r)' /\ Writing(r)' /\ Cancelling(r)'
  BY <1>1, <1>2 DEF Holding, Opening, Writing, Cancelling
<1> QED
  BY <1>2, <1>4, <1>5, <1>6 DEF RunnerOK

LEMMA BuildReadStep ==
  ASSUME BuildConstants, BuildInv, NEW h \in Pair, Builds!ReadForProgress(h)
  PROVE  BuildInv'
<1>1. PICK q, row : q = buildReg[h] /\ row = builds[q.b]
  OBVIOUS
<1>2. q.pc = "put" /\ UNCHANGED <<builds, engine, failed>>
  BY <1>1 DEF Builds!ReadForProgress, Builds!At
<1>3. /\ q \in BuildReg /\ q.pc \in Work /\ q.b \in Build /\ row # None
      /\ row \in Stored /\ row.status # "SUCCESS"
      /\ Length(q.b) \in Nat /\ q.put \in Put /\ q.put.status # "CANCELLED"
      /\ Len(q.put.steps) = Length(q.b) \/ q.put.steps = <<>>
      /\ q.put.status = "SUCCESS" => Through(q.b, Length(q.b))
      /\ q.put.status = "WORKING" /\ engine =>
           Through(q.b, q.i) /\ Len(q.steps) = Length(q.b) /\ q.i \in 1 .. Length(q.b)
  BY <1>1, <1>2, PutFacts
<1>4. PICK next, p, r :
        /\ next = [q EXCEPT !.pc = "next", !.i = @ + 1, !.put = None]
        /\ p = [q.put EXCEPT !.steps = IF @ = <<>> THEN row.steps ELSE @, !.finished = @ \/ row.finished]
        /\ r = [q EXCEPT !.pc = "write", !.put = p]
  OBVIOUS
<1>5. \/ q.put.status = "WORKING" /\ engine /\ Builds!Goto(h, next)
      \/ Builds!Return(h)
      \/ Builds!Goto(h, r)
  <2>1. r = [q EXCEPT !.pc = "write", !.put.steps = IF @ = <<>> THEN row.steps ELSE @,
                      !.put.finished = @ \/ row.finished]
    BY <1>3, <1>4 DEF BuildReg, Put
  <2> QED
    BY <1>1, <1>4, <2>1 DEF Builds!ReadForProgress, Builds!AfterPut
<1>6. CASE q.put.status = "WORKING" /\ engine /\ Builds!Goto(h, next)
  <2>1. Length(q.b)' = Length(q.b) /\ builds'[q.b] = row
    BY <1>1, <1>2 DEF Length
  <2>2. next \in BuildReg /\ next.pc = "next" /\ next.b = q.b /\ RunnerOK(next)'
    BY <1>1, <1>2, <1>3, <1>4, <1>6, <2>1, Advanced
  <2>3. RunnerOK(next)
    BY <1>2, <2>2
    DEF RunnerOK, Holding, Opening, Looping, Unfailed, Writing, Cancelling, Through, Length
  <2> QED
    BY <1>1, <1>2, <1>3, <1>6, <2>2, <2>3, QuietStep
<1>7. CASE Builds!Return(h)
  BY <1>2, <1>7, ReturnStep
<1>8. CASE Builds!Goto(h, r)
  <2>1. row.steps \in Seq(Mark) /\ Len(row.steps) = Length(q.b)
    BY <1>1, <1>3 DEF Stored, Length
  <2>2. p \in Put /\ p.status = q.put.status /\ Len(p.steps) = Length(q.b)
    <3>1. PICK s, f : /\ s = IF q.put.steps = <<>> THEN row.steps ELSE q.put.steps
                      /\ f = (q.put.finished \/ row.finished)
      OBVIOUS
    <3>2. s \in Seq(Mark) /\ Len(s) = Length(q.b)
      BY <1>3, <2>1, <3>1 DEF Put
    <3>3. f \in BOOLEAN
      BY <3>1
    <3>4. p = [q.put EXCEPT !.steps = s, !.finished = f]
      BY <1>4, <3>1
    <3> QED
      BY <1>3, <3>2, <3>3, <3>4 DEF Put
  <2>3. /\ r \in BuildReg /\ r.pc = "write" /\ r.b = q.b /\ r.i = q.i /\ r.steps = q.steps /\ r.put = p
        /\ p # None
    BY <1>3, <1>4, <2>2 DEF BuildReg, Work, BuildConstants
  <2>4. Writing(r)
    BY <1>3, <2>2, <2>3 DEF Writing
  <2>5. Holding(r) /\ Opening(r) /\ Looping(r) /\ Unfailed(r) /\ Cancelling(r)
    BY <1>1, <1>3, <2>3 DEF Holding, Opening, Looping, Unfailed, Cancelling
  <2> QED
    BY <1>1, <1>2, <1>3, <1>8, <2>3, <2>4, <2>5, QuietStep DEF RunnerOK
<1> QED
  BY <1>5, <1>6, <1>7, <1>8

\* What an UPDATE leaves: the output is not a column of it.
LEMMA Updated ==
  ASSUME BuildConstants, BuildInv, NEW h \in Pair, NEW q, q = buildReg[h], q.pc \in {"write", "cancel"},
         Builds!Update(h), engine' = engine, failed' = failed
  PROVE  /\ builds' \in [Build -> Stored \cup {None}]
         /\ q.b \in Build /\ q.put \in Put
         /\ builds'[q.b] # None /\ builds'[q.b].status = q.put.status
         /\ builds'[q.b].logs = builds[q.b].logs
         /\ \A c \in Build : c # q.b => builds'[c] = builds[c]
         /\ \A c \in Build : builds[c] # None => builds'[c] # None /\ Length(c)' = Length(c)
         /\ failed' \subseteq Build /\ \A c \in failed' : builds'[c] # None
         /\ q.put.status # "SUCCESS" => Earned'
<1>1. PICK b, p, row : b = q.b /\ p = q.put /\ row = builds[b]
  OBVIOUS
<1>2. q.pc \in Work \cup {"cancel"}
  BY DEF Work
<1>3. /\ q \in BuildReg /\ RunnerOK(q) /\ b \in Build /\ row # None /\ row \in Stored
      /\ row.steps \in Seq(Mark) /\ Length(b) \in Nat
  BY <1>1, <1>2, RunnerFacts
<1>4. p # None /\ Len(p.steps) = Length(b)
  BY <1>1, <1>3 DEF RunnerOK, Writing, Cancelling
<1>5. p \in Put
  BY <1>1, <1>3, <1>4 DEF BuildReg
<1>6. PICK new : new = [row EXCEPT !.status = p.status, !.steps = p.steps, !.finished = p.finished]
  OBVIOUS
<1>7. /\ new \in Stored /\ new # None /\ new.status = p.status /\ new.steps = p.steps
      /\ new.logs = row.logs
  <2>1. new \in Stored /\ new.status = p.status /\ new.steps = p.steps /\ new.logs = row.logs
    BY <1>3, <1>5, <1>6 DEF Stored, Put
  <2> QED
    BY <2>1 DEF BuildConstants
<1>8. builds \in [Build -> Stored \cup {None}]
  BY DEF BuildInv, BuildTypeInv
<1>9. builds' = [builds EXCEPT ![b] = new]
  <2>1. builds' = [builds EXCEPT ![b].status = p.status, ![b].steps = p.steps, ![b].finished = p.finished]
    BY <1>1 DEF Builds!Update
  <2>2. \A c \in Build : builds'[c] = IF c = b THEN new ELSE builds[c]
    BY <1>1, <1>3, <1>6, <1>8, <2>1
  <2>3. builds' = [c \in Build |-> builds'[c]]
    BY <1>8, <2>1
  <2> QED
    BY <1>8, <2>2, <2>3
<1>10. /\ builds' \in [Build -> Stored \cup {None}] /\ builds'[b] = new
       /\ \A c \in Build : c # b => builds'[c] = builds[c]
  BY <1>3, <1>7, <1>8, <1>9
<1>11. Length(b)' = Length(b)
  BY <1>4, <1>7, <1>10 DEF Length
<1>12. \A c \in Build : builds[c] # None => builds'[c] # None /\ Length(c)' = Length(c)
  BY <1>7, <1>10, <1>11 DEF Length
<1>13. failed' \subseteq Build /\ \A c \in failed' : builds'[c] # None
  BY <1>12 DEF BuildInv, BuildTypeInv
<1>14. p.status # "SUCCESS" => Earned'
  <2>1. ASSUME p.status # "SUCCESS", NEW c \in Build, builds'[c] # None, builds'[c].status = "SUCCESS"
        PROVE  Through(c, Length(c))'
    <3>1. c # b
      BY <1>7, <1>10, <2>1
    <3> QED
      BY <1>10, <2>1, <3>1 DEF BuildInv, Earned, Through, Length
  <2> QED
    BY <2>1 DEF Earned
<1> QED
  BY <1>1, <1>3, <1>5, <1>7, <1>10, <1>12, <1>13, <1>14

LEMMA WriteSteps ==
  ASSUME BuildConstants, BuildInv, NEW h \in Pair, Builds!WriteProgress(h) \/ Builds!WriteCancel(h)
  PROVE  BuildInv'
<1>1. PICK q : q = buildReg[h]
  OBVIOUS
<1>2. q.pc \in {"write", "cancel"} /\ Builds!Update(h) /\ engine' = engine /\ failed' = failed
  BY <1>1 DEF Builds!WriteProgress, Builds!WriteCancel, Builds!At
<1>3. /\ builds' \in [Build -> Stored \cup {None}]
      /\ q.b \in Build /\ q.put \in Put
      /\ builds'[q.b] # None /\ builds'[q.b].status = q.put.status
      /\ builds'[q.b].logs = builds[q.b].logs
      /\ \A c \in Build : c # q.b => builds'[c] = builds[c]
      /\ \A c \in Build : builds[c] # None => builds'[c] # None /\ Length(c)' = Length(c)
      /\ failed' \subseteq Build /\ \A c \in failed' : builds'[c] # None
      /\ q.put.status # "SUCCESS" => Earned'
  BY <1>1, <1>2, Updated
<1>4. builds[q.b] # None /\ RunnerOK(q)
  BY <1>1, <1>2, RunnerFacts DEF Work
<1>5. \A k \in Pair : buildReg[k].pc \in Work => buildReg[k].b \in Build
  BY RunnerFacts
<1>6. CASE Builds!WriteCancel(h)
  <2>1. q.pc = "cancel" /\ q.put.status = "CANCELLED" /\ Builds!Goto(h, Builds!Idle)
    BY <1>1, <1>4, <1>6 DEF Builds!WriteCancel, Builds!At, Builds!Return, RunnerOK, Cancelling
  <2>2. \A k \in Pair : k # h /\ buildReg[k].pc \in Work =>
          /\ builds'[buildReg[k].b].logs = builds[buildReg[k].b].logs
          /\ builds'[buildReg[k].b].status = "SUCCESS" => builds[buildReg[k].b].status = "SUCCESS"
          /\ buildReg[k].b \in failed' => buildReg[k].b \in failed
    BY <1>2, <1>3, <1>5, <2>1
  <2>3. RunnerOK(Builds!Idle)' /\ Builds!Idle \in BuildReg /\ Builds!Idle.pc \notin Work
    <3>1. Builds!Idle.pc = "idle"
      BY DEF Builds!Idle
    <3> QED
      BY <3>1, BuildIdle DEF RunnerOK, Holding, Opening, Looping, Unfailed, Writing, Cancelling, Work
  <2> QED
    BY <1>2, <1>3, <2>1, <2>2, <2>3, HandlerStep
<1>7. CASE Builds!WriteProgress(h)
  <2>1. q.pc = "write" /\ q.pc \in Work
    BY <1>1, <1>7 DEF Builds!WriteProgress, Builds!At, Work
  <2>2. /\ q.put.status # "CANCELLED" /\ Len(q.put.steps) = Length(q.b)
        /\ q.put.status = "SUCCESS" => Through(q.b, Length(q.b))
    BY <1>1, <2>1, PutFacts
  <2>3. \A k \in Pair : k # h /\ buildReg[k].pc \in Work => buildReg[k].b # q.b
    BY <1>1, <2>1 DEF BuildInv, Alone
  <2>4. Earned'
    <3>1. SUFFICES ASSUME q.put.status = "SUCCESS" PROVE Earned'
      BY <1>3
    <3>2. ASSUME NEW c \in Build, builds'[c] # None, builds'[c].status = "SUCCESS"
          PROVE  Through(c, Length(c))'
      <4>1. CASE c = q.b
        <5>1. Length(c)' = Length(c)
          BY <1>3, <1>4, <4>1
        <5> QED
          BY <1>2, <1>3, <2>2, <3>1, <4>1, <5>1 DEF Through
      <4>2. CASE c # q.b
        BY <1>2, <1>3, <3>2, <4>2 DEF BuildInv, Earned, Through, Length
      <4> QED
        BY <4>1, <4>2
    <3> QED
      BY <3>2 DEF Earned
  <2>5. PICK next : next = [q EXCEPT !.pc = "next", !.i = @ + 1, !.put = None]
    OBVIOUS
  <2>6. Builds!Return(h) \/ (q.put.status = "WORKING" /\ engine /\ Builds!Goto(h, next))
    BY <1>1, <1>7, <2>5 DEF Builds!WriteProgress, Builds!AfterPut
  <2>7. \A k \in Pair : k # h /\ buildReg[k].pc \in Work =>
          /\ builds'[buildReg[k].b].logs = builds[buildReg[k].b].logs
          /\ builds'[buildReg[k].b].status = "SUCCESS" => builds[buildReg[k].b].status = "SUCCESS"
          /\ buildReg[k].b \in failed' => buildReg[k].b \in failed
    BY <1>2, <1>3, <1>5, <2>3
  <2>8. CASE Builds!Return(h)
    <3>1. RunnerOK(Builds!Idle)' /\ Builds!Idle \in BuildReg /\ Builds!Idle.pc \notin Work
      <4>1. Builds!Idle.pc = "idle"
        BY DEF Builds!Idle
      <4> QED
        BY <4>1, BuildIdle DEF RunnerOK, Holding, Opening, Looping, Unfailed, Writing, Cancelling, Work
    <3> QED
      BY <1>2, <1>3, <2>4, <2>7, <2>8, <3>1, HandlerStep DEF Builds!Return
  <2>9. CASE q.put.status = "WORKING" /\ engine /\ Builds!Goto(h, next)
    <3>1. Length(q.b)' = Length(q.b) /\ builds'[q.b].status # "SUCCESS"
      BY <1>3, <1>4, <2>9
    <3>2. /\ q = buildReg[h] /\ q.pc \in {"put", "write"} /\ q.put.status = "WORKING"
          /\ engine /\ engine' = engine /\ failed' = failed
          /\ builds'[q.b] # None /\ Length(q.b)' = Length(q.b)
          /\ builds'[q.b].logs = builds[q.b].logs /\ builds'[q.b].status # "SUCCESS"
          /\ next = [q EXCEPT !.pc = "next", !.i = @ + 1, !.put = None]
      <4>1. q = buildReg[h] /\ engine' = engine /\ failed' = failed
        BY <1>1, <1>2
      <4>2. builds'[q.b] # None /\ builds'[q.b].logs = builds[q.b].logs
        BY <1>3
      <4> QED
        BY <2>1, <2>5, <2>9, <3>1, <4>1, <4>2
    <3>3. next \in BuildReg /\ next.pc = "next" /\ next.b = q.b /\ RunnerOK(next)'
      BY <3>2, Advanced, ZenonT(40)
    <3> QED
      BY <1>2, <1>3, <2>3, <2>4, <2>7, <2>9, <3>3, HandlerStep
  <2> QED
    BY <2>6, <2>8, <2>9
<1> QED
  BY <1>6, <1>7

LEMMA DisconnectStep ==
  ASSUME BuildConstants, BuildInv, NEW h \in Pair, Builds!Disconnect(h)
  PROVE  BuildInv'
<1>1. PICK q, r : q = buildReg[h] /\ r = [q EXCEPT !.gone = TRUE]
  OBVIOUS
<1>2. Builds!Goto(h, r) /\ UNCHANGED <<builds, engine, failed>>
  BY <1>1 DEF Builds!Disconnect
<1>3. q \in BuildReg /\ RunnerOK(q)
  BY <1>1, RunnerFacts
<1>4. /\ r \in BuildReg /\ r.pc = q.pc /\ r.b = q.b /\ r.i = q.i /\ r.ok = q.ok
      /\ r.steps = q.steps /\ r.put = q.put
  BY <1>1, <1>3 DEF BuildReg
<1>5. RunnerOK(r)
  BY <1>3, <1>4 DEF RunnerOK, Holding, Opening, Looping, Unfailed, Writing, Cancelling
<1> QED
  BY <1>1, <1>2, <1>4, <1>5, QuietStep

-----------------------------------------------------------------------------
(***************************************************************************)
(* The invariant, and what follows from it.                                *)
(***************************************************************************)
LEMMA BuildInitInv == Builds!Init => BuildInv
<1> SUFFICES ASSUME Builds!Init PROVE BuildInv
  OBVIOUS
<1>1. BuildTypeInv
  BY BuildIdle DEF Builds!Init, BuildTypeInv
<1>2. \A h \in Pair : buildReg[h] = Builds!Idle
  BY DEF Builds!Init
<1>3. Alone /\ \A h \in Pair : RunnerOK(buildReg[h])
  BY <1>2, BuildIdle DEF Alone
<1>4. Earned
  BY DEF Builds!Init, Earned
<1> QED
  BY <1>1, <1>3, <1>4 DEF BuildInv

LEMMA BuildNextInv ==
  ASSUME BuildConstants, BuildInv, [Builds!Next]_(Builds!vars)
  PROVE  BuildInv'
<1>1. ASSUME NEW h \in Pair, Builds!Advance(h) PROVE BuildInv'
  <2>1. CASE \E b \in Build : Builds!CreateRetry(h, b)
    BY <2>1, RequestSteps
  <2>2. CASE \E admitted \in BOOLEAN : Builds!OpenRun(h, admitted)
    BY <2>2, OpenStep
  <2>3. CASE Builds!NextStep(h) \/ Builds!AllStepsDone(h)
    BY <2>3, LoopSteps
  <2>4. CASE Builds!StepRefused(h) \/ \E ok \in BOOLEAN : Builds!RunOneStep(h, ok)
    BY <2>4, RunSteps
  <2>5. CASE Builds!AppendCbBuildLogs(h)
    BY <2>5, LogStep
  <2>6. CASE Builds!ReadForProgress(h)
    BY <2>6, BuildReadStep
  <2>7. CASE Builds!WriteProgress(h) \/ Builds!WriteCancel(h)
    BY <2>7, WriteSteps
  <2> QED
    BY <1>1, <2>1, <2>2, <2>3, <2>4, <2>5, <2>6, <2>7 DEF Builds!Advance
<1>2. CASE Builds!Restart
  <2>1. /\ buildReg' = [h \in Pair |-> Builds!Idle] /\ UNCHANGED <<builds, engine, failed>>
    BY <1>2 DEF Builds!Restart
  <2>2. BuildTypeInv'
    BY <2>1, BuildIdle DEF BuildInv, BuildTypeInv
  <2>3. \A h \in Pair : buildReg'[h] = Builds!Idle
    BY <2>1
  <2>4. Alone'
    BY <2>3, BuildIdle DEF Alone
  <2>5. RunnerOK(Builds!Idle)'
    <3>1. Builds!Idle.pc = "idle"
      BY DEF Builds!Idle
    <3> QED
      BY <3>1 DEF RunnerOK, Holding, Opening, Looping, Unfailed, Writing, Cancelling, Work
  <2>6. \A h \in Pair : RunnerOK(buildReg[h])'
    BY <2>3, <2>5
  <2>7. Earned'
    BY <2>1 DEF BuildInv, Earned, Through, Length
  <2> QED
    BY <2>2, <2>4, <2>6, <2>7 DEF BuildInv
<1>3. CASE UNCHANGED Builds!vars
  <2>1. UNCHANGED <<builds, buildReg, engine, failed>>
    BY <1>3 DEF Builds!vars
  <2> QED
    BY <2>1 DEF BuildInv, BuildTypeInv, Alone, Earned, RunnerOK, Holding, Opening, Looping, Unfailed,
                Writing, Cancelling, Through, Length
<1> QED
  BY <1>1, <1>2, <1>3, RequestSteps, DisconnectStep DEF Builds!Next

\* Runners, rows and the history of failures stay related.
THEOREM BuildInvariance ==
  ASSUME BuildConstants
  PROVE  Builds!Spec => []BuildInv
<1>1. BuildInv /\ [Builds!Next]_(Builds!vars) => BuildInv'
  BY BuildNextInv
<1> QED
  BY <1>1, BuildInitInv, PTL DEF Builds!Spec

LEMMA InvEarned == BuildInv => Builds!SuccessEarned
  BY DEF BuildInv, Earned, Builds!SuccessEarned, Through, Length, Upto

\* Whatever requests race, a build is SUCCESS only when the engine ran each of its
\* steps, once and in order, and none failed.
THEOREM BuildSuccessEarned ==
  ASSUME BuildConstants
  PROVE  Builds!Spec => []Builds!SuccessEarned
  BY InvEarned, BuildInvariance, PTL

-----------------------------------------------------------------------------
(***************************************************************************)
(* A build that has ended with no write of it under way.                   *)
(***************************************************************************)
Keeps(b) == Builds!Settled(b)' /\ builds'[b].status = builds[b].status

\* No step starts a write of a row that has ended.
LEMMA Kept ==
  ASSUME BuildConstants, BuildInv, NEW b \in Build, Builds!Settled(b), NEW h \in Pair, NEW r, Builds!Goto(h, r),
         r.b = b => r.pc \notin {"write", "cancel"},
         builds'[b] # None, builds'[b].status = builds[b].status
  PROVE  Keeps(b)
<1>1. buildReg \in [Pair -> BuildReg]
  BY DEF BuildInv, BuildTypeInv
<1>2. \A k \in Pair : buildReg'[k] = IF k = h THEN r ELSE buildReg[k]
  BY <1>1 DEF Builds!Goto
<1> QED
  BY <1>2 DEF Keeps, Builds!Settled, Builds!Ended

LEMMA KeptByCreate ==
  ASSUME BuildConstants, BuildInv, NEW b \in Build, Builds!Settled(b),
         NEW h \in Pair, NEW c \in Build, NEW steps, Builds!CreateCbBuild(h, c, steps)
  PROVE  Keeps(b)
<1>1. PICK r : r = [Builds!Idle EXCEPT !.pc = "open", !.b = c]
  OBVIOUS
<1>2. Builds!Goto(h, r) /\ r.pc = "open"
  BY <1>1 DEF Builds!CreateCbBuild, Builds!Idle
<1>3. builds[b] # None /\ builds[c] = None /\ builds \in [Build -> Stored \cup {None}]
  BY DEF Builds!CreateCbBuild, Builds!Settled, Builds!Ended, BuildInv, BuildTypeInv
<1>4. builds'[b] = builds[b]
  BY <1>3 DEF Builds!CreateCbBuild
<1> QED
  BY <1>2, <1>3, <1>4, Kept

LEMMA KeptByRequest ==
  ASSUME BuildConstants, BuildInv, NEW b \in Build, Builds!Settled(b), NEW h \in Pair, Builds!Request(h)
  PROVE  Keeps(b)
<1>1. PICK c \in Build : \/ Builds!CreateBuild(h, c) \/ Builds!RunTrigger(h, c)
                        \/ Builds!RetryBuild(h, c) \/ Builds!CancelBuild(h, c)
  BY DEF Builds!Request
<1>2. CASE Builds!CreateBuild(h, c) \/ Builds!RunTrigger(h, c)
  BY <1>2, KeptByCreate DEF Builds!CreateBuild, Builds!RunTrigger
<1>3. builds[b] # None /\ builds[b].status \in Builds!Terminal
  BY DEF Builds!Settled, Builds!Ended
<1>4. CASE Builds!RetryBuild(h, c)
  <2>1. PICK r : r = [Builds!Idle EXCEPT !.pc = "retry", !.steps = builds[c].steps]
    OBVIOUS
  <2>2. Builds!Goto(h, r) /\ r.pc = "retry" /\ builds' = builds
    BY <1>4, <2>1 DEF Builds!RetryBuild, Builds!Idle
  <2> QED
    BY <1>3, <2>2, Kept
<1>5. CASE Builds!CancelBuild(h, c)
  <2>1. PICK r : r = [Builds!Idle EXCEPT !.pc = "cancel", !.b = c,
                        !.put = Builds!Progress("CANCELLED", Builds!AllMarked(builds[c].steps, "CANCELLED"), TRUE)]
    OBVIOUS
  <2>2. Builds!Goto(h, r) /\ r.b = c /\ c # b /\ builds' = builds
    BY <1>3, <1>5, <2>1 DEF Builds!CancelBuild, Builds!Idle
  <2> QED
    BY <1>3, <2>2, Kept
<1> QED
  BY <1>1, <1>2, <1>4, <1>5

\* A runner reads: its own register changes, and it comes to write only after it
\* has seen a row that has not ended.
LEMMA KeptByRead ==
  ASSUME BuildConstants, BuildInv, NEW b \in Build, Builds!Settled(b), NEW h \in Pair,
         \/ \E admitted \in BOOLEAN : Builds!OpenRun(h, admitted)
         \/ Builds!NextStep(h) \/ Builds!AllStepsDone(h) \/ Builds!StepRefused(h)
         \/ \E ok \in BOOLEAN : Builds!RunOneStep(h, ok)
         \/ Builds!ReadForProgress(h)
         \/ Builds!Disconnect(h)
  PROVE  Keeps(b)
<1>1. builds[b] # None /\ builds[b].status \in Builds!Terminal
  BY DEF Builds!Settled, Builds!Ended
<1>2. PICK q : q = buildReg[h]
  OBVIOUS
<1>3. q \in BuildReg /\ (q.b = b => q.pc \notin {"write", "cancel"})
  BY <1>2 DEF BuildInv, BuildTypeInv, Builds!Settled
<1>4. Builds!Idle.pc = "idle"
  BY DEF Builds!Idle
<1>5. ASSUME NEW r, Builds!Goto(h, r), r.pc \notin {"write", "cancel"}, builds' = builds
      PROVE  Keeps(b)
  BY <1>1, <1>5, Kept
<1>6. ASSUME Builds!Return(h), builds' = builds PROVE Keeps(b)
  BY <1>4, <1>5, <1>6 DEF Builds!Return
<1>7. \A f : [q EXCEPT !.pc = "put", !.put = f].pc = "put"
  BY <1>3 DEF BuildReg
<1>8. ASSUME NEW admitted \in BOOLEAN, Builds!OpenRun(h, admitted) PROVE Keeps(b)
  <2>1. PICK row : row = builds[q.b]
    OBVIOUS
  <2>2. [q EXCEPT !.pc = "next", !.i = 1, !.steps = row.steps].pc = "next"
    BY <1>3 DEF BuildReg
  <2>3. /\ builds' = builds
        /\ \/ Builds!Return(h)
           \/ \E f : Builds!Goto(h, [q EXCEPT !.pc = "put", !.put = f])
           \/ Builds!Goto(h, [q EXCEPT !.pc = "next", !.i = 1, !.steps = row.steps])
    BY <1>2, <1>8, <2>1 DEF Builds!OpenRun
  <2> QED
    BY <1>5, <1>6, <1>7, <2>2, <2>3
<1>9. CASE Builds!NextStep(h)
  <2>1. [q EXCEPT !.pc = "run", !.steps = builds[q.b].steps].pc = "run"
    BY <1>3 DEF BuildReg
  <2>2. /\ builds' = builds
        /\ \/ Builds!Return(h)
           \/ \E f : Builds!Goto(h, [q EXCEPT !.pc = "put", !.put = f])
           \/ Builds!Goto(h, [q EXCEPT !.pc = "run", !.steps = builds[q.b].steps])
    BY <1>2, <1>9 DEF Builds!NextStep
  <2> QED
    BY <1>5, <1>6, <1>7, <2>1, <2>2
<1>10. CASE Builds!AllStepsDone(h) \/ Builds!StepRefused(h)
  <2>1. builds' = builds /\ \E f : Builds!Goto(h, [q EXCEPT !.pc = "put", !.put = f])
    BY <1>2, <1>10 DEF Builds!AllStepsDone, Builds!StepRefused
  <2> QED
    BY <1>5, <1>7, <2>1
<1>11. ASSUME NEW ok \in BOOLEAN, Builds!RunOneStep(h, ok) PROVE Keeps(b)
  <2>1. PICK r : r = [q EXCEPT !.pc = "log", !.ok = ok]
    OBVIOUS
  <2>2. Builds!Goto(h, r) /\ r.pc = "log" /\ builds' = builds
    BY <1>2, <1>3, <1>11, <2>1 DEF Builds!RunOneStep, BuildReg
  <2> QED
    BY <1>5, <2>2
<1>12. CASE Builds!Disconnect(h)
  <2>1. PICK r : r = [q EXCEPT !.gone = TRUE]
    OBVIOUS
  <2>2. Builds!Goto(h, r) /\ r.pc = q.pc /\ r.b = q.b /\ builds' = builds
    BY <1>2, <1>3, <1>12, <2>1 DEF Builds!Disconnect, BuildReg
  <2> QED
    BY <1>1, <1>3, <2>2, Kept
<1>13. CASE Builds!ReadForProgress(h)
  <2>1. PICK row : row = builds[q.b]
    OBVIOUS
  <2>2. CASE row.status \in Builds!Terminal
    <3>1. PICK next : next = [q EXCEPT !.pc = "next", !.i = @ + 1, !.put = None]
      OBVIOUS
    <3>2. next.pc = "next" /\ builds' = builds /\ (Builds!Return(h) \/ Builds!Goto(h, next))
      BY <1>2, <1>3, <1>13, <2>1, <2>2, <3>1 DEF Builds!ReadForProgress, Builds!AfterPut, BuildReg
    <3> QED
      BY <1>5, <1>6, <3>2
  <2>3. CASE row.status \notin Builds!Terminal
    <3>1. PICK r : r = [q EXCEPT !.pc = "write",
                          !.put.steps = IF @ = <<>> THEN row.steps ELSE @,
                          !.put.finished = @ \/ row.finished]
      OBVIOUS
    <3>2. Builds!Goto(h, r) /\ builds' = builds
      BY <1>2, <1>13, <2>1, <2>3, <3>1 DEF Builds!ReadForProgress
    <3>3. r.b = q.b /\ q.b # b
      BY <1>1, <1>3, <2>1, <2>3, <3>1 DEF BuildReg
    <3> QED
      BY <1>1, <3>2, <3>3, Kept
  <2> QED
    BY <2>2, <2>3
<1> QED
  BY <1>8, <1>9, <1>10, <1>11, <1>12, <1>13

\* The statements that write a row: its output, which is no state, or the row of a
\* build that another handler does not hold settled.
LEMMA KeptByWrite ==
  ASSUME BuildConstants, BuildInv, NEW b \in Build, Builds!Settled(b), NEW h \in Pair,
         Builds!AppendCbBuildLogs(h) \/ Builds!WriteProgress(h) \/ Builds!WriteCancel(h)
  PROVE  Keeps(b)
<1>1. builds[b] # None /\ builds[b].status \in Builds!Terminal
  BY DEF Builds!Settled, Builds!Ended
<1>2. PICK q : q = buildReg[h]
  OBVIOUS
<1>3. q \in BuildReg /\ (q.b = b => q.pc \notin {"write", "cancel"})
  BY <1>2 DEF BuildInv, BuildTypeInv, Builds!Settled
<1>4. CASE Builds!AppendCbBuildLogs(h)
  <2>1. PICK steps : steps = [q.steps EXCEPT ![q.i] = IF q.ok THEN "SUCCESS" ELSE "FAILURE"]
    OBVIOUS
  <2>2. PICK r : r = [q EXCEPT !.pc = "put", !.steps = steps,
                        !.put = IF q.ok THEN Builds!Progress("WORKING", steps, FALSE) ELSE Builds!Failed(steps)]
    OBVIOUS
  <2>3. Builds!Goto(h, r) /\ r.pc = "put"
    BY <1>2, <1>3, <1>4, <2>1, <2>2 DEF Builds!AppendCbBuildLogs, BuildReg
  <2>4. builds[b] \in Stored /\ builds' = [builds EXCEPT ![q.b].logs = Append(@, q.i)]
    BY <1>1, <1>2, <1>4 DEF Builds!AppendCbBuildLogs, BuildInv, BuildTypeInv
  <2>5. PICK old, out, new : old = builds[b] /\ out = Append(old.logs, q.i) /\ new = [old EXCEPT !.logs = out]
    OBVIOUS
  <2>6. out \in Seq(Nat)
    BY <1>3, <2>4, <2>5 DEF Stored, BuildReg
  <2>7. new \in Stored /\ new.status = old.status
    BY <2>4, <2>5, <2>6 DEF Stored
  <2>8. builds'[b] = IF q.b = b THEN new ELSE old
    BY <2>4, <2>5 DEF BuildInv, BuildTypeInv
  <2>9. builds'[b] # None /\ builds'[b].status = builds[b].status
    BY <1>1, <2>5, <2>7, <2>8 DEF BuildConstants
  <2> QED
    BY <2>3, <2>9, Kept
<1>5. CASE Builds!WriteProgress(h) \/ Builds!WriteCancel(h)
  <2>1. q.pc \in {"write", "cancel"} /\ Builds!Update(h) /\ engine' = engine /\ failed' = failed
    BY <1>2, <1>5 DEF Builds!WriteProgress, Builds!WriteCancel, Builds!At
  <2>2. builds'[b] = builds[b]
    BY <1>2, <1>3, <2>1, Updated
  <2>3. PICK next : next = [q EXCEPT !.pc = "next", !.i = @ + 1, !.put = None]
    OBVIOUS
  <2>4. Builds!Goto(h, Builds!Idle) \/ Builds!Goto(h, next)
    BY <1>2, <1>5, <2>3 DEF Builds!WriteProgress, Builds!WriteCancel, Builds!AfterPut, Builds!Return
  <2>5. Builds!Idle.pc = "idle" /\ next.pc = "next"
    BY <1>3, <2>3 DEF Builds!Idle, BuildReg
  <2> QED
    BY <1>1, <2>2, <2>4, <2>5, Kept
<1> QED
  BY <1>4, <1>5

LEMMA SettledStep ==
  ASSUME BuildConstants, BuildInv, [Builds!Next]_(Builds!vars), NEW b \in Build, Builds!Settled(b)
  PROVE  Builds!Settled(b)' /\ builds'[b].status = builds[b].status
<1>1. ASSUME NEW h \in Pair, Builds!Advance(h) PROVE Keeps(b)
  <2>1. CASE \E c \in Build : Builds!CreateRetry(h, c)
    BY <2>1, KeptByCreate DEF Builds!CreateRetry
  <2>2. CASE Builds!AppendCbBuildLogs(h) \/ Builds!WriteProgress(h) \/ Builds!WriteCancel(h)
    BY <2>2, KeptByWrite
  <2> QED
    BY <1>1, <2>1, <2>2, KeptByRead DEF Builds!Advance
<1>2. CASE Builds!Restart
  BY <1>2 DEF Builds!Restart, Keeps, Builds!Settled, Builds!Ended, Builds!Idle
<1>3. CASE UNCHANGED Builds!vars
  BY <1>3 DEF Builds!vars, Keeps, Builds!Settled, Builds!Ended
<1> QED
  BY <1>1, <1>2, <1>3, KeptByRequest, KeptByRead DEF Builds!Next, Keeps

\* PutCbBuildProgress and CancelCbBuildDeepen look at the status before they write: a
\* build that has ended with no write under way keeps its state.
THEOREM BuildSettledStays ==
  ASSUME BuildConstants
  PROVE  Builds!Spec => Builds!SettledStays
<1>1. BuildInv /\ [Builds!Next]_(Builds!vars) =>
        [\A b \in Build : Builds!Settled(b) => Builds!Settled(b)' /\ builds'[b].status = builds[b].status]_(Builds!vars)
  BY SettledStep
<1> QED
  BY <1>1, BuildInvariance, PTL DEF Builds!Spec, Builds!SettledStays

-----------------------------------------------------------------------------
(***************************************************************************)
(* The services together.  A step of MCSpec is one of Cloud Tasks, of      *)
(* Cloud Scheduler or of Cloud Build, and leaves the other two alone.      *)
(***************************************************************************)
\* Each service takes a step of its own or stutters.
LEMMA StepOfEach ==
  ASSUME [MCNext]_<<vars, jobVars, buildVars, atWork>>
  PROVE  [Jobs!Next]_(Jobs!vars) /\ [Builds!Next]_(Builds!vars)
<1>1. jobVars' = jobVars => Jobs!vars' = Jobs!vars
  BY DEF jobVars, Jobs!vars
<1>2. buildVars' = buildVars => Builds!vars' = Builds!vars
  BY DEF buildVars, Builds!vars
<1> QED
  BY <1>1, <1>2 DEF MCNext, AllEnded

WorkInv == JobInv /\ BuildInv

\* The invariants of the two services hold of the services together.
THEOREM WorkInvariance ==
  ASSUME JobConstants, BuildConstants
  PROVE  MCSpec => []WorkInv
<1>1. MCInit => WorkInv
  BY JobInitInv, BuildInitInv DEF MCInit, WorkInv
<1>2. WorkInv /\ [MCNext]_<<vars, jobVars, buildVars, atWork>> => WorkInv'
  BY StepOfEach, JobNextInv, BuildNextInv DEF WorkInv
<1> QED
  BY <1>1, <1>2, PTL DEF MCSpec

\* While clients take turns and none is served, each job written since the process
\* started has the goroutine its row asks for, and no other (registerTicker).
THEOREM TickersFollow ==
  ASSUME JobConstants, BuildConstants
  PROVE  MCSpec => []TickersFollowJobs
<1>1. WorkInv => TickersFollowJobs
  BY InvFollows DEF WorkInv, TickersFollowJobs
<1> QED
  BY <1>1, WorkInvariance, PTL

\* Whatever requests race, a build is SUCCESS only when the engine ran each of its
\* steps, once and in order, and none failed (EngineRunner.Run, PutCbBuildProgress).
THEOREM SuccessIsEarned ==
  ASSUME JobConstants, BuildConstants
  PROVE  MCSpec => []SuccessEarned
<1>1. WorkInv => SuccessEarned
  BY InvEarned DEF WorkInv, SuccessEarned
<1> QED
  BY <1>1, WorkInvariance, PTL

\* A build that has ended with no write of it under way keeps its state
\* (PutCbBuildProgress, CancelCbBuildDeepen).
THEOREM EndedStaysSettled ==
  ASSUME JobConstants, BuildConstants
  PROVE  MCSpec => SettledStays
<1>1. WorkInv /\ [MCNext]_<<vars, jobVars, buildVars, atWork>>
        => [\A b \in Build : Builds!Settled(b) =>
              Builds!Settled(b)' /\ builds'[b].status = builds[b].status]_(Builds!vars)
  BY StepOfEach, SettledStep DEF WorkInv
<1> QED
  BY <1>1, WorkInvariance, PTL DEF MCSpec, SettledStays, Builds!SettledStays
=============================================================================
