----------------------------- MODULE CloudTasks -----------------------------
(***************************************************************************)
(* Cloud Tasks: the rows of cloud_tasks_queues and cloud_tasks, and the    *)
(* dispatch of a task inside the request that creates or runs it           *)
(* (internal/services/cloudtasks/service.go, internal/store/serverless.go).*)
(*                                                                         *)
(* A task is dispatched by counting the dispatch, calling its target and   *)
(* counting the response, three steps between which the task or its queue  *)
(* may be deleted and created again and the process may stop.  A task that *)
(* is due more than two seconds later is only stored.                      *)
(***************************************************************************)
EXTENDS Integers, FiniteSets

CONSTANTS
  Handler,    \* request goroutines
  Queue,      \* queue names
  Task,       \* task ids within a queue
  None,       \* no row
  MaxRuns     \* bound: dispatches of a task

VARIABLES
  queues,     \* table cloud_tasks_queues: its names
  tasks,      \* table cloud_tasks
  reg,        \* what each handler knows
  cut,        \* history: dispatches of the stored task cut off by a restart
  strays,     \* history: responses it got for an earlier task of its name
  wins        \* history: handlers told that they created it

vars == <<queues, tasks, reg, cut, strays, wins>>

Id    == Queue \X Task
Row   == [dispatches : 0..MaxRuns, responses : 0..MaxRuns]

ASSUME ConstantsAssumption ==
  MaxRuns \in Nat \ {0} /\ None \notin Row /\ IsFiniteSet(Handler)

\* Mutant: the counters are left NULL.
NewUncounted == [dispatches |-> None, responses |-> None]

New   == [dispatches |-> 0, responses |-> 0]
Idle  == [pc |-> "idle", id |-> None, due |-> FALSE, of |-> "none"]

At(h, pc)  == reg[h].pc = pc
Goto(h, r) == reg' = [reg EXCEPT ![h] = r]
Step(h, pc) == Goto(h, [reg[h] EXCEPT !.pc = pc])
Return(h)  == Goto(h, Idle)

\* Handlers whose dispatch of the task stored now is counted, unanswered.
Calling(i) == {h \in Handler : reg[h].id = i /\ reg[h].pc \in {"call", "answer"} /\ reg[h].of = "stored"}

Init ==
  /\ queues = {}
  /\ tasks  = [i \in Id |-> None]
  /\ reg    = [h \in Handler |-> Idle]
  /\ cut    = [i \in Id |-> 0]
  /\ strays = [i \in Id |-> 0]
  /\ wins   = [i \in Id |-> 0]

(***************************************************************************)
(* Queues.                                                                 *)
(***************************************************************************)

\* INSERT OR IGNORE.
CreateQueue(q) ==
  /\ queues' = queues \cup {q}
  /\ UNCHANGED <<tasks, reg, cut, strays, wins>>

\* The rows of the ids in gone are deleted: their history ends, and a dispatch
\* under way is one of a task that is not stored any more.
Forget(gone) ==
  /\ tasks'  = [i \in Id |-> IF i \in gone THEN None ELSE tasks[i]]
  /\ cut'    = [i \in Id |-> IF i \in gone THEN 0 ELSE cut[i]]
  /\ strays' = [i \in Id |-> IF i \in gone THEN 0 ELSE strays[i]]
  /\ wins'   = [i \in Id |-> IF i \in gone THEN 0 ELSE wins[i]]
  /\ reg'    = [h \in Handler |-> IF reg[h].id \in gone /\ reg[h].of = "stored"
                                  THEN [reg[h] EXCEPT !.of = "deleted"] ELSE reg[h]]

\* One transaction removes the tasks and the queue.
DeleteQueue(q) ==
  /\ Forget({i \in Id : i[1] = q})
  /\ queues' = queues \ {q}

(***************************************************************************)
(* createTask.                                                             *)
(***************************************************************************)
CreateTask(h, i, due) ==
  /\ At(h, "idle")
  /\ i[1] \in queues
  /\ Goto(h, [Idle EXCEPT !.pc = "insert", !.id = i, !.due = due])
  /\ UNCHANGED <<queues, tasks, cut, strays, wins>>

\* Mutant: INSERT OR REPLACE.
CreateCloudTaskReplaces(h) ==
  /\ At(h, "insert")
  /\ tasks' = [tasks EXCEPT ![reg[h].id] = New]
  /\ wins' = [wins EXCEPT ![reg[h].id] = @ + 1]
  /\ Step(h, "created")
  /\ UNCHANGED <<queues, cut, strays>>

\* INSERT OR IGNORE: a task of that name ends the request.  The queue is not
\* looked at again.
CreateCloudTask(h) ==
  /\ At(h, "insert")
  /\ IF tasks[reg[h].id] = None
     THEN /\ tasks' = [tasks EXCEPT ![reg[h].id] = New]
          /\ wins' = [wins EXCEPT ![reg[h].id] = @ + 1]
          /\ Step(h, "created")
     ELSE Return(h) /\ UNCHANGED <<tasks, wins>>
  /\ UNCHANGED <<queues, cut, strays>>

\* GetCloudTask; only a task that is due is dispatched.
GetCreatedTask(h) ==
  /\ At(h, "created")
  /\ IF tasks[reg[h].id] # None /\ reg[h].due THEN Step(h, "dispatch") ELSE Return(h)
  /\ UNCHANGED <<queues, tasks, cut, strays, wins>>

RunTask(h, i) ==
  /\ At(h, "idle")
  /\ tasks[i] # None
  /\ Goto(h, [Idle EXCEPT !.pc = "dispatch", !.id = i])
  /\ UNCHANGED <<queues, tasks, cut, strays, wins>>

(***************************************************************************)
(* dispatchHTTP.                                                           *)
(***************************************************************************)

\* UPDATE ... SET dispatch_count = dispatch_count + 1; its result is ignored, and
\* the target of the row read before is called in any case.
IncrementCloudTaskDispatch(h) ==
  /\ At(h, "dispatch")
  /\ LET i == reg[h].id
     IN  IF tasks[i] = None THEN Goto(h, [reg[h] EXCEPT !.pc = "call", !.of = "deleted"]) /\ UNCHANGED tasks
         ELSE /\ tasks[i].dispatches < MaxRuns
              /\ tasks' = [tasks EXCEPT ![i].dispatches = @ + 1]
              /\ Goto(h, [reg[h] EXCEPT !.pc = "call", !.of = "stored"])
  /\ UNCHANGED <<queues, cut, strays, wins>>

\* Mutant: a task without a target is not answered.
CallReturnsEarly(h) ==
  /\ At(h, "call")
  /\ Return(h)
  /\ UNCHANGED <<queues, tasks, cut, strays, wins>>

\* The target is called, recorded or left out; every outcome is the same.
Call(h) ==
  /\ At(h, "call")
  /\ Step(h, "answer")
  /\ UNCHANGED <<queues, tasks, cut, strays, wins>>

\* The deferred UPDATE ... SET response_count = response_count + 1.
IncrementCloudTaskResponse(h) ==
  /\ At(h, "answer")
  /\ LET i == reg[h].id
     IN  IF tasks[i] = None THEN UNCHANGED <<tasks, strays>>
         ELSE /\ tasks[i].responses < MaxRuns
              /\ tasks' = [tasks EXCEPT ![i].responses = @ + 1]
              /\ strays' = [strays EXCEPT ![i] = IF reg[h].of = "stored" THEN @ ELSE @ + 1]
  /\ Return(h)
  /\ UNCHANGED <<queues, cut, wins>>

DeleteTask(i) ==
  /\ tasks[i] # None
  /\ Forget({i})
  /\ UNCHANGED queues

\* The process is killed and started again: the tables stay.
Restart ==
  /\ \E h \in Handler : ~At(h, "idle")
  /\ reg' = [h \in Handler |-> Idle]
  /\ cut' = [i \in Id |-> cut[i] + Cardinality(Calling(i))]
  /\ UNCHANGED <<queues, tasks, strays, wins>>

Request(h) ==
  \E i \in Id : RunTask(h, i) \/ \E due \in BOOLEAN : CreateTask(h, i, due)

Advance(h) ==
  \/ CreateCloudTask(h) \/ GetCreatedTask(h)
  \/ IncrementCloudTaskDispatch(h) \/ Call(h) \/ IncrementCloudTaskResponse(h)

Next ==
  \/ \E h \in Handler : Request(h) \/ Advance(h)
  \/ \E q \in Queue : CreateQueue(q) \/ DeleteQueue(q)
  \/ \E i \in Id : DeleteTask(i)
  \/ Restart

Spec == Init /\ [][Next]_vars

-----------------------------------------------------------------------------
(***************************************************************************)
(* Properties.                                                             *)
(***************************************************************************)

\* Rows, handlers and histories are what the code can make of them.
TypeOK ==
  /\ queues \subseteq Queue
  /\ tasks \in [Id -> Row \cup {None}]
  /\ \A h \in Handler : /\ reg[h].pc \in {"idle", "insert", "created", "dispatch", "call", "answer"}
                        /\ reg[h].pc # "idle" => reg[h].id \in Id
                        /\ reg[h].of \in {"none", "stored", "deleted"}
  /\ cut \in [Id -> Nat] /\ strays \in [Id -> Nat] /\ wins \in [Id -> Nat]

\* However dispatches, deletions, creations and restarts interleave, the two
\* counters of a task tell exactly the dispatches under way, those a restart
\* cut off and the answers meant for an earlier task of the name.
CountsBalance ==
  \A i \in Id : tasks[i] # None =>
    tasks[i].dispatches + strays[i] = tasks[i].responses + cut[i] + Cardinality(Calling(i))

\* Of the clients that create a task of one name at the same time, one alone is
\* told that it did and dispatches it; the others get ALREADY_EXISTS.
OneCreator == \A i \in Id : wins[i] <= 1
=============================================================================
