----------------------------- MODULE CloudBuild -----------------------------
(***************************************************************************)
(* Cloud Build: the rows of cb_builds, the runner that executes the steps  *)
(* of a build, and the requests that create, retry and cancel builds       *)
(* (internal/services/cloudbuild, internal/store/artifact_cloudbuild.go).  *)
(*                                                                         *)
(* A request that creates a build answers its client and then runs the     *)
(* build itself, step after step, in the same goroutine.  Progress and     *)
(* cancellation read the row, look at its status, and write the whole row  *)
(* in a later statement.  The process may stop at any point.               *)
(***************************************************************************)
EXTENDS Integers, Sequences

CONSTANTS
  Handler,    \* request goroutines
  Build,      \* build ids
  Steps,      \* steps of a build that a client creates, at least one
  None        \* no row

VARIABLES
  builds,     \* table cb_builds
  reg,        \* what each handler knows
  engine,     \* a nested engine is configured
  failed,     \* history: builds with a step that failed or that was refused
  orphans     \* history: builds whose runner a restart ended

vars == <<builds, reg, engine, failed, orphans>>

Terminal == {"SUCCESS", "FAILURE", "CANCELLED"}
Status   == {"WORKING"} \cup Terminal
Plan     == UNION {[1..n -> Status \cup {"unset"}] : n \in 1..Steps}
Row      == [status : Status, steps : Plan, finished : BOOLEAN, logs : Seq(1..Steps)]

Idle == [pc |-> "idle", b |-> None, i |-> 0, ok |-> TRUE, gone |-> FALSE, steps |-> <<>>, put |-> None]

At(h, pc)  == reg[h].pc = pc
Goto(h, r) == reg' = [reg EXCEPT ![h] = r]
Return(h)  == Goto(h, Idle)

\* MarkCbBuildStepsStatus.
AllMarked(steps, status) == [i \in DOMAIN steps |-> status]

\* The columns an UPDATE of the row sets.
Progress(status, steps, finished) == [status |-> status, steps |-> steps, finished |-> finished]

\* What failBuild writes.
Failed(steps) == Progress("FAILURE", AllMarked(steps, "FAILURE"), TRUE)

Init ==
  /\ builds  = [b \in Build |-> None]
  /\ reg     = [h \in Handler |-> Idle]
  /\ engine \in BOOLEAN
  /\ failed  = {}
  /\ orphans = {}

(***************************************************************************)
(* createBuild, runTrigger and retryBuild: a new id, a row, the reply, and *)
(* the runner.                                                             *)
(***************************************************************************)
CreateCbBuild(h, b, steps) ==
  /\ builds[b] = None
  /\ builds' = [builds EXCEPT ![b] = [status |-> "WORKING", steps |-> steps, finished |-> FALSE, logs |-> <<>>]]
  /\ Goto(h, [Idle EXCEPT !.pc = "open", !.b = b])
  /\ UNCHANGED <<engine, failed, orphans>>

CreateBuild(h, b) ==
  At(h, "idle") /\ CreateCbBuild(h, b, [i \in 1..Steps |-> "WORKING"])

\* One step, without a status.
RunTrigger(h, b) ==
  At(h, "idle") /\ CreateCbBuild(h, b, <<"unset">>)

\* The steps are copied as they are, with the statuses they have.
RetryBuild(h, src) ==
  /\ At(h, "idle")
  /\ builds[src] # None
  /\ Goto(h, [Idle EXCEPT !.pc = "retry", !.steps = builds[src].steps])
  /\ UNCHANGED <<builds, engine, failed, orphans>>

CreateRetry(h, b) ==
  At(h, "retry") /\ CreateCbBuild(h, b, reg[h].steps)

(***************************************************************************)
(* EngineRunner.Run.                                                       *)
(***************************************************************************)

\* Mutant: a refused build is left alone.
OpenRunQuietly(h, admitted) ==
  /\ At(h, "open")
  /\ LET row == builds[reg[h].b]
     IN  IF row.status \in Terminal \/ ~admitted THEN Return(h)
         ELSE IF ~engine THEN Goto(h, [reg[h] EXCEPT !.pc = "put", !.put = Progress("WORKING", <<>>, FALSE)])
         ELSE Goto(h, [reg[h] EXCEPT !.pc = "next", !.i = 1, !.steps = row.steps])
  /\ UNCHANGED <<builds, engine, failed, orphans>>

\* GetCbBuild, and what is checked before the first step: the egress of the
\* worker pool, the secrets, the identity of the build.
OpenRun(h, admitted) ==
  /\ At(h, "open")
  /\ LET row == builds[reg[h].b]
     IN  IF row.status \in Terminal THEN Return(h) /\ UNCHANGED failed
         ELSE IF ~admitted
         THEN /\ Goto(h, [reg[h] EXCEPT !.pc = "put", !.put = Failed(row.steps)])
              /\ failed' = failed \cup {reg[h].b}
         ELSE /\ Goto(h, IF engine THEN [reg[h] EXCEPT !.pc = "next", !.i = 1, !.steps = row.steps]
                         ELSE [reg[h] EXCEPT !.pc = "put", !.put = Progress("WORKING", <<>>, FALSE)])
              /\ UNCHANGED failed
  /\ UNCHANGED <<builds, engine, orphans>>

\* ctx.Err of the request, then GetCbBuild.
NextStep(h) ==
  /\ At(h, "next")
  /\ reg[h].i <= Len(reg[h].steps)
  /\ LET row == builds[reg[h].b]
     IN  IF reg[h].gone THEN Goto(h, [reg[h] EXCEPT !.pc = "put", !.put = Failed(reg[h].steps)])
         ELSE IF row.status \in Terminal THEN Return(h)
         ELSE Goto(h, [reg[h] EXCEPT !.pc = "run", !.steps = row.steps])
  /\ UNCHANGED <<builds, engine, failed, orphans>>

AllStepsDone(h) ==
  /\ At(h, "next")
  /\ reg[h].i > Len(reg[h].steps)
  /\ Goto(h, [reg[h] EXCEPT !.pc = "put",
                            !.put = Progress("SUCCESS", AllMarked(reg[h].steps, "SUCCESS"), TRUE)])
  /\ UNCHANGED <<builds, engine, failed, orphans>>

\* withSecretEnv: the step names a secret that has no value.
StepRefused(h) ==
  /\ At(h, "run")
  /\ Goto(h, [reg[h] EXCEPT !.pc = "put", !.put = Failed(reg[h].steps)])
  /\ failed' = failed \cup {reg[h].b}
  /\ UNCHANGED <<builds, engine, orphans>>

\* The container runs and exits, or the engine gives up on it.
RunOneStep(h, ok) ==
  /\ At(h, "run")
  /\ Goto(h, [reg[h] EXCEPT !.pc = "log", !.ok = ok])
  /\ failed' = IF ok THEN failed ELSE failed \cup {reg[h].b}
  /\ UNCHANGED <<builds, engine, orphans>>

\* Mutant: the output is kept and the exit code forgotten.
AppendCbBuildLogsOnly(h) ==
  /\ At(h, "log")
  /\ LET b == reg[h].b  i == reg[h].i
     IN  /\ builds' = [builds EXCEPT ![b].logs = Append(@, i)]
         /\ Goto(h, [reg[h] EXCEPT !.pc = "put", !.steps[i] = "SUCCESS",
                       !.put = Progress("WORKING", [reg[h].steps EXCEPT ![i] = "SUCCESS"], FALSE)])
  /\ UNCHANGED <<engine, failed, orphans>>

\* UPDATE ... SET logs_text = logs_text || ?.
AppendCbBuildLogs(h) ==
  /\ At(h, "log")
  /\ LET b     == reg[h].b
         i     == reg[h].i
         steps == [reg[h].steps EXCEPT ![i] = IF reg[h].ok THEN "SUCCESS" ELSE "FAILURE"]
     IN  /\ builds' = [builds EXCEPT ![b].logs = Append(@, i)]
         /\ Goto(h, [reg[h] EXCEPT !.pc = "put", !.steps = steps,
                       !.put = IF reg[h].ok THEN Progress("WORKING", steps, FALSE) ELSE Failed(steps)])
  /\ UNCHANGED <<engine, failed, orphans>>

(***************************************************************************)
(* PutCbBuildProgress: GetCbBuild, the check, UPDATE.                      *)
(***************************************************************************)

\* After a step the loop goes on; otherwise the run is over.
AfterPut(h) ==
  IF reg[h].put.status = "WORKING" /\ engine
  THEN Goto(h, [reg[h] EXCEPT !.pc = "next", !.i = @ + 1, !.put = None])
  ELSE Return(h)

\* Mutant: a terminal row is written as well.
ReadForProgressAnyway(h) ==
  /\ At(h, "put")
  /\ LET row == builds[reg[h].b]
     IN  Goto(h, [reg[h] EXCEPT !.pc = "write",
                     !.put.steps = IF @ = <<>> THEN row.steps ELSE @, !.put.finished = @ \/ row.finished])
  /\ UNCHANGED <<builds, engine, failed, orphans>>

\* No steps and no finish time leave those of the row.
ReadForProgress(h) ==
  /\ At(h, "put")
  /\ LET row == builds[reg[h].b]
     IN  IF row.status \in Terminal THEN AfterPut(h)
         ELSE Goto(h, [reg[h] EXCEPT !.pc = "write",
                          !.put.steps = IF @ = <<>> THEN row.steps ELSE @, !.put.finished = @ \/ row.finished])
  /\ UNCHANGED <<builds, engine, failed, orphans>>

\* UPDATE ... SET status, status_detail, finish_time, build_json.
Update(h) ==
  builds' = [builds EXCEPT ![reg[h].b].status   = reg[h].put.status,
                           ![reg[h].b].steps    = reg[h].put.steps,
                           ![reg[h].b].finished = reg[h].put.finished]

WriteProgress(h) ==
  /\ At(h, "write")
  /\ Update(h)
  /\ AfterPut(h)
  /\ UNCHANGED <<engine, failed, orphans>>

(***************************************************************************)
(* cancelBuild: CancelCbBuildDeepen.                                       *)
(***************************************************************************)
CancelBuild(h, b) ==
  /\ At(h, "idle")
  /\ builds[b] # None
  /\ builds[b].status \notin Terminal
  /\ Goto(h, [Idle EXCEPT !.pc = "cancel", !.b = b,
                !.put = Progress("CANCELLED", AllMarked(builds[b].steps, "CANCELLED"), TRUE)])
  /\ UNCHANGED <<builds, engine, failed, orphans>>

WriteCancel(h) ==
  /\ At(h, "cancel")
  /\ Update(h)
  /\ Return(h)
  /\ UNCHANGED <<engine, failed, orphans>>

(***************************************************************************)
(* The environment.                                                        *)
(***************************************************************************)
Runs(h, b) == reg[h].b = b /\ reg[h].pc \in {"open", "next", "run", "log", "put", "write"}
Running(b) == \E h \in Handler : Runs(h, b)

\* The client of a build goes away: the context of its request is cancelled.
Disconnect(h) ==
  /\ \E b \in Build : Runs(h, b)
  /\ ~reg[h].gone
  /\ Goto(h, [reg[h] EXCEPT !.gone = TRUE])
  /\ UNCHANGED <<builds, engine, failed, orphans>>

\* The process is killed and started again: the table stays, the runners do not.
Restart ==
  /\ \E h \in Handler : ~At(h, "idle")
  /\ reg' = [h \in Handler |-> Idle]
  /\ orphans' = orphans \cup {b \in Build : Running(b)}
  /\ UNCHANGED <<builds, engine, failed>>

Request(h) ==
  \E b \in Build : CreateBuild(h, b) \/ RunTrigger(h, b) \/ RetryBuild(h, b) \/ CancelBuild(h, b)

Advance(h) ==
  \/ \E b \in Build : CreateRetry(h, b)
  \/ \E admitted \in BOOLEAN : OpenRun(h, admitted)
  \/ NextStep(h) \/ AllStepsDone(h)
  \/ StepRefused(h) \/ \E ok \in BOOLEAN : RunOneStep(h, ok)
  \/ AppendCbBuildLogs(h) \/ ReadForProgress(h) \/ WriteProgress(h)
  \/ WriteCancel(h)

Next ==
  \/ \E h \in Handler : Request(h) \/ Advance(h) \/ Disconnect(h)
  \/ Restart

\* A goroutine that can go on does so: the engine gives up on a container that
\* runs longer than 30 seconds, and every other step is a statement.
Fairness == \A h \in Handler : WF_vars(Advance(h))

Spec == Init /\ [][Next]_vars /\ Fairness

-----------------------------------------------------------------------------
(***************************************************************************)
(* Properties.                                                             *)
(***************************************************************************)
Ended(b) == builds[b] # None /\ builds[b].status \in Terminal

\* Rows and registers are well formed; a finished row has every step in the
\* state of the build, and only a finished row has a finish time.
TypeOK ==
  /\ builds \in [Build -> Row \cup {None}]
  /\ \A b \in Build : builds[b] # None =>
       /\ builds[b].finished <=> builds[b].status \in Terminal
       /\ Ended(b) => builds[b].steps = AllMarked(builds[b].steps, builds[b].status)
  /\ \A h \in Handler : ~At(h, "idle") /\ ~At(h, "retry") => reg[h].b \in Build
  /\ failed \subseteq Build /\ orphans \subseteq Build

\* docs/services/cloud-build.md: a build without an engine is never SUCCESS.
\* Whatever requests race, a build is SUCCESS only when each of its steps has
\* run, once and in order, and none has failed.
SuccessEarned ==
  \A b \in Build : builds[b] # None /\ builds[b].status = "SUCCESS" =>
    /\ engine /\ b \notin failed
    /\ builds[b].logs = [i \in 1..Len(builds[b].steps) |-> i]

\* No write of the build is under way.
Settled(b) == Ended(b) /\ \A h \in Handler : reg[h].b = b => reg[h].pc \notin {"write", "cancel"}

\* A build that has ended keeps its state, unless a write was under way that
\* had read it before: nothing that reads the row afterwards changes it.
SettledStays ==
  [][\A b \in Build : Settled(b) => Settled(b)' /\ builds'[b].status = builds[b].status]_vars

\* docs/services/cloud-build.md: "After the runner finishes, getBuild is SUCCESS
\* or FAILURE": with an engine every build ends, unless a restart takes its runner.
BuildsEnd ==
  \A b \in Build : (engine /\ Running(b)) ~> (Ended(b) \/ b \in orphans)

\* PutCbBuildProgress: "Terminal rows (CANCELLED, SUCCESS, FAILURE, and the other
\* finished statuses) are left unchanged."  A cancellation between the read and
\* the write of the runner is overwritten.
TerminalUnchanged ==
  [][\A b \in Build : Ended(b) => builds'[b].status = builds[b].status]_vars
=============================================================================
