---------------------------- MODULE MCBackground ----------------------------
(***************************************************************************)
(* The services whose work goes on after a request was answered, for TLC:  *)
(* the dispatches of Cloud Tasks, the tickers of Cloud Scheduler and the   *)
(* builds of Cloud Build.  They share nothing but the process; one of them *)
(* is at work in each behaviour and the others stay as they started.       *)
(***************************************************************************)
EXTENDS CloudTasks

CONSTANTS
  Pair,       \* the request goroutines of Cloud Scheduler and Cloud Build
  Job, Ticker, Build, Steps

VARIABLES
  jobs, tickers, run, jobReg, touched, turns,       \* of Scheduler
  builds, buildReg, engine, failed, orphans,        \* of CloudBuild
  atWork

Jobs   == INSTANCE Scheduler  WITH Handler <- Pair, reg <- jobReg
Builds == INSTANCE CloudBuild WITH Handler <- Pair, reg <- buildReg

jobVars   == <<jobs, tickers, run, jobReg, touched, turns>>
buildVars == <<builds, buildReg, engine, failed, orphans>>

\* Builds share no row.  Two handlers are at one build, or one handler after the
\* other creates builds and retries them, which reads the row of another build in
\* one statement.
OneBuild  == /\ \E b \in Build : \A c \in Build \ {b} : builds[c] = None
             /\ \A h \in Pair : buildReg[h].pc # "retry"
OneClient == \A h, k \in Pair : buildReg[h].pc # "idle" /\ buildReg[k].pc # "idle" => h = k

\* The one build has ended, and no client has anything left to ask.
AllEnded ==
  /\ \E b \in Build : Builds!Ended(b)
  /\ \A h \in Pair : buildReg[h].pc = "idle"
  /\ UNCHANGED <<vars, jobVars, buildVars>>

\* What only a service at work looks at has one value in the others' behaviours.
MCInit ==
  /\ Init /\ Jobs!Init /\ Builds!Init
  /\ atWork \in {"tasks", "jobs", "builds", "retries"}
  /\ atWork # "jobs" => turns
  /\ atWork \in {"tasks", "jobs"} => engine

MCNext ==
  /\ \/ atWork = "tasks"   /\ Next        /\ UNCHANGED <<jobVars, buildVars>>
     \/ atWork = "jobs"    /\ Jobs!Next   /\ UNCHANGED <<vars, buildVars>>
     \/ atWork = "builds"  /\ Builds!Next /\ OneBuild'  /\ UNCHANGED <<vars, jobVars>>
     \/ atWork = "builds"  /\ AllEnded
     \/ atWork = "retries" /\ Builds!Next /\ OneClient' /\ UNCHANGED <<vars, jobVars>>
  /\ UNCHANGED atWork

\* Nothing of a service is under way at the start, so that its fairness asks
\* nothing of the services that are not at work.
MCSpec == MCInit /\ [][MCNext]_<<vars, jobVars, buildVars, atWork>> /\ Jobs!Fairness /\ Builds!Fairness

\* While clients take turns and none is being served, a job that was written since
\* the process started has exactly one goroutine, the one its entry can cancel, if
\* it is enabled and periodic, and none otherwise.
TickersFollowJobs == Jobs!TickersFollowJobs

\* An active job keeps being fired, once clients that take turns leave it so.
KeepsFiring == Jobs!KeepsFiring

\* Goroutines that concurrent handlers have lost track of read the job at each tick:
\* once a job stays paused or deleted, all of them end.
StrayTickersEnd == Jobs!StrayTickersEnd

\* Whatever requests race, a build is SUCCESS only when each of its steps has run,
\* once and in order, and none has failed.
SuccessEarned == Builds!SuccessEarned

\* A build that has ended keeps its state, unless a write was under way that had
\* read it before.
SettledStays == Builds!SettledStays

\* With an engine every build ends, unless a restart takes its runner.
BuildsEnd == Builds!BuildsEnd
=============================================================================
