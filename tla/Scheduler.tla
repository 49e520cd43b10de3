------------------------------ MODULE Scheduler ------------------------------
(***************************************************************************)
(* Cloud Scheduler: the rows of scheduler_jobs, the map of tickers and     *)
(* their goroutines (internal/services/scheduler/service.go,               *)
(* internal/store/serverless.go).                                          *)
(*                                                                         *)
(* An enabled job with an every-N-minutes schedule has a goroutine that    *)
(* reads the job again at each tick and fires it.  Handlers write the row  *)
(* first and then stop or replace the goroutine under the service's mutex; *)
(* registerTicker gives up the mutex between the two.                      *)
(***************************************************************************)
EXTENDS Integers, FiniteSets

CONSTANTS
  Handler,    \* request goroutines
  Job,        \* job names
  Ticker,     \* goroutines of registerTicker; a finished one may be used again
  None        \* no row; no Ticker is it

VARIABLES
  jobs,       \* table scheduler_jobs
  tickers,    \* Service.tickers: the goroutine that is cancelled for each job
  run,        \* the goroutines: what each of them is doing, and for which job
  reg,        \* what each handler knows
  touched,    \* history: jobs registered or stopped since the process started
  turns       \* clients wait for a reply before any of them sends again

vars == <<jobs, tickers, run, reg, touched, turns>>

\* state is the job's; ticks says whether tickerInterval finds an interval.
Row  == [state : {"ENABLED", "PAUSED"}, ticks : BOOLEAN]
Ended == [pc |-> "ended", job |-> None, cancelled |-> FALSE]
Idle == [pc |-> "idle", op |-> None, job |-> None, row |-> None]

At(h, pc)  == reg[h].pc = pc
Goto(h, r) == reg' = [reg EXCEPT ![h] = r]
Return(h)  == Goto(h, Idle)
Free(h)    == At(h, "idle") /\ (turns => \A i \in Handler : At(i, "idle"))
Active(j)  == jobs[j] # None /\ jobs[j].state = "ENABLED" /\ jobs[j].ticks

Init ==
  /\ jobs    = [j \in Job |-> None]
  /\ tickers = [j \in Job |-> None]
  /\ run     = [k \in Ticker |-> Ended]
  /\ reg     = [h \in Handler |-> Idle]
  /\ touched = {}
  /\ turns \in BOOLEAN

(***************************************************************************)
(* Requests: the row.                                                      *)
(***************************************************************************)

\* INSERT OR IGNORE, then registerTicker for the job that was created.
CreateJob(h, j, row) ==
  /\ Free(h)
  /\ jobs[j] = None
  /\ jobs' = [jobs EXCEPT ![j] = row]
  /\ Goto(h, [Idle EXCEPT !.pc = "replace", !.job = j])
  /\ UNCHANGED <<tickers, run, touched, turns>>

\* patchJob and setJobState read the row and write it back later; row is what
\* a patch makes of it.  Without a state in the patch the state read is kept.
PatchJob(h, j, ticks, state) ==
  /\ Free(h)
  /\ jobs[j] # None
  /\ Goto(h, [Idle EXCEPT !.pc = "update", !.op = "replace", !.job = j,
                          !.row = [state |-> IF state = None THEN jobs[j].state ELSE state,
                                   ticks |-> ticks]])
  /\ UNCHANGED <<jobs, tickers, run, touched, turns>>

\* Mutant: resuming a job leaves its ticker stopped.
SetJobStateQuietly(h, j, state) ==
  /\ Free(h)
  /\ jobs[j] # None
  /\ Goto(h, [Idle EXCEPT !.pc = "update", !.op = "stop", !.job = j, !.row = [jobs[j] EXCEPT !.state = state]])
  /\ UNCHANGED <<jobs, tickers, run, touched, turns>>

SetJobState(h, j, state) ==
  /\ Free(h)
  /\ jobs[j] # None
  /\ Goto(h, [Idle EXCEPT !.pc = "update", !.op = IF state = "ENABLED" THEN "replace" ELSE "stop",
                          !.job = j, !.row = [jobs[j] EXCEPT !.state = state]])
  /\ UNCHANGED <<jobs, tickers, run, touched, turns>>

\* UPDATE by name: no effect on a job deleted meanwhile.
UpdateSchedulerJob(h) ==
  /\ At(h, "update")
  /\ jobs' = [jobs EXCEPT ![reg[h].job] = IF @ = None THEN None ELSE reg[h].row]
  /\ Goto(h, [reg[h] EXCEPT !.pc = reg[h].op])
  /\ UNCHANGED <<tickers, run, touched, turns>>

\* deleteJob stops the ticker before it deletes the row.
DeleteJob(h, j) ==
  /\ Free(h)
  /\ Goto(h, [Idle EXCEPT !.pc = "stop", !.op = "delete", !.job = j])
  /\ UNCHANGED <<jobs, tickers, run, touched, turns>>

DeleteSchedulerJob(h) ==
  /\ At(h, "delete")
  /\ jobs' = [jobs EXCEPT ![reg[h].job] = None]
  /\ Return(h)
  /\ UNCHANGED <<tickers, run, touched, turns>>

(***************************************************************************)
(* The map of tickers, under the mutex.                                    *)
(***************************************************************************)

\* stopTicker cancels the context of the goroutine and forgets it.
Cancelled(j) ==
  [k \in Ticker |-> IF k = tickers[j] THEN [run[k] EXCEPT !.cancelled = run[k].pc # "ended"] ELSE run[k]]

\* Mutant: the entry is removed, the goroutine goes on.
StopTickerForgets(h) ==
  /\ reg[h].pc \in {"stop", "replace"}
  /\ tickers' = [tickers EXCEPT ![reg[h].job] = None]
  /\ touched' = touched \cup {reg[h].job}
  /\ IF At(h, "replace") THEN Goto(h, [reg[h] EXCEPT !.pc = "get"])
     ELSE IF reg[h].op = "delete" THEN Goto(h, [reg[h] EXCEPT !.pc = "delete"])
     ELSE Return(h)
  /\ UNCHANGED <<jobs, run, turns>>

StopTicker(h) ==
  /\ reg[h].pc \in {"stop", "replace"}
  /\ run' = Cancelled(reg[h].job)
  /\ tickers' = [tickers EXCEPT ![reg[h].job] = None]
  /\ touched' = touched \cup {reg[h].job}
  /\ IF At(h, "replace") THEN Goto(h, [reg[h] EXCEPT !.pc = "get"])
     ELSE IF reg[h].op = "delete" THEN Goto(h, [reg[h] EXCEPT !.pc = "delete"])
     ELSE Return(h)
  /\ UNCHANGED <<jobs, turns>>

\* registerTicker: GetSchedulerJob decides whether there is anything to start.
ReadForTicker(h) ==
  /\ At(h, "get")
  /\ IF Active(reg[h].job) THEN Goto(h, [reg[h] EXCEPT !.pc = "start"]) ELSE Return(h)
  /\ UNCHANGED <<jobs, tickers, run, touched, turns>>

\* The entry of another handler that registered meanwhile is overwritten.
StartTicker(h) ==
  /\ At(h, "start")
  /\ \E k \in {k \in Ticker : run[k].pc = "ended" /\ \A j \in Job : tickers[j] # k} :
       /\ run' = [run EXCEPT ![k] = [pc |-> "waiting", job |-> reg[h].job, cancelled |-> FALSE]]
       /\ tickers' = [tickers EXCEPT ![reg[h].job] = k]
  /\ Return(h)
  /\ UNCHANGED <<jobs, touched, turns>>

(***************************************************************************)
(* The goroutine.                                                          *)
(***************************************************************************)

\* A tick.  When the context is done as well, select takes either case.
Tick(k) ==
  /\ run[k].pc = "waiting"
  /\ run' = [run EXCEPT ![k].pc = "reading"]
  /\ UNCHANGED <<jobs, tickers, reg, touched, turns>>

\* Mutant: the goroutine fires without reading the job again.
ReadAtTickAnyway(k) ==
  /\ run[k].pc = "reading"
  /\ run' = [run EXCEPT ![k].pc = "firing"]
  /\ UNCHANGED <<jobs, tickers, reg, touched, turns>>

\* GetSchedulerJob: a job that is gone or paused ends the goroutine, which
\* leaves its entry in the map.
ReadAtTick(k) ==
  /\ run[k].pc = "reading"
  /\ LET j == run[k].job
     IN  run' = [run EXCEPT ![k] = IF jobs[j] # None /\ jobs[j].state = "ENABLED"
                                   THEN [@ EXCEPT !.pc = "firing"] ELSE Ended]
  /\ UNCHANGED <<jobs, tickers, reg, touched, turns>>

\* fire: the attempt is marked and the targets are called; back to select.
Fire(k) ==
  /\ run[k].pc = "firing"
  /\ run' = [run EXCEPT ![k].pc = "waiting"]
  /\ UNCHANGED <<jobs, tickers, reg, touched, turns>>

Done(k) ==
  /\ run[k].pc = "waiting" /\ run[k].cancelled
  /\ run' = [run EXCEPT ![k] = Ended]
  /\ UNCHANGED <<jobs, tickers, reg, touched, turns>>

\* The process is killed and started again; nothing registers the stored jobs.
Restart ==
  /\ reg' = [h \in Handler |-> Idle]
  /\ run' = [k \in Ticker |-> Ended]
  /\ tickers' = [j \in Job |-> None]
  /\ touched' = {}
  /\ UNCHANGED <<jobs, turns>>

Request(h) ==
  \E j \in Job :
    \/ \E row \in Row : CreateJob(h, j, row)
    \/ \E ticks \in BOOLEAN, state \in {None, "ENABLED", "PAUSED"} : PatchJob(h, j, ticks, state)
    \/ \E state \in {"ENABLED", "PAUSED"} : SetJobState(h, j, state)
    \/ DeleteJob(h, j)

Step(h) ==
  \/ UpdateSchedulerJob(h) \/ DeleteSchedulerJob(h)
  \/ StopTicker(h) \/ ReadForTicker(h) \/ StartTicker(h)

Goroutine(k) == Tick(k) \/ ReadAtTick(k) \/ Fire(k) \/ Done(k)

Next ==
  \/ \E h \in Handler : Request(h) \/ Step(h)
  \/ \E k \in Ticker : Goroutine(k)
  \/ Restart

\* Goroutines are scheduled and time passes, so that handlers finish and tickers
\* tick; select is random, so a goroutine that is cancelled is not given a tick
\* forever.
Fairness ==
  /\ \A h \in Handler : WF_vars(Step(h))
  /\ \A k \in Ticker : WF_vars(Goroutine(k)) /\ SF_vars(Done(k))

Spec == Init /\ [][Next]_vars /\ Fairness

-----------------------------------------------------------------------------
(***************************************************************************)
(* Properties.                                                             *)
(***************************************************************************)

\* Rows, entries and goroutines fit together: what an entry cancels is a
\* goroutine of its job that nobody has cancelled yet, or one that has ended.
TypeOK ==
  /\ jobs \in [Job -> Row \cup {None}]
  /\ tickers \in [Job -> Ticker \cup {None}]
  /\ run \in [Ticker -> [pc : {"ended", "waiting", "reading", "firing"},
                         job : Job \cup {None}, cancelled : BOOLEAN]]
  /\ \A j \in Job : tickers[j] # None => ~run[tickers[j]].cancelled
  /\ \A h \in Handler : reg[h].pc # "idle" => reg[h].job \in Job
  /\ touched \subseteq Job /\ turns \in BOOLEAN

Going(j) == {k \in Ticker : run[k].pc # "ended" /\ run[k].job = j /\ ~run[k].cancelled}

\* While clients take turns and none is being served, a job that was written
\* since the process started has exactly one goroutine, the one its entry can
\* cancel, if it is enabled and periodic, and none otherwise.
TickersFollowJobs ==
  turns /\ (\A h \in Handler : At(h, "idle")) =>
    \A j \in touched : Going(j) = IF Active(j) THEN {tickers[j]} ELSE {}

\* An active job keeps being fired, once clients that take turns leave it so.
KeepsFiring ==
  \A j \in Job :
    <>[](turns /\ Active(j) /\ j \in touched /\ \A h \in Handler : At(h, "idle"))
      => []<>(\E k \in Ticker : run[k].job = j /\ run[k].pc = "firing")

\* Goroutines that concurrent handlers have lost track of read the job at each
\* tick: once a job stays paused or deleted, all of them end.
StrayTickersEnd ==
  \A j \in Job :
    <>[](jobs[j] = None \/ jobs[j].state = "PAUSED")
      => <>[](\A k \in Ticker : run[k].job = j => run[k].pc = "ended")
=============================================================================
