------------------------------ MODULE CronRunner ------------------------------
(***************************************************************************)
(* How a cron runs: the periodic tick and Procrastinate's job, the pause   *)
(* toggle, the per-cron advisory lock shared by scheduled and manual runs, *)
(* the cron_run row that is opened before and closed after the runner, and *)
(* what "Run now" answers (ops/recorder.py, ops/service.py, the truncate   *)
(* button of ops/data_reset.py).                                           *)
(*                                                                         *)
(* The runner itself is a choice of outcome.  cron_run.id is the position  *)
(* in runs; job_id is the Procrastinate job for a scheduled run and a      *)
(* fresh uuid for a manual one, so only the former can collide.            *)
(***************************************************************************)
EXTENDS Naturals, Sequences, FiniteSets

CONSTANTS
  Crons,         \* names of the registry
  Workers,       \* job slots of the Procrastinate worker
  Operators,     \* "Run now" requests, run inline by the web tier
  Jobs,          \* Procrastinate job ids
  MaxAttempts,   \* attempts after which the retry strategy gives a job up
  MaxRuns,       \* bound of the model: cron_run rows plus runs under way
  Faults,        \* which of FaultKinds the environment may exercise
  None           \* nobody

Procs == Workers \cup Operators

FaultKinds == {"crash",      \* a process dies between two steps
               "db",         \* a statement outside the runner fails
               "truncate"}   \* an operator truncates cron_run

ASSUME CronAssumption ==
  /\ MaxAttempts \in Nat
  /\ MaxRuns \in Nat
  /\ Faults \subseteq FaultKinds
  /\ None \notin Procs \cup Crons \cup Jobs
  /\ Workers \cap Operators = {}
  /\ Jobs \cap Operators = {}

VARIABLES
  enabled,    \* enabled[c]: the cron_schedule row of c, TRUE when absent
  job,        \* job[j]: the Procrastinate job j
  lock,       \* lock[c]: holder of pg_try_advisory_lock(_advisory_key(c))
  left,       \* crons whose lock an idle connection of a pool still holds
  runs,       \* the cron_run table
  pc,         \* pc[p]: where process p is
  task,       \* task[p]: the cron p runs and the job_id it runs it under
  run,        \* run[p]: the id of p's cron_run row, 0 before it has one
  result,     \* result[p]: what p's run raised, or "ok"
  answer,     \* answer[o]: whose row o's last trigger returned
  paused      \* history: p's cron was off when p's job was picked, and ever since

procVars == <<pc, task, run, result>>
vars == <<enabled, job, lock, left, runs, procVars, answer, paused>>

JobStates == {"unused", "todo", "doing", "done", "failed"}
RunStates == {"running", "success", "failed"}
Results   == {"ok",        \* returned
              "retry",     \* TimeoutError or RateLimitExceeded: retryable
              "fatal"}     \* anything else
Answers   == {"none", "rejected", "own", "other", "nothing"}
PCs       == {"idle", "gate", "lock", "open", "body", "close", "unlock"}

JobType == [cron: Crons, state: JobStates, attempts: 0 .. MaxAttempts]
RunType == [cron: Crons, job: Jobs \cup Operators, status: RunStates]
NoTask   == [cron |-> None, job |-> None]
TaskType == [cron: Crons \cup {None}, job: Jobs \cup Operators \cup {None}]

Init ==
  /\ enabled = [c \in Crons |-> TRUE]
  /\ job \in [Jobs -> {[cron |-> c, state |-> "unused", attempts |-> 0] : c \in Crons}]
  /\ lock = [c \in Crons |-> None]
  /\ left = {}
  /\ runs = <<>>
  /\ pc = [p \in Procs |-> "idle"]
  /\ task = [p \in Procs |-> NoTask]
  /\ run = [p \in Procs |-> 0]
  /\ result = [p \in Procs |-> "ok"]
  /\ answer = [o \in Operators |-> "none"]
  /\ paused = [p \in Procs |-> FALSE]

-------------------------------------------------------------------------------
(***************************************************************************)
(* Starting: the periodic tick, a picked job, an operator's click.         *)
(***************************************************************************)

\* queueing_lock: the tick is dropped while a job of the cron is todo.
Queued(c) == \E j \in Jobs : job[j].cron = c /\ job[j].state = "todo"

PeriodicTick(j) ==
  /\ job[j].state = "unused"
  /\ ~ Queued(job[j].cron)
  /\ job' = [job EXCEPT ![j].state = "todo"]
  /\ UNCHANGED <<enabled, lock, left, runs, procVars, answer, paused>>

Goto(p, step) == pc' = [pc EXCEPT ![p] = step]

\* The run is over for p, which keeps nothing of it.
Leave(p) ==
  /\ Goto(p, "idle")
  /\ task' = [task EXCEPT ![p] = NoTask]
  /\ run' = [run EXCEPT ![p] = 0]
  /\ result' = [result EXCEPT ![p] = "ok"]
  /\ paused' = [paused EXCEPT ![p] = FALSE]

Stay(p, step) ==
  /\ Goto(p, step)
  /\ UNCHANGED <<task, run, result, paused>>

Room == Len(runs) + Cardinality({ p \in Procs : pc[p] # "idle" }) < MaxRuns

Start(p, c, j, step) ==
  /\ pc[p] = "idle"
  /\ Room
  /\ Goto(p, step)
  /\ task' = [task EXCEPT ![p] = [cron |-> c, job |-> j]]
  /\ UNCHANGED <<run, result>>

PickJob(k, j) ==
  /\ job[j].state = "todo"
  /\ Start(k, job[j].cron, j, "gate")
  /\ job' = [job EXCEPT ![j].state = "doing"]
  /\ paused' = [paused EXCEPT ![k] = ~ enabled[job[j].cron]]
  /\ UNCHANGED <<enabled, lock, left, runs, answer>>

\* A manual run bypasses the pause gate.
Trigger(o, c) ==
  /\ Start(o, c, o, "lock")
  /\ answer' = [answer EXCEPT ![o] = "none"]
  /\ UNCHANGED <<enabled, job, lock, left, runs, paused>>

\* Procrastinate books the end of k's job; only a retryable error is retried,
\* under the same job id.  A retry that finds another job queued is not put back.
FinishJob(k, res) ==
  LET j == task[k].job
      again == res = "retry" /\ job[j].attempts < MaxAttempts /\ ~ Queued(job[j].cron)
  IN job' = [job EXCEPT ![j].state = IF res = "ok" THEN "done"
                                     ELSE IF again THEN "todo" ELSE "failed",
                        ![j].attempts = IF again THEN @ + 1 ELSE @]

-------------------------------------------------------------------------------
(***************************************************************************)
(* The gate, the lock, the row, the runner.                                *)
(***************************************************************************)

\* The reading of enabled fails open, and is not repeated.
GateIgnored(k) ==
  /\ pc[k] = "gate"
  /\ Goto(k, "lock")
  /\ UNCHANGED <<enabled, job, lock, left, runs, task, run, result, answer, paused>>

Gate(k) ==
  /\ pc[k] = "gate"
  /\ \/ /\ enabled[task[k].cron] \/ "db" \in Faults
        /\ Stay(k, "lock")
        /\ UNCHANGED job
     \/ /\ ~ enabled[task[k].cron]
        /\ Leave(k)
        /\ FinishJob(k, "ok")
  /\ UNCHANGED <<enabled, lock, left, runs, answer>>

\* The scheduled path asked pg_try_advisory_lock, the manual one did not.
TryLockScheduledOnly(p) ==
  /\ pc[p] = "lock"
  /\ p \in Workers => lock[task[p].cron] = None
  /\ lock' = [lock EXCEPT ![task[p].cron] = p]
  /\ Goto(p, "open")
  /\ UNCHANGED <<enabled, job, left, runs, task, run, result, answer, paused>>

\* A refused tick is skipped and its job is done; a refused operator gets 409.
\* A lock that was left behind is granted again to the connection that holds it,
\* if the pool hands out that one, and refused to every other.
TryLock(p) ==
  LET c == task[p].cron
  IN /\ pc[p] = "lock"
     /\ \/ /\ lock[c] = None
           /\ lock' = [lock EXCEPT ![c] = p]
           /\ Stay(p, "open")
           /\ UNCHANGED <<job, answer>>
        \/ /\ lock[c] # None \/ c \in left
           /\ Leave(p)
           /\ UNCHANGED lock
           /\ IF p \in Workers
              THEN FinishJob(p, "ok") /\ UNCHANGED answer
              ELSE answer' = [answer EXCEPT ![p] = "rejected"] /\ UNCHANGED job
     /\ UNCHANGED <<enabled, left, runs>>

\* The lock query itself fails: nothing was taken, the job or the request fails.
LockQueryFails(p) ==
  /\ "db" \in Faults
  /\ pc[p] = "lock"
  /\ Leave(p)
  /\ IF p \in Workers THEN FinishJob(p, "fatal") ELSE UNCHANGED job
  /\ UNCHANGED <<enabled, lock, left, runs, answer>>

NewRun(p) == [cron |-> task[p].cron, job |-> task[p].job, status |-> "running"]

\* ix_cron_run_job_id is unique.
Clash(j) == j \in Jobs /\ \E i \in DOMAIN runs : runs[i].job = j

Fail(p) == result' = [result EXCEPT ![p] = "fatal"]

OpenRun(p) ==
  /\ pc[p] = "open"
  /\ \/ /\ ~ Clash(task[p].job)
        /\ runs' = Append(runs, NewRun(p))
        /\ run' = [run EXCEPT ![p] = Len(runs) + 1]
        /\ Goto(p, "body")
        /\ UNCHANGED result
     \/ /\ Clash(task[p].job) \/ "db" \in Faults
        /\ Fail(p)
        /\ Goto(p, "unlock")
        /\ UNCHANGED <<runs, run>>
  /\ UNCHANGED <<enabled, job, lock, left, task, answer, paused>>

RunBody(p, res) ==
  /\ pc[p] = "body"
  /\ result' = [result EXCEPT ![p] = res]
  /\ Goto(p, "close")
  /\ UNCHANGED <<enabled, job, lock, left, runs, task, run, answer, paused>>

\* The error path forgot to write the row back.
CloseRunOnSuccess(p) ==
  /\ pc[p] = "close"
  /\ runs' = IF result[p] = "ok" THEN [runs EXCEPT ![run[p]].status = "success"] ELSE runs
  /\ Goto(p, "unlock")
  /\ UNCHANGED <<enabled, job, lock, left, task, run, result, answer, paused>>

\* The latest row was closed, instead of the one this run opened.
CloseLatestRun(p) ==
  /\ pc[p] = "close"
  /\ runs' = [runs EXCEPT ![Len(runs)].status =
                IF result[p] = "ok" THEN "success" ELSE "failed"]
  /\ Goto(p, "unlock")
  /\ UNCHANGED <<enabled, job, lock, left, task, run, result, answer, paused>>

\* session.get(CronRun, run_id), then close_run.  A missing row, or a database
\* error, takes the place of whatever the runner returned or raised.
CloseRun(p) ==
  /\ pc[p] = "close"
  /\ \/ /\ run[p] \in DOMAIN runs
        /\ runs' = [runs EXCEPT ![run[p]].status =
                      IF result[p] = "ok" THEN "success" ELSE "failed"]
        /\ UNCHANGED result
     \/ /\ run[p] \notin DOMAIN runs \/ "db" \in Faults
        /\ Fail(p)
        /\ UNCHANGED runs
  /\ Goto(p, "unlock")
  /\ UNCHANGED <<enabled, job, lock, left, task, run, answer, paused>>

LatestOfAny(c) == Len(runs)

Latest(c) == LET ids == { i \in DOMAIN runs : runs[i].cron = c }
             IN IF ids = {} THEN 0 ELSE CHOOSE i \in ids : \A k \in ids : k <= i

\* trigger swallows the error and answers with _latest_run, before it unlocks.
AnswerOf(o) ==
  LET i == IF result[o] = "ok" THEN run[o] ELSE Latest(task[o].cron)
  IN IF i = 0 THEN "nothing" ELSE IF i = run[o] THEN "own" ELSE "other"

\* The error path forgot to unlock.
UnlockOnSuccess(p) ==
  /\ pc[p] = "unlock"
  /\ Leave(p)
  /\ lock' = IF result[p] = "ok" THEN [lock EXCEPT ![task[p].cron] = None] ELSE lock
  /\ IF p \in Workers
     THEN FinishJob(p, result[p]) /\ UNCHANGED answer
     ELSE answer' = [answer EXCEPT ![p] = AnswerOf(p)] /\ UNCHANGED job
  /\ UNCHANGED <<enabled, left, runs>>

\* pg_advisory_unlock in the finally block; then the job ends or the answer is
\* sent.  A lock granted twice to one connection has to be given back twice.
Unlock(p) ==
  /\ pc[p] = "unlock"
  /\ Leave(p)
  /\ lock' = [lock EXCEPT ![task[p].cron] = None]
  /\ IF p \in Workers
     THEN FinishJob(p, result[p]) /\ UNCHANGED answer
     ELSE answer' = [answer EXCEPT ![p] = AnswerOf(p)] /\ UNCHANGED job
  /\ UNCHANGED <<enabled, left, runs>>

\* The unlock raises, which replaces the result or the answer.  The lock is the
\* connection's: it goes with a connection that broke, and stays with one that
\* goes back to the pool.
UnlockFails(p) ==
  /\ "db" \in Faults
  /\ pc[p] = "unlock"
  /\ Leave(p)
  /\ lock' = [lock EXCEPT ![task[p].cron] = None]
  /\ left' \in {left, left \cup {task[p].cron}}
  /\ IF p \in Workers THEN FinishJob(p, "fatal") ELSE UNCHANGED job
  /\ UNCHANGED <<enabled, runs, answer>>

\* pool_recycle: the pool replaces a connection of that age when it is next
\* asked for it, and the lock ends with the connection.
Recycle(c) ==
  /\ c \in left
  /\ lock[c] = None
  /\ left' = left \ {c}
  /\ UNCHANGED <<enabled, job, lock, runs, procVars, answer, paused>>

-------------------------------------------------------------------------------
(***************************************************************************)
(* Operators and failures.                                                 *)
(***************************************************************************)

\* The toggle of /ops/crons.
SetEnabled(c, on) ==
  /\ enabled' = [enabled EXCEPT ![c] = on]
  /\ paused' = [p \in Procs |-> paused[p] /\ ~ (on /\ task[p].cron = c)]
  /\ UNCHANGED <<job, lock, left, runs, procVars, answer>>

\* TRUNCATE ... RESTART IDENTITY: the next row has id 1 again.
Truncate ==
  /\ "truncate" \in Faults
  /\ runs' = <<>>
  /\ UNCHANGED <<enabled, job, lock, left, procVars, answer, paused>>

\* The connection that held the lock dies with the process; a worker's job
\* stays "doing", and nothing ever comes back to it or to its cron_run row.
Crash(p) ==
  /\ "crash" \in Faults
  /\ pc[p] # "idle"
  /\ Leave(p)
  /\ lock' = [c \in Crons |-> IF lock[c] = p THEN None ELSE lock[c]]
  /\ left' = { c \in left : lock[c] # p }
  /\ UNCHANGED <<enabled, job, runs, answer>>

-------------------------------------------------------------------------------
RunStep(p) ==
  \/ TryLock(p)
  \/ LockQueryFails(p)
  \/ OpenRun(p)
  \/ \E res \in Results : RunBody(p, res)
  \/ CloseRun(p)
  \/ Unlock(p)
  \/ UnlockFails(p)

Next ==
  \/ \E j \in Jobs : PeriodicTick(j)
  \/ \E k \in Workers, j \in Jobs : PickJob(k, j)
  \/ \E k \in Workers : Gate(k)
  \/ \E o \in Operators, c \in Crons : Trigger(o, c)
  \/ \E p \in Procs : RunStep(p) \/ Crash(p)
  \/ \E c \in Crons, on \in BOOLEAN : SetEnabled(c, on)
  \/ \E c \in Crons : Recycle(c)
  \/ Truncate

Spec == Init /\ [][Next]_vars

\* A started run goes on; an idle slot picks a queued job; a pool hands its
\* connections out in turn, so an old one is replaced even if it is in use at times.
Fairness ==
  /\ \A k \in Workers : WF_vars(Gate(k)) /\ WF_vars(\E j \in Jobs : PickJob(k, j))
  /\ \A p \in Procs : WF_vars(RunStep(p))
  /\ \A c \in Crons : SF_vars(Recycle(c))

FairSpec == Spec /\ Fairness

-------------------------------------------------------------------------------
(***************************************************************************)
(* Properties.                                                             *)
(***************************************************************************)

\* Every variable stays in its type.
TypeOK ==
  /\ enabled \in [Crons -> BOOLEAN]
  /\ job \in [Jobs -> JobType]
  /\ lock \in [Crons -> Procs \cup {None}]
  /\ left \subseteq Crons
  /\ runs \in Seq(RunType)
  /\ pc \in [Procs -> PCs]
  /\ task \in [Procs -> TaskType]
  /\ run \in [Procs -> Nat]
  /\ result \in [Procs -> Results]
  /\ answer \in [Operators -> Answers]
  /\ paused \in [Procs -> BOOLEAN]

Holding(p) == pc[p] \in {"open", "body", "close", "unlock"}

\* Two runners of one cron never overlap, whether started by the schedule, a
\* retry or an operator, and whichever of them die.
OneRunPerCron ==
  \A p, q \in Procs :
    Holding(p) /\ Holding(q) /\ task[p].cron = task[q].cron => p = q

\* p is executing the run recorded in row i.
Executing(p, i) == pc[p] \in {"body", "close"} /\ run[p] = i

\* /ops/crons shows a cron as running, and disables its Run button, exactly
\* while somebody runs it: every opened row is closed, on success and on error,
\* by the process that opened it, before that process lets go of the lock.
RunningIsTrue ==
  \A i \in DOMAIN runs : runs[i].status = "running" =>
    \E p \in Procs : Executing(p, i) /\ lock[runs[i].cron] = p

\* A row is closed only by the run that opened it.
ClosesOwnRun ==
  [][\A i \in DOMAIN runs \cap DOMAIN runs' :
       runs[i].status = "running" /\ runs'[i].status # "running" =>
         \E p \in Procs :
           Executing(p, i) /\ pc'[p] # pc[p] /\ runs[i].job = task[p].job]_vars

\* A closed row is history: no later run, retry or crash rewrites its outcome.
HistoryIsFinal ==
  [][\A i \in DOMAIN runs \cap DOMAIN runs' :
       runs[i].status # "running" => runs'[i] = runs[i]]_vars

\* A tick picked up after the operator paused the cron, and while it stays
\* paused, touches neither the lock nor cron_run.
PauseHonoured == \A k \in Workers : paused[k] => pc[k] \in {"idle", "gate"}

\* recorder.py: "The job's row ID is unique per attempt": an attempt that was
\* given the lock can open its cron_run row.
AttemptCanOpen == \A p \in Procs : pc[p] = "open" => ~ Clash(task[p].job)

\* trigger answers with the row of the run it made ("error already recorded").
AnswersWithOwnRun == \A o \in Operators : answer[o] # "other"

\* The next run of c can have the lock.
Free(c) == lock[c] = None /\ c \notin left

\* A lock that was taken is free again some time later, whatever the runner or the
\* database does and however often operators and ticks compete for it: the run
\* ends and unlocks, or its connection breaks, or the pool replaces it.
LockReturned == \A c \in Crons : ~ Free(c) ~> Free(c)
===============================================================================
