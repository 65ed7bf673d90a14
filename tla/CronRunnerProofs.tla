--------------------------- MODULE CronRunnerProofs ---------------------------
(***************************************************************************)
(* What holds of the cron runner for every registry, number of workers,    *)
(* operators and jobs, retry limit and length of the cron_run table.       *)
(*                                                                         *)
(* Layers: types and set tasks; the lock of a cron is held by the process  *)
(* that runs it; a process that executes has its own open row, which needs *)
(* that nobody truncates cron_run; then what the console may rely on:      *)
(* pauses, rows that say running, and the row a manual run is answered     *)
(* with, each under the faults its theorem excludes.                       *)
(***************************************************************************)
EXTENDS CronRunner, SequenceTheorems, TLAPS

\* A process that is not idle runs a cron of the registry under a job id.
TaskSet(p) == /\ task[p] \in [cron: Crons, job: Jobs \cup Operators]
              /\ p \in Workers => task[p].job \in Jobs

TypeInv == TypeOK /\ \A p \in Procs : pc[p] # "idle" => TaskSet(p)

LEMMA FinishJobType ==
  ASSUME TypeOK, NEW k, NEW res, FinishJob(k, res)
  PROVE  job' \in [Jobs -> JobType]
<1> DEFINE j == task[k].job
           again == res = "retry" /\ job[j].attempts < MaxAttempts /\ ~ Queued(job[j].cron)
           st == IF res = "ok" THEN "done" ELSE IF again THEN "todo" ELSE "failed"
           n == IF again THEN job[j].attempts + 1 ELSE job[j].attempts
<1>1. job' = [job EXCEPT ![j] = [job[j] EXCEPT !.state = st, !.attempts = n]]
  BY DEF FinishJob, TypeOK, JobType
<1>2. CASE j \in Jobs
  <2>1. job[j] \in JobType
    BY <1>2 DEF TypeOK
  <2>2. n \in 0 .. MaxAttempts
    BY <2>1, CronAssumption DEF JobType
  <2>3. [job[j] EXCEPT !.state = st, !.attempts = n] \in JobType
    BY <2>1, <2>2 DEF JobType, JobStates
  <2> QED
    BY <1>1, <1>2, <2>3 DEF TypeOK
<1>3. CASE j \notin Jobs
  BY <1>1, <1>3 DEF TypeOK
<1> QED
  BY <1>2, <1>3

LEMMA LeaveType ==
  ASSUME TypeOK, NEW p \in Procs, Leave(p)
  PROVE  /\ pc' \in [Procs -> PCs]
         /\ task' \in [Procs -> TaskType]
         /\ run' \in [Procs -> Nat]
         /\ result' \in [Procs -> Results]
         /\ paused' \in [Procs -> BOOLEAN]
BY DEF TypeOK, Leave, Goto, PCs, TaskType, NoTask, Results

LEMMA StayType ==
  ASSUME TypeOK, NEW p \in Procs, NEW step \in PCs, Stay(p, step)
  PROVE  /\ pc' \in [Procs -> PCs]
         /\ task' \in [Procs -> TaskType]
         /\ run' \in [Procs -> Nat]
         /\ result' \in [Procs -> Results]
         /\ paused' \in [Procs -> BOOLEAN]
BY DEF TypeOK, Stay, Goto

\* A cron_run row that is closed stays a row.
LEMMA CloseType ==
  ASSUME NEW rs \in Seq(RunType), NEW i, NEW st \in RunStates
  PROVE  [rs EXCEPT ![i].status = st] \in Seq(RunType)
<1>1. CASE i \in DOMAIN rs
  <2>1. rs[i] \in RunType
    BY <1>1, ElementOfSeq
  <2>2. [rs[i] EXCEPT !.status = st] \in RunType
    BY <2>1 DEF RunType
  <2> QED
    BY <1>1, <2>2, ExceptSeq
<1>2. CASE i \notin DOMAIN rs
  <2>1. [rs EXCEPT ![i].status = st] = rs
    BY <1>2
  <2> QED
    BY <2>1
<1> QED
  BY <1>1, <1>2
LEMMA TypeStep == TypeInv /\ [Next]_vars => TypeInv'
<1> SUFFICES ASSUME TypeInv, [Next]_vars PROVE TypeInv'
  OBVIOUS
<1> USE DEF TypeInv
<1>1. ASSUME NEW p \in Procs, NEW step \in PCs, pc[p] # "idle", Stay(p, step)
      PROVE  \A q \in Procs : pc'[q] # "idle" => TaskSet(q)'
  BY <1>1 DEF TypeOK, Stay, Goto, TaskSet
<1>2. ASSUME NEW p \in Procs, Leave(p)
      PROVE  \A q \in Procs : pc'[q] # "idle" => TaskSet(q)'
  BY <1>2 DEF TypeOK, Leave, Goto, TaskSet
<1>3. ASSUME NEW p \in Procs, NEW step \in PCs, pc[p] # "idle", Goto(p, step), UNCHANGED task
      PROVE  /\ pc' \in [Procs -> PCs]
             /\ \A q \in Procs : pc'[q] # "idle" => TaskSet(q)'
  BY <1>3 DEF TypeOK, Goto, TaskSet
<1>4. ASSUME NEW j \in Jobs, PeriodicTick(j) PROVE TypeInv'
  <2>1. job[j] \in JobType
    BY DEF TypeOK
  <2>2. [job[j] EXCEPT !.state = "todo"] \in JobType
    BY <2>1 DEF JobType, JobStates
  <2> QED
    BY <1>4, <2>2 DEF PeriodicTick, TypeOK, procVars, TaskSet
<1>5. ASSUME NEW k \in Workers, NEW j \in Jobs, PickJob(k, j) PROVE TypeInv'
  <2>1. job[j] \in JobType /\ k \in Procs
    BY DEF TypeOK, Procs
  <2>2. [job[j] EXCEPT !.state = "doing"] \in JobType /\ job[j].cron \in Crons
    BY <2>1 DEF JobType, JobStates
  <2>3. job' \in [Jobs -> JobType] /\ paused' \in [Procs -> BOOLEAN]
    BY <1>5, <2>1, <2>2 DEF PickJob, TypeOK
  <2>4. /\ pc' \in [Procs -> PCs]
        /\ task' \in [Procs -> TaskType]
        /\ \A q \in Procs : pc'[q] # "idle" => TaskSet(q)'
    BY <1>5, <2>1, <2>2 DEF PickJob, Start, Goto, TypeOK, PCs, TaskType, TaskSet
  <2> QED
    BY <1>5, <2>3, <2>4 DEF PickJob, Start, TypeOK
<1>6. ASSUME NEW o \in Operators, NEW c \in Crons, Trigger(o, c) PROVE TypeInv'
  <2>1. o \in Procs /\ o \notin Workers
    BY CronAssumption DEF Procs
  <2>2. /\ pc' \in [Procs -> PCs]
        /\ task' \in [Procs -> TaskType]
        /\ \A q \in Procs : pc'[q] # "idle" => TaskSet(q)'
    BY <1>6, <2>1 DEF Trigger, Start, Goto, TypeOK, PCs, TaskType, TaskSet
  <2> QED
    BY <1>6, <2>2 DEF Trigger, Start, TypeOK, Answers
<1>7. ASSUME NEW k \in Workers, Gate(k) PROVE TypeInv'
  <2>1. k \in Procs
    BY DEF Procs
  <2>2. CASE Stay(k, "lock") /\ UNCHANGED job
    BY <1>1, <1>7, <2>1, <2>2, StayType DEF Gate, TypeOK, PCs
  <2>3. CASE Leave(k) /\ FinishJob(k, "ok")
    BY <1>2, <1>7, <2>1, <2>3, LeaveType, FinishJobType DEF Gate, TypeOK
  <2> QED
    BY <1>7, <2>2, <2>3 DEF Gate
<1>8. ASSUME NEW p \in Procs, TryLock(p) PROVE TypeInv'
  <2>1. CASE /\ Stay(p, "open") /\ lock' = [lock EXCEPT ![task[p].cron] = p]
             /\ UNCHANGED <<job, answer>>
    BY <1>1, <1>8, <2>1, StayType DEF TryLock, TypeOK, PCs
  <2>2. CASE /\ Leave(p) /\ UNCHANGED lock
             /\ IF p \in Workers
                THEN FinishJob(p, "ok") /\ UNCHANGED answer
                ELSE answer' = [answer EXCEPT ![p] = "rejected"] /\ UNCHANGED job
    <3>1. job' \in [Jobs -> JobType] /\ answer' \in [Operators -> Answers]
      BY <2>2, FinishJobType DEF TypeOK, Answers
    <3> QED
      BY <1>2, <1>8, <2>2, <3>1, LeaveType DEF TryLock, TypeOK
  <2> QED
    BY <1>8, <2>1, <2>2 DEF TryLock
<1>9. ASSUME NEW p \in Procs, LockQueryFails(p) PROVE TypeInv'
  <2>1. job' \in [Jobs -> JobType]
    BY <1>9, FinishJobType DEF LockQueryFails, TypeOK
  <2> QED
    BY <1>2, <1>9, <2>1, LeaveType DEF LockQueryFails, TypeOK
<1>10. ASSUME NEW p \in Procs, OpenRun(p) PROVE TypeInv'
  <2>1. NewRun(p) \in RunType
    BY <1>10 DEF OpenRun, NewRun, RunType, RunStates, TaskSet
  <2>2. runs' \in Seq(RunType) /\ run' \in [Procs -> Nat]
    <3>1. runs \in Seq(RunType) /\ run \in [Procs -> Nat]
      BY DEF TypeOK
    <3>2. Append(runs, NewRun(p)) \in Seq(RunType) /\ Len(runs) + 1 \in Nat
      BY <2>1, <3>1, AppendProperties, LenProperties
    <3> QED
      BY <1>10, <3>1, <3>2 DEF OpenRun
  <2>3. result' \in [Procs -> Results]
    BY <1>10 DEF OpenRun, Fail, TypeOK, Results
  <2>4. /\ pc' \in [Procs -> PCs]
        /\ \A q \in Procs : pc'[q] # "idle" => TaskSet(q)'
    BY <1>3, <1>10 DEF OpenRun, PCs
  <2> QED
    BY <1>10, <2>2, <2>3, <2>4 DEF OpenRun, TypeOK
<1>11. ASSUME NEW p \in Procs, NEW res \in Results, RunBody(p, res) PROVE TypeInv'
  <2>1. /\ pc' \in [Procs -> PCs]
        /\ \A q \in Procs : pc'[q] # "idle" => TaskSet(q)'
    BY <1>3, <1>11 DEF RunBody, PCs
  <2> QED
    BY <1>11, <2>1 DEF RunBody, TypeOK
<1>12. ASSUME NEW p \in Procs, CloseRun(p) PROVE TypeInv'
  <2>1. runs' \in Seq(RunType)
    <3> DEFINE st == IF result[p] = "ok" THEN "success" ELSE "failed"
    <3>1. runs \in Seq(RunType) /\ st \in RunStates
      BY DEF TypeOK, RunStates
    <3>2. [runs EXCEPT ![run[p]].status = st] \in Seq(RunType)
      BY <3>1, CloseType
    <3> QED
      BY <1>12, <3>1, <3>2 DEF CloseRun
  <2>2. /\ pc' \in [Procs -> PCs]
        /\ \A q \in Procs : pc'[q] # "idle" => TaskSet(q)'
    BY <1>3, <1>12 DEF CloseRun, PCs
  <2>3. result' \in [Procs -> Results]
    BY <1>12 DEF CloseRun, Fail, TypeOK, Results
  <2> QED
    BY <1>12, <2>1, <2>2, <2>3 DEF CloseRun, TypeOK
<1>13. ASSUME NEW p \in Procs, Unlock(p) PROVE TypeInv'
  <2>1. job' \in [Jobs -> JobType]
    BY <1>13, FinishJobType DEF Unlock, TypeOK
  <2>2. answer' \in [Operators -> Answers]
    BY <1>13 DEF Unlock, TypeOK, Answers, AnswerOf
  <2>3. lock' \in [Crons -> Procs \cup {None}]
    BY <1>13 DEF Unlock, TypeOK
  <2> QED
    BY <1>2, <1>13, <2>1, <2>2, <2>3, LeaveType DEF Unlock, TypeOK
<1>18. ASSUME NEW p \in Procs, UnlockFails(p) PROVE TypeInv'
  <2>1. job' \in [Jobs -> JobType]
    BY <1>18, FinishJobType DEF UnlockFails, TypeOK
  <2>2. lock' \in [Crons -> Procs \cup {None}]
    BY <1>18 DEF UnlockFails, TypeOK
  <2>3. left' \subseteq Crons
    BY <1>18 DEF UnlockFails, TypeOK, TaskSet
  <2> QED
    BY <1>2, <1>18, <2>1, <2>2, <2>3, LeaveType DEF UnlockFails, TypeOK
<1>19. ASSUME NEW c \in Crons, Recycle(c) PROVE TypeInv'
  BY <1>19 DEF Recycle, TypeOK, procVars, TaskSet
<1>14. ASSUME NEW p \in Procs, Crash(p) PROVE TypeInv'
  <2>1. lock' \in [Crons -> Procs \cup {None}]
    BY <1>14 DEF Crash, TypeOK
  <2> QED
    BY <1>2, <1>14, <2>1, LeaveType DEF Crash, TypeOK
<1>15. ASSUME NEW c \in Crons, NEW on \in BOOLEAN, SetEnabled(c, on) PROVE TypeInv'
  BY <1>15 DEF SetEnabled, TypeOK, procVars, TaskSet
<1>16. CASE Truncate
  BY <1>16, EmptySeq DEF Truncate, TypeOK, procVars, TaskSet
<1>17. CASE UNCHANGED vars
  BY <1>17 DEF vars, procVars, TypeOK, TaskSet
<1> QED
  BY <1>4, <1>5, <1>6, <1>7, <1>8, <1>9, <1>10, <1>11, <1>12, <1>13, <1>14, <1>15,
     <1>16, <1>17, <1>18, <1>19 DEF Next, RunStep

LEMMA TypeInvariant == Spec => []TypeInv
<1>1. Init => TypeInv
  BY CronAssumption, EmptySeq
     DEF Init, TypeInv, TypeOK, JobType, JobStates, TaskType, NoTask, PCs, Results, Answers
<1> QED
  BY <1>1, TypeStep, PTL DEF Spec

\* Every reachable state is type-correct: no process outside of idle is without
\* a cron and a job id, and no job is retried beyond the limit.
THEOREM TypeCorrect == Spec => []TypeOK
<1>1. TypeInv => TypeOK
  BY DEF TypeInv
<1> QED
  BY <1>1, TypeInvariant, PTL
-------------------------------------------------------------------------------
(* The lock of a cron. *)

\* The lock of a cron is held by the process that is running it, and by nobody
\* else.
LockOK ==
  \A p \in Procs :
    /\ Holding(p) => lock[task[p].cron] = p
    /\ \A c \in Crons : lock[c] = p => Holding(p) /\ task[p].cron = c

\* A step of p outside of its critical section, or inside of it.
LEMMA LockKept ==
  ASSUME LockOK, UNCHANGED lock, NEW p \in Procs,
         Holding(p)' <=> Holding(p),
         Holding(p) => task'[p].cron = task[p].cron,
         \A q \in Procs \ {p} : pc'[q] = pc[q] /\ task'[q] = task[q]
  PROVE  LockOK'
BY DEF LockOK, Holding

LEMMA LockStep == TypeInv /\ LockOK /\ [Next]_vars => LockOK'
<1> SUFFICES ASSUME TypeInv, LockOK, [Next]_vars PROVE LockOK'
  OBVIOUS
<1> USE DEF TypeInv
<1>1. CASE UNCHANGED <<lock, pc, task>>
  BY <1>1 DEF LockOK, Holding
<1>2. ASSUME NEW p \in Procs, ~ Holding(p), UNCHANGED lock,
             pc'[p] \in {"idle", "gate", "lock"},
             \A q \in Procs \ {p} : pc'[q] = pc[q] /\ task'[q] = task[q]
      PROVE  LockOK'
  BY <1>2, LockKept DEF Holding
<1>3. ASSUME NEW p \in Procs, Holding(p), UNCHANGED <<lock, task>>,
             NEW step \in {"body", "close", "unlock"}, Goto(p, step)
      PROVE  LockOK'
  BY <1>3, LockKept DEF TypeOK, Goto, Holding
<1>4. ASSUME NEW p \in Procs, Leave(p), lock' = [c \in Crons |-> IF lock[c] = p THEN None ELSE lock[c]]
      PROVE  LockOK'
  <2>1. pc'[p] = "idle" /\ \A q \in Procs \ {p} : pc'[q] = pc[q] /\ task'[q] = task[q]
    BY <1>4 DEF TypeOK, Leave, Goto
  <2>2. \A c \in Crons : lock'[c] # p
    BY <1>4, CronAssumption
  <2>3. ASSUME NEW q \in Procs \ {p}, Holding(q) PROVE lock'[task[q].cron] = q
    <3>1. lock[task[q].cron] = q /\ task[q].cron \in Crons
      BY <2>3 DEF LockOK, TaskSet, Holding
    <3> QED
      BY <1>4, <2>3, <3>1
  <2>4. ASSUME NEW q \in Procs \ {p}, NEW c \in Crons, lock'[c] = q PROVE lock[c] = q
    BY <1>4, <2>4, CronAssumption
  <2> QED
    BY <2>1, <2>2, <2>3, <2>4 DEF LockOK, Holding
<1>5. ASSUME NEW k \in Workers, NEW j \in Jobs, PickJob(k, j) PROVE LockOK'
  BY <1>2, <1>5 DEF PickJob, Start, Goto, TypeOK, Procs, Holding
<1>6. ASSUME NEW o \in Operators, NEW c \in Crons, Trigger(o, c) PROVE LockOK'
  BY <1>2, <1>6 DEF Trigger, Start, Goto, TypeOK, Procs, Holding
<1>7. ASSUME NEW k \in Workers, Gate(k) PROVE LockOK'
  <2>1. k \in Procs /\ ~ Holding(k)
    BY <1>7 DEF Gate, Procs, Holding
  <2>2. CASE Stay(k, "lock")
    BY <1>2, <1>7, <2>1, <2>2 DEF Gate, Stay, Goto, TypeOK
  <2>3. CASE Leave(k)
    BY <1>2, <1>7, <2>1, <2>3 DEF Gate, Leave, Goto, TypeOK
  <2> QED
    BY <1>7, <2>2, <2>3 DEF Gate
<1>8. ASSUME NEW p \in Procs, TryLock(p) PROVE LockOK'
  <2>1. ~ Holding(p) /\ task[p].cron \in Crons
    BY <1>8 DEF TryLock, Holding, TaskSet
  <2>2. CASE /\ lock[task[p].cron] = None
             /\ lock' = [lock EXCEPT ![task[p].cron] = p] /\ Stay(p, "open")
    <3>1. /\ lock' = [lock EXCEPT ![task[p].cron] = p]
          /\ Goto(p, "open") /\ UNCHANGED task
      BY <2>2 DEF Stay
    <3>2. \A c \in Crons : lock'[c] = IF c = task[p].cron THEN p ELSE lock[c]
      BY <3>1 DEF TypeOK
    <3>3. \A q \in Procs : pc'[q] = IF q = p THEN "open" ELSE pc[q]
      BY <3>1 DEF TypeOK, Goto
    <3>4. ASSUME NEW q \in Procs \ {p}, Holding(q) PROVE lock'[task[q].cron] = q
      <4>1. lock[task[q].cron] = q /\ task[q].cron \in Crons
        BY <3>4 DEF LockOK, TaskSet, Holding
      <4> QED
        BY <2>2, <3>2, <4>1, CronAssumption
    <3> QED
      BY <2>1, <3>1, <3>2, <3>3, <3>4 DEF LockOK, Holding
  <2>3. CASE Leave(p) /\ UNCHANGED lock
    BY <1>2, <2>1, <2>3 DEF Leave, Goto, TypeOK
  <2> QED
    BY <1>8, <2>2, <2>3 DEF TryLock
<1>9. ASSUME NEW p \in Procs, LockQueryFails(p) PROVE LockOK'
  BY <1>2, <1>9 DEF LockQueryFails, Leave, Goto, TypeOK, Holding
<1>10. ASSUME NEW p \in Procs, OpenRun(p) PROVE LockOK'
  BY <1>3, <1>10 DEF OpenRun, Holding
<1>11. ASSUME NEW p \in Procs, NEW res \in Results, RunBody(p, res) PROVE LockOK'
  BY <1>3, <1>11 DEF RunBody, Holding
<1>12. ASSUME NEW p \in Procs, CloseRun(p) PROVE LockOK'
  BY <1>3, <1>12 DEF CloseRun, Holding
<1>13. ASSUME NEW p \in Procs, Unlock(p) \/ UnlockFails(p) PROVE LockOK'
  <2>1. task[p].cron \in Crons /\ Holding(p)
    BY <1>13 DEF Unlock, UnlockFails, Holding, TaskSet
  <2>2. lock' = [c \in Crons |-> IF lock[c] = p THEN None ELSE lock[c]]
    BY <1>13, <2>1 DEF Unlock, UnlockFails, TypeOK, LockOK
  <2> QED
    BY <1>4, <1>13, <2>2 DEF Unlock, UnlockFails
<1>14. ASSUME NEW p \in Procs, Crash(p) PROVE LockOK'
  BY <1>4, <1>14 DEF Crash
<1>15. ASSUME NEW j \in Jobs, PeriodicTick(j) PROVE LockOK'
  BY <1>1, <1>15 DEF PeriodicTick, procVars
<1>16. ASSUME NEW c \in Crons, NEW on \in BOOLEAN, SetEnabled(c, on) PROVE LockOK'
  BY <1>1, <1>16 DEF SetEnabled, procVars
<1>19. ASSUME NEW c \in Crons, Recycle(c) PROVE LockOK'
  BY <1>1, <1>19 DEF Recycle, procVars
<1>17. CASE Truncate
  BY <1>1, <1>17 DEF Truncate, procVars
<1>18. CASE UNCHANGED vars
  BY <1>1, <1>18 DEF vars, procVars
<1> QED
  BY <1>5, <1>6, <1>7, <1>8, <1>9, <1>10, <1>11, <1>12, <1>13, <1>14, <1>15, <1>16,
     <1>17, <1>18, <1>19 DEF Next, RunStep

LEMMA LockInvariant == Spec => []LockOK
<1>1. Init => LockOK
  BY CronAssumption DEF Init, LockOK, Holding
<1> QED
  BY <1>1, TypeInvariant, LockStep, PTL DEF Spec

\* Scheduled runs, retries and manual runs of one cron never overlap, for any
\* number of processes and whatever dies, fails or is truncated.
THEOREM RunsExclude == Spec => []OneRunPerCron
<1>1. LockOK => OneRunPerCron
  BY DEF LockOK, OneRunPerCron
<1> QED
  BY <1>1, LockInvariant, PTL
-------------------------------------------------------------------------------
(* The rows of cron_run, as long as nobody truncates the table. *)

\* The runner of p is between open_run and close_run.
Running(p) == pc[p] \in {"body", "close"}

\* A process that executes has the row it opened, still open, and no two
\* processes share one.
RowsOK ==
  /\ \A p \in Procs : Running(p) => run[p] \in DOMAIN runs /\ runs[run[p]] = NewRun(p)
  /\ \A p, q \in Procs : Running(p) /\ Running(q) /\ run[p] = run[q] => p = q

LEMMA RowsKept ==
  ASSUME TypeInv, RowsOK, UNCHANGED runs,
         \A p \in Procs : Running(p)' =>
            Running(p) /\ run'[p] = run[p] /\ task'[p] = task[p]
  PROVE  RowsOK'
BY DEF RowsOK, NewRun

LEMMA RowsStep ==
  ASSUME "truncate" \notin Faults
  PROVE  TypeInv /\ RowsOK /\ [Next]_vars => RowsOK'
<1> SUFFICES ASSUME TypeInv, RowsOK, [Next]_vars PROVE RowsOK'
  OBVIOUS
<1> USE DEF TypeInv
<1>1. CASE UNCHANGED <<runs, pc, run, task>>
  BY <1>1, RowsKept DEF Running
<1>2. ASSUME NEW p \in Procs, UNCHANGED runs, pc'[p] \notin {"body", "close"},
             \A q \in Procs \ {p} : pc'[q] = pc[q] /\ run'[q] = run[q] /\ task'[q] = task[q]
      PROVE  RowsOK'
  BY <1>2, RowsKept DEF Running
<1>3. ASSUME NEW p \in Procs, Leave(p), UNCHANGED runs PROVE RowsOK'
  BY <1>2, <1>3 DEF Leave, Goto, TypeOK
<1>4. ASSUME NEW p \in Procs, NEW step \in {"lock", "open"}, Stay(p, step), UNCHANGED runs
      PROVE  RowsOK'
  BY <1>2, <1>4 DEF Stay, Goto, TypeOK
<1>5. ASSUME NEW k \in Workers, NEW j \in Jobs, PickJob(k, j) PROVE RowsOK'
  BY <1>2, <1>5 DEF PickJob, Start, Goto, TypeOK, Procs
<1>6. ASSUME NEW o \in Operators, NEW c \in Crons, Trigger(o, c) PROVE RowsOK'
  BY <1>2, <1>6 DEF Trigger, Start, Goto, TypeOK, Procs
<1>7. ASSUME NEW k \in Workers, Gate(k) PROVE RowsOK'
  BY <1>3, <1>4, <1>7 DEF Gate, Procs
<1>8. ASSUME NEW p \in Procs, TryLock(p) PROVE RowsOK'
  BY <1>3, <1>4, <1>8 DEF TryLock
<1>9. ASSUME NEW p \in Procs, LockQueryFails(p) PROVE RowsOK'
  BY <1>3, <1>9 DEF LockQueryFails
<1>10. ASSUME NEW p \in Procs, OpenRun(p) PROVE RowsOK'
  <2>1. CASE UNCHANGED <<runs, run>> /\ Goto(p, "unlock")
    BY <1>2, <1>10, <2>1 DEF OpenRun, Goto, TypeOK
  <2>2. CASE /\ runs' = Append(runs, NewRun(p))
             /\ run' = [run EXCEPT ![p] = Len(runs) + 1]
             /\ Goto(p, "body")
    <3>1. runs \in Seq(RunType) /\ NewRun(p) \in RunType
      BY <1>10 DEF OpenRun, TypeOK, NewRun, RunType, RunStates, TaskSet
    <3>2. /\ Len(runs) \in Nat /\ DOMAIN runs = 1 .. Len(runs)
          /\ Len(runs') = Len(runs) + 1 /\ DOMAIN runs' = 1 .. Len(runs) + 1
          /\ \A i \in 1 .. Len(runs) : runs'[i] = runs[i]
          /\ runs'[Len(runs) + 1] = NewRun(p)
      BY <2>2, <3>1, AppendProperties, LenProperties
    <3>3. pc'[p] = "body" /\ run'[p] = Len(runs) + 1 /\ UNCHANGED task
      BY <1>10, <2>2 DEF OpenRun, Goto, TypeOK
    <3>4. \A q \in Procs \ {p} : pc'[q] = pc[q] /\ run'[q] = run[q]
      BY <2>2 DEF Goto, TypeOK
    <3>5. NewRun(p)' = NewRun(p)
      BY <3>3 DEF NewRun
    <3>6. ASSUME NEW q \in Procs \ {p}, Running(q)'
          PROVE  /\ run'[q] \in 1 .. Len(runs)
                 /\ runs'[run'[q]] = NewRun(q)'
      BY <3>2, <3>3, <3>4, <3>6 DEF RowsOK, Running, NewRun
    <3>7. \A q \in Procs : Running(q)' => run'[q] \in DOMAIN runs' /\ runs'[run'[q]] = NewRun(q)'
      BY <3>2, <3>3, <3>5, <3>6
    <3>8. ASSUME NEW q \in Procs, NEW r \in Procs, Running(q)', Running(r)', run'[q] = run'[r]
          PROVE  q = r
      <4>1. CASE q = p \/ r = p
        BY <3>2, <3>3, <3>6, <3>8, <4>1
      <4>2. CASE q # p /\ r # p
        BY <3>4, <3>8, <4>2 DEF RowsOK, Running
      <4> QED
        BY <4>1, <4>2
    <3> QED
      BY <3>7, <3>8 DEF RowsOK
  <2> QED
    BY <1>10, <2>1, <2>2 DEF OpenRun
<1>11. ASSUME NEW p \in Procs, NEW res \in Results, RunBody(p, res) PROVE RowsOK'
  BY <1>11, RowsKept DEF RunBody, Goto, TypeOK, Running
<1>12. ASSUME NEW p \in Procs, CloseRun(p) PROVE RowsOK'
  <2>1. CASE UNCHANGED runs
    BY <1>2, <1>12, <2>1 DEF CloseRun, Goto, TypeOK
  <2>2. ASSUME NEW st \in RunStates, runs' = [runs EXCEPT ![run[p]].status = st]
        PROVE  RowsOK'
    <3>1. \A q \in Procs : Running(q)' => q # p /\ Running(q)
      BY <1>12 DEF CloseRun, Goto, TypeOK, Running
    <3>2. Running(p) /\ UNCHANGED <<run, task>>
      BY <1>12 DEF CloseRun, Running
    <3>3. DOMAIN runs' = DOMAIN runs /\ \A i \in DOMAIN runs : i # run[p] => runs'[i] = runs[i]
      BY <2>2 DEF TypeOK
    <3>4. \A q \in Procs : Running(q)' => run[q] # run[p]
      BY <3>1, <3>2 DEF RowsOK
    <3> QED
      BY <3>1, <3>2, <3>3, <3>4 DEF RowsOK, NewRun
  <2> QED
    BY <1>12, <2>1, <2>2 DEF CloseRun, RunStates
<1>13. ASSUME NEW p \in Procs, Unlock(p) \/ UnlockFails(p) PROVE RowsOK'
  BY <1>3, <1>13 DEF Unlock, UnlockFails
<1>14. ASSUME NEW p \in Procs, Crash(p) PROVE RowsOK'
  BY <1>3, <1>14 DEF Crash
<1>15. ASSUME NEW j \in Jobs, PeriodicTick(j) PROVE RowsOK'
  BY <1>1, <1>15 DEF PeriodicTick, procVars
<1>16. ASSUME NEW c \in Crons, NEW on \in BOOLEAN, SetEnabled(c, on) PROVE RowsOK'
  BY <1>1, <1>16 DEF SetEnabled, procVars
<1>17. CASE (\E c \in Crons : Recycle(c)) \/ UNCHANGED vars
  BY <1>1, <1>17 DEF Recycle, vars, procVars
<1> QED
  BY <1>5, <1>6, <1>7, <1>8, <1>9, <1>10, <1>11, <1>12, <1>13, <1>14, <1>15, <1>16,
     <1>17 DEF Next, RunStep, Truncate

LEMMA RowsInvariant ==
  ASSUME "truncate" \notin Faults
  PROVE  Spec => []RowsOK
<1>1. Init => RowsOK
  BY DEF Init, RowsOK, Running
<1> QED
  BY <1>1, TypeInvariant, RowsStep, PTL DEF Spec

\* Only close_run of its own process changes a row that is there.
LEMMA RowChange ==
  ASSUME TypeInv, "truncate" \notin Faults, [Next]_vars,
         NEW i \in DOMAIN runs, runs'[i] # runs[i]
  PROVE  \E p \in Procs : pc[p] = "close" /\ pc'[p] = "unlock" /\ run[p] = i
<1> USE DEF TypeInv
<1>1. runs' # runs
  OBVIOUS
<1>2. ASSUME NEW p \in Procs, OpenRun(p) PROVE FALSE
  <2>1. runs \in Seq(RunType) /\ NewRun(p) \in RunType
    BY <1>2 DEF OpenRun, TypeOK, NewRun, RunType, RunStates, TaskSet
  <2>2. Append(runs, NewRun(p))[i] = runs[i]
    BY <2>1, AppendProperties, LenProperties
  <2> QED
    BY <1>1, <1>2, <2>2 DEF OpenRun
<1>3. PICK p \in Procs : CloseRun(p)
  BY <1>1, <1>2 DEF Next, RunStep, PeriodicTick, PickJob, Start, Gate, Trigger, TryLock,
     LockQueryFails, RunBody, Unlock, UnlockFails, Crash, SetEnabled, Recycle, Truncate, vars
<1>4. pc[p] = "close" /\ pc'[p] = "unlock"
  BY <1>3 DEF CloseRun, Goto, TypeOK
<1>5. run[p] = i
  BY <1>1, <1>3 DEF CloseRun
<1> QED
  BY <1>4, <1>5

\* A row is closed by the run that opened it and by no other, for any number of
\* crons, processes and crashes - provided cron_run is not truncated under it.
THEOREM RowsClosedByOwner ==
  ASSUME "truncate" \notin Faults
  PROVE  Spec => ClosesOwnRun
<1> DEFINE Closing ==
      \A i \in DOMAIN runs \cap DOMAIN runs' :
        runs[i].status = "running" /\ runs'[i].status # "running" =>
          \E p \in Procs :
            Executing(p, i) /\ pc'[p] # pc[p] /\ runs[i].job = task[p].job
<1>1. TypeInv /\ RowsOK /\ [Next]_vars => Closing
  <2> SUFFICES ASSUME TypeInv, RowsOK, [Next]_vars, NEW i \in DOMAIN runs,
                      runs'[i] # runs[i]
               PROVE  \E p \in Procs :
                        Executing(p, i) /\ pc'[p] # pc[p] /\ runs[i].job = task[p].job
    OBVIOUS
  <2>1. PICK p \in Procs : pc[p] = "close" /\ pc'[p] = "unlock" /\ run[p] = i
    BY RowChange
  <2>2. runs[i] = NewRun(p)
    BY <2>1 DEF RowsOK, Running
  <2>3. runs[i].job = task[p].job
    BY <2>2 DEF NewRun
  <2> QED
    BY <2>1, <2>3 DEF Executing
<1> QED
  BY <1>1, TypeInvariant, RowsInvariant, PTL DEF Spec, ClosesOwnRun

\* The outcome of a closed run is never rewritten, under the same proviso.
THEOREM ClosedRowsAreFinal ==
  ASSUME "truncate" \notin Faults
  PROVE  Spec => HistoryIsFinal
<1> DEFINE Final ==
      \A i \in DOMAIN runs \cap DOMAIN runs' :
        runs[i].status # "running" => runs'[i] = runs[i]
<1>1. TypeInv /\ RowsOK /\ [Next]_vars => Final
  <2> SUFFICES ASSUME TypeInv, RowsOK, [Next]_vars, NEW i \in DOMAIN runs,
                      runs'[i] # runs[i]
               PROVE  runs[i].status = "running"
    OBVIOUS
  <2>1. PICK p \in Procs : pc[p] = "close" /\ pc'[p] = "unlock" /\ run[p] = i
    BY RowChange
  <2>2. runs[i] = NewRun(p)
    BY <2>1 DEF RowsOK, Running
  <2> QED
    BY <2>2 DEF NewRun
<1> QED
  BY <1>1, TypeInvariant, RowsInvariant, PTL DEF Spec, HistoryIsFinal
-------------------------------------------------------------------------------
(* What the console shows and answers, as long as statements do not fail. *)

\* Whoever was picked while its cron was paused, and has been since, has not
\* passed the gate.
PausedOK == \A p \in Procs : paused[p] => pc[p] = "gate" /\ ~ enabled[task[p].cron]

\* A process that is past the gate, or leaves, is not a paused one.
LEMMA PausedKept ==
  ASSUME TypeInv, PausedOK, UNCHANGED enabled, NEW p \in Procs,
         Leave(p) \/ (UNCHANGED paused /\ pc[p] # "gate"),
         \A q \in Procs \ {p} : pc'[q] = pc[q] /\ task'[q] = task[q]
  PROVE  PausedOK'
BY DEF PausedOK, Leave, TypeInv, TypeOK

LEMMA PausedStep ==
  ASSUME "db" \notin Faults
  PROVE  TypeInv /\ PausedOK /\ [Next]_vars => PausedOK'
<1> SUFFICES ASSUME TypeInv, PausedOK, [Next]_vars PROVE PausedOK'
  OBVIOUS
<1> USE DEF TypeInv
<1>1. CASE UNCHANGED <<enabled, pc, task, paused>>
  BY <1>1 DEF PausedOK
<1>2. ASSUME NEW p \in Procs, Leave(p), UNCHANGED enabled PROVE PausedOK'
  BY <1>2, PausedKept DEF Leave, Goto, TypeOK
<1>3. ASSUME NEW k \in Workers, NEW j \in Jobs, PickJob(k, j) PROVE PausedOK'
  <2>1. /\ pc'[k] = "gate" /\ task'[k].cron = job[j].cron
        /\ paused'[k] = ~ enabled[job[j].cron] /\ UNCHANGED enabled
    BY <1>3 DEF PickJob, Start, Goto, TypeOK, Procs
  <2>2. \A q \in Procs \ {k} : pc'[q] = pc[q] /\ task'[q] = task[q] /\ paused'[q] = paused[q]
    BY <1>3 DEF PickJob, Start, Goto, TypeOK, Procs
  <2> QED
    BY <2>1, <2>2 DEF PausedOK
<1>4. ASSUME NEW o \in Operators, NEW c \in Crons, Trigger(o, c) PROVE PausedOK'
  BY <1>4, PausedKept DEF Trigger, Start, Goto, TypeOK, Procs
<1>5. ASSUME NEW k \in Workers, Gate(k) PROVE PausedOK'
  <2>1. CASE Leave(k)
    BY <1>2, <1>5, <2>1 DEF Gate, Procs
  <2>2. CASE Stay(k, "lock") /\ enabled[task[k].cron]
    <3>1. k \in Procs /\ ~ paused[k]
      BY <2>2 DEF PausedOK, Procs, TypeOK
    <3> QED
      BY <1>5, <2>2, <3>1 DEF Gate, Stay, Goto, TypeOK, PausedOK
  <2> QED
    BY <1>5, <2>1, <2>2 DEF Gate
<1>6. ASSUME NEW p \in Procs, RunStep(p) PROVE PausedOK'
  BY <1>2, <1>6, PausedKept DEF RunStep, TryLock, Stay, LockQueryFails, OpenRun, RunBody, CloseRun,
     Unlock, UnlockFails, Goto, TypeOK
<1>7. ASSUME NEW p \in Procs, Crash(p) PROVE PausedOK'
  BY <1>2, <1>7 DEF Crash
<1>8. ASSUME NEW c \in Crons, NEW on \in BOOLEAN, SetEnabled(c, on) PROVE PausedOK'
  <2>1. /\ UNCHANGED <<pc, task>> /\ enabled' = [enabled EXCEPT ![c] = on]
        /\ \A p \in Procs : paused'[p] => paused[p] /\ ~ (on /\ task[p].cron = c)
    BY <1>8 DEF SetEnabled, procVars
  <2>2. \A p \in Procs : paused[p] => task[p].cron \in Crons
    BY DEF PausedOK, TaskSet
  <2> QED
    BY <2>1, <2>2 DEF PausedOK, TypeOK
<1>9. CASE \/ \E j \in Jobs : PeriodicTick(j)
           \/ \E c \in Crons : Recycle(c)
           \/ Truncate \/ UNCHANGED vars
  BY <1>1, <1>9 DEF PeriodicTick, Recycle, Truncate, vars, procVars
<1> QED
  BY <1>3, <1>4, <1>5, <1>6, <1>7, <1>8, <1>9 DEF Next

\* A tick that is picked after the operator paused its cron, and while it stays
\* paused, ends at the gate (_gate of recorder.py), whatever dies or is
\* truncated. It needs the gate's query: where it fails, the gate is open.
THEOREM PausesAreHonoured ==
  ASSUME "db" \notin Faults
  PROVE  Spec => []PauseHonoured
<1>1. Init => PausedOK
  BY DEF Init, PausedOK
<1>2. PausedOK => PauseHonoured
  BY DEF PausedOK, PauseHonoured, Procs
<1> QED
  BY <1>1, <1>2, TypeInvariant, PausedStep, PTL DEF Spec

\* A row that says "running" has its runner.
RunningOK ==
  \A i \in DOMAIN runs : runs[i].status = "running" =>
    \E p \in Procs : Executing(p, i) /\ task[p].cron = runs[i].cron

\* A step in which no row changes and no runner stops.
LEMMA RunningKept ==
  ASSUME RunningOK, UNCHANGED runs,
         \A p \in Procs : Running(p) =>
            Running(p)' /\ run'[p] = run[p] /\ task'[p] = task[p]
  PROVE  RunningOK'
BY DEF RunningOK, Executing, Running

LEMMA RunningStep ==
  ASSUME Faults \cap {"crash", "db"} = {}
  PROVE  TypeInv /\ RunningOK /\ [Next]_vars => RunningOK'
<1> SUFFICES ASSUME TypeInv, RunningOK, [Next]_vars PROVE RunningOK'
  OBVIOUS
<1> USE DEF TypeInv
<1>1. CASE UNCHANGED <<runs, pc, run, task>>
  BY <1>1, RunningKept DEF Running
<1>2. ASSUME NEW p \in Procs, UNCHANGED runs, ~ Running(p),
             \A q \in Procs \ {p} : pc'[q] = pc[q] /\ run'[q] = run[q] /\ task'[q] = task[q]
      PROVE  RunningOK'
  BY <1>2, RunningKept DEF Running
<1>3. ASSUME NEW k \in Workers, NEW j \in Jobs, PickJob(k, j) PROVE RunningOK'
  BY <1>2, <1>3 DEF PickJob, Start, Goto, TypeOK, Procs, Running
<1>4. ASSUME NEW o \in Operators, NEW c \in Crons, Trigger(o, c) PROVE RunningOK'
  BY <1>2, <1>4 DEF Trigger, Start, Goto, TypeOK, Procs, Running
<1>5. ASSUME NEW k \in Workers, Gate(k) PROVE RunningOK'
  BY <1>2, <1>5 DEF Gate, Leave, Stay, Goto, TypeOK, Procs, Running
<1>6. ASSUME NEW p \in Procs, TryLock(p) \/ Unlock(p) PROVE RunningOK'
  BY <1>2, <1>6 DEF TryLock, Unlock, Leave, Stay, Goto, TypeOK, Running
<1>7. ASSUME NEW p \in Procs, OpenRun(p) PROVE RunningOK'
  <2>1. CASE UNCHANGED <<runs, run>> /\ Goto(p, "unlock")
    BY <1>2, <1>7, <2>1 DEF OpenRun, Goto, TypeOK, Running
  <2>2. CASE /\ runs' = Append(runs, NewRun(p))
             /\ run' = [run EXCEPT ![p] = Len(runs) + 1]
             /\ Goto(p, "body")
    <3>1. runs \in Seq(RunType) /\ NewRun(p) \in RunType
      BY <1>7 DEF OpenRun, TypeOK, NewRun, RunType, RunStates, TaskSet
    <3>2. /\ DOMAIN runs = 1 .. Len(runs) /\ DOMAIN runs' = 1 .. Len(runs) + 1
          /\ Len(runs) \in Nat
          /\ \A i \in 1 .. Len(runs) : runs'[i] = runs[i]
          /\ runs'[Len(runs) + 1] = NewRun(p)
      BY <2>2, <3>1, AppendProperties, LenProperties
    <3>3. pc'[p] = "body" /\ run'[p] = Len(runs) + 1 /\ UNCHANGED task /\ ~ Running(p)
      BY <1>7, <2>2 DEF OpenRun, Goto, TypeOK, Running
    <3>4. \A q \in Procs \ {p} : pc'[q] = pc[q] /\ run'[q] = run[q]
      BY <2>2 DEF Goto, TypeOK
    <3>5. ASSUME NEW i, i = Len(runs) + 1
          PROVE  Executing(p, i)' /\ task'[p].cron = runs'[i].cron
      BY <3>2, <3>3, <3>5 DEF Executing, NewRun
    <3>6. ASSUME NEW i \in 1 .. Len(runs), runs[i].status = "running"
          PROVE  \E q \in Procs : Executing(q, i)' /\ task'[q].cron = runs[i].cron
      <4>1. PICK q \in Procs : Executing(q, i) /\ task[q].cron = runs[i].cron
        BY <3>2, <3>6 DEF RunningOK
      <4>2. q # p
        BY <3>3, <4>1 DEF Executing, Running
      <4> QED
        BY <3>3, <3>4, <4>1, <4>2 DEF Executing
    <3>7. ASSUME NEW i \in 1 .. Len(runs) + 1, runs'[i].status = "running"
          PROVE  \E q \in Procs : Executing(q, i)' /\ task'[q].cron = runs'[i].cron
      BY <3>2, <3>5, <3>6, <3>7
    <3> QED
      BY <3>2, <3>7 DEF RunningOK
  <2> QED
    BY <1>7, <2>1, <2>2 DEF OpenRun
<1>8. ASSUME NEW p \in Procs, NEW res \in Results, RunBody(p, res) PROVE RunningOK'
  BY <1>8, RunningKept DEF RunBody, Goto, TypeOK, Running
<1>9. ASSUME NEW p \in Procs, CloseRun(p) PROVE RunningOK'
  <2>1. \A q \in Procs \ {p} : pc'[q] = pc[q]
    BY <1>9 DEF CloseRun, Goto, TypeOK
  <2>2. UNCHANGED <<run, task>>
    BY <1>9 DEF CloseRun
  <2>3. ASSUME NEW i \in DOMAIN runs', runs'[i].status = "running"
        PROVE  i \in DOMAIN runs /\ runs'[i] = runs[i] /\ run[p] # i
    <3>1. CASE run[p] \notin DOMAIN runs /\ UNCHANGED runs
      BY <2>3, <3>1
    <3>2. ASSUME NEW st \in {"success", "failed"},
                 runs' = [runs EXCEPT ![run[p]].status = st], run[p] \in DOMAIN runs
          PROVE  i \in DOMAIN runs /\ runs'[i] = runs[i] /\ run[p] # i
      <4>1. DOMAIN runs' = DOMAIN runs /\ \A j \in DOMAIN runs : j # run[p] => runs'[j] = runs[j]
        BY <3>2
      <4>2. runs[run[p]] \in RunType
        BY <3>2, ElementOfSeq DEF TypeOK
      <4>3. runs'[run[p]] = [runs[run[p]] EXCEPT !.status = st]
        BY <3>2
      <4>4. runs'[run[p]].status = st
        BY <4>2, <4>3 DEF RunType
      <4> QED
        BY <2>3, <4>1, <4>4
    <3> QED
      BY <1>9, <3>1, <3>2 DEF CloseRun
  <2>4. ASSUME NEW i \in DOMAIN runs', runs'[i].status = "running"
        PROVE  \E q \in Procs : Executing(q, i)' /\ task'[q].cron = runs'[i].cron
    <3>1. PICK q \in Procs : Executing(q, i) /\ task[q].cron = runs[i].cron
      BY <2>3, <2>4 DEF RunningOK
    <3> QED
      BY <2>1, <2>2, <2>3, <2>4, <3>1 DEF Executing
  <2> QED
    BY <2>4 DEF RunningOK
<1>10. ASSUME NEW c \in Crons, NEW on \in BOOLEAN, SetEnabled(c, on) PROVE RunningOK'
  BY <1>1, <1>10 DEF SetEnabled, procVars
<1>11. CASE Truncate
  BY <1>11 DEF Truncate, RunningOK
<1>12. CASE (\E j \in Jobs : PeriodicTick(j)) \/ (\E c \in Crons : Recycle(c)) \/ UNCHANGED vars
  BY <1>1, <1>12 DEF PeriodicTick, Recycle, vars, procVars
<1> QED
  BY <1>3, <1>4, <1>5, <1>6, <1>7, <1>8, <1>9, <1>10, <1>11, <1>12
     DEF Next, RunStep, LockQueryFails, UnlockFails, Crash

\* As long as nobody dies and no statement fails, and even if cron_run is
\* truncated: a row that the console shows as running has a process that runs it
\* and holds its cron's lock.
THEOREM RunningRowsAreRun ==
  ASSUME Faults \cap {"crash", "db"} = {}
  PROVE  Spec => []RunningIsTrue
<1>1. Init => RunningOK
  BY DEF Init, RunningOK
<1>2. LockOK /\ RunningOK => RunningIsTrue
  BY DEF LockOK, RunningOK, RunningIsTrue, Executing, Holding
<1> QED
  BY <1>1, <1>2, TypeInvariant, LockInvariant, RunningStep, PTL DEF Spec

\* The run of an operator is under that operator's own id, and once its row is
\* open no later row is of the same cron.
Opened(o) == pc[o] \in {"body", "close", "unlock"}
LastOfCron(o) == /\ run[o] \in DOMAIN runs
                 /\ runs[run[o]].cron = task[o].cron
                 /\ \A i \in DOMAIN runs : runs[i].cron = task[o].cron => i <= run[o]
OwnOK ==
  \A o \in Operators :
    /\ pc[o] # "idle" => task[o].job = o
    /\ Opened(o) => LastOfCron(o)
    /\ answer[o] # "other"

\* A step that opens no row, starts no run of an operator and answers nobody
\* with another run's row.
LEMMA OwnKept ==
  ASSUME OwnOK,
         DOMAIN runs' = DOMAIN runs,
         \A i \in DOMAIN runs : runs'[i].cron = runs[i].cron,
         \A o \in Operators :
           /\ pc'[o] # "idle" => pc[o] # "idle" /\ task'[o] = task[o]
           /\ pc'[o] \in {"body", "close", "unlock"} => Opened(o) /\ run'[o] = run[o]
           /\ answer'[o] # "other"
  PROVE  OwnOK'
BY DEF OwnOK, Opened, LastOfCron

\* What trigger answers with is the row of the run it made.
LEMMA OwnAnswer ==
  ASSUME TypeInv, OwnOK, NEW o \in Operators, pc[o] = "unlock"
  PROVE  AnswerOf(o) # "other"
<1>1. LastOfCron(o)
  BY DEF OwnOK, Opened
<1>2. DOMAIN runs \subseteq Nat \ {0}
  BY LenProperties DEF TypeInv, TypeOK
<1>3. Latest(task[o].cron) = run[o]
  <2> DEFINE ids == { i \in DOMAIN runs : runs[i].cron = task[o].cron }
  <2>1. run[o] \in ids /\ \A k \in ids : k <= run[o]
    BY <1>1 DEF LastOfCron
  <2>2. \A i \in ids : (\A k \in ids : k <= i) => i = run[o]
    BY <1>2, <2>1
  <2> QED
    BY <2>1, <2>2 DEF Latest
<1> QED
  BY <1>3 DEF AnswerOf

LEMMA OwnStep ==
  ASSUME Faults \cap {"db", "truncate"} = {}
  PROVE  TypeInv /\ LockOK /\ OwnOK /\ [Next]_vars => OwnOK'
<1> SUFFICES ASSUME TypeInv, LockOK, OwnOK, [Next]_vars PROVE OwnOK'
  OBVIOUS
<1> USE DEF TypeInv
<1>1. CASE UNCHANGED <<runs, pc, run, task, answer>>
  BY <1>1, OwnKept DEF Opened, OwnOK
<1>2. ASSUME NEW p \in Procs, Leave(p), UNCHANGED runs,
             \A o \in Operators : answer'[o] # "other"
      PROVE  OwnOK'
  BY <1>2, OwnKept DEF Leave, Goto, TypeOK, Opened
<1>3. ASSUME NEW p \in Procs, NEW step \in {"lock", "open"}, pc[p] # "idle",
             Stay(p, step), UNCHANGED <<runs, answer>>
      PROVE  OwnOK'
  BY <1>3, OwnKept DEF Stay, Goto, TypeOK, Opened, OwnOK
<1>4. ASSUME NEW k \in Workers, NEW j \in Jobs, PickJob(k, j) PROVE OwnOK'
  <2>1. \A o \in Operators : pc'[o] = pc[o] /\ task'[o] = task[o]
    BY <1>4, CronAssumption DEF PickJob, Start, Goto, TypeOK, Procs
  <2> QED
    BY <1>4, <2>1, OwnKept DEF PickJob, Start, Opened, OwnOK
<1>5. ASSUME NEW o \in Operators, NEW c \in Crons, Trigger(o, c) PROVE OwnOK'
  <2>1. /\ pc'[o] = "lock" /\ task'[o].job = o /\ answer'[o] = "none"
        /\ UNCHANGED <<runs, run>>
    BY <1>5 DEF Trigger, Start, Goto, TypeOK, Procs
  <2>2. \A q \in Operators \ {o} :
          pc'[q] = pc[q] /\ task'[q] = task[q] /\ answer'[q] = answer[q]
    BY <1>5 DEF Trigger, Start, Goto, TypeOK, Procs
  <2> QED
    BY <2>1, <2>2 DEF OwnOK, Opened, LastOfCron
<1>6. ASSUME NEW k \in Workers, Gate(k) PROVE OwnOK'
  BY <1>2, <1>3, <1>6 DEF Gate, Procs, OwnOK
<1>7. ASSUME NEW p \in Procs, TryLock(p) PROVE OwnOK'
  <2>1. \A o \in Operators : answer'[o] # "other"
    BY <1>7 DEF TryLock, TypeOK, OwnOK
  <2> QED
    BY <1>2, <1>3, <1>7, <2>1 DEF TryLock
<1>8. ASSUME NEW p \in Procs, OpenRun(p) PROVE OwnOK'
  <2>1. UNCHANGED <<task, answer>> /\ \A q \in Procs \ {p} : pc'[q] = pc[q] /\ run'[q] = run[q]
    BY <1>8 DEF OpenRun, Goto, TypeOK
  <2>2. CASE ~ Clash(task[p].job) /\ runs' = Append(runs, NewRun(p))
             /\ run' = [run EXCEPT ![p] = Len(runs) + 1] /\ Goto(p, "body")
    <3>1. runs \in Seq(RunType) /\ NewRun(p) \in RunType
      BY <1>8 DEF OpenRun, TypeOK, NewRun, RunType, RunStates, TaskSet
    <3>2. /\ DOMAIN runs = 1 .. Len(runs) /\ DOMAIN runs' = 1 .. Len(runs) + 1
          /\ Len(runs) \in Nat
          /\ \A i \in 1 .. Len(runs) : runs'[i] = runs[i]
          /\ runs'[Len(runs) + 1].cron = task[p].cron
      BY <2>2, <3>1, AppendProperties, LenProperties DEF NewRun
    <3>3. run'[p] = Len(runs) + 1 /\ Holding(p)
      BY <1>8, <2>2 DEF OpenRun, TypeOK, Holding
    <3>4. ASSUME NEW o \in Operators, pc'[o] \in {"body", "close", "unlock"}
          PROVE  /\ run'[o] \in DOMAIN runs' /\ runs'[run'[o]].cron = task[o].cron
                 /\ \A i \in DOMAIN runs' : runs'[i].cron = task[o].cron => i <= run'[o]
      <4>1. CASE o = p
        BY <3>2, <3>3, <4>1
      <4>2. CASE o # p
        <5>1. o \in Procs /\ pc'[o] = pc[o] /\ run'[o] = run[o]
          BY <2>1, <4>2 DEF Procs
        <5>2. LastOfCron(o) /\ Holding(o)
          BY <3>4, <5>1 DEF OwnOK, Opened, Holding
        <5>3. task[o].cron # task[p].cron
          BY <3>3, <4>2, <5>1, <5>2 DEF LockOK
        <5>4. run[o] \in 1 .. Len(runs) /\ runs[run[o]].cron = task[o].cron
          BY <3>2, <5>2 DEF LastOfCron
        <5>5. ASSUME NEW i \in 1 .. Len(runs) + 1, runs'[i].cron = task[o].cron
              PROVE  i <= run[o]
          BY <3>2, <5>2, <5>3, <5>5 DEF LastOfCron
        <5> QED
          BY <3>2, <5>1, <5>4, <5>5
      <4> QED
        BY <4>1, <4>2
    <3>5. \A o \in Operators : pc'[o] # "idle" => task[o].job = o
      BY <1>8, <2>1 DEF OpenRun, OwnOK, Procs
    <3> QED
      BY <2>1, <3>4, <3>5 DEF OwnOK, Opened, LastOfCron
  <2>3. CASE Clash(task[p].job) /\ UNCHANGED <<runs, run>>
    <3>1. p \notin Operators
      BY <1>8, <2>3, CronAssumption DEF OpenRun, Clash, OwnOK
    <3>2. \A o \in Operators : o \in Procs \ {p}
      BY <3>1 DEF Procs
    <3> QED
      BY <2>1, <2>3, <3>2, OwnKept DEF Opened, OwnOK
  <2> QED
    BY <1>8, <2>2, <2>3 DEF OpenRun
<1>9. ASSUME NEW p \in Procs, NEW res \in Results, RunBody(p, res) PROVE OwnOK'
  BY <1>9, OwnKept DEF RunBody, Goto, TypeOK, Opened, OwnOK
<1>10. ASSUME NEW p \in Procs, CloseRun(p) PROVE OwnOK'
  <2>1. DOMAIN runs' = DOMAIN runs /\ \A i \in DOMAIN runs : runs'[i].cron = runs[i].cron
    <3>1. CASE UNCHANGED runs
      BY <3>1
    <3>2. ASSUME NEW st \in RunStates, runs' = [runs EXCEPT ![run[p]].status = st]
          PROVE  DOMAIN runs' = DOMAIN runs /\ \A i \in DOMAIN runs : runs'[i].cron = runs[i].cron
      BY <3>2, ElementOfSeq DEF TypeOK, RunType
    <3> QED
      BY <1>10, <3>1, <3>2 DEF CloseRun, RunStates
  <2>2. /\ UNCHANGED <<task, run, answer>> /\ pc[p] = "close"
        /\ \A q \in Procs \ {p} : pc'[q] = pc[q]
    BY <1>10 DEF CloseRun, Goto, TypeOK
  <2> QED
    BY <2>1, <2>2, OwnKept DEF Opened, OwnOK, Procs
<1>11. ASSUME NEW p \in Procs, Unlock(p) PROVE OwnOK'
  <2>1. \A o \in Operators : answer'[o] # "other"
    BY <1>11, OwnAnswer, CronAssumption DEF Unlock, TypeOK, OwnOK, Procs
  <2> QED
    BY <1>2, <1>11, <2>1 DEF Unlock
<1>12. ASSUME NEW p \in Procs, Crash(p) PROVE OwnOK'
  BY <1>2, <1>12 DEF Crash, OwnOK
<1>13. ASSUME NEW c \in Crons, NEW on \in BOOLEAN, SetEnabled(c, on) PROVE OwnOK'
  BY <1>1, <1>13 DEF SetEnabled, procVars
<1>14. CASE (\E j \in Jobs : PeriodicTick(j)) \/ (\E c \in Crons : Recycle(c)) \/ UNCHANGED vars
  BY <1>1, <1>14 DEF PeriodicTick, Recycle, vars, procVars
<1> QED
  BY <1>4, <1>5, <1>6, <1>7, <1>8, <1>9, <1>10, <1>11, <1>12, <1>13, <1>14
     DEF Next, RunStep, LockQueryFails, UnlockFails, Truncate

\* "Run now" answers with the row of the run it made, whatever the runner raised
\* and whoever ran the cron before or waits to run it next: trigger reads the
\* latest row while it still holds the lock. Needed: statements do not fail and
\* cron_run is not truncated meanwhile.
THEOREM AnswersAreOwn ==
  ASSUME Faults \cap {"db", "truncate"} = {}
  PROVE  Spec => []AnswersWithOwnRun
<1>1. Init => OwnOK
  BY DEF Init, OwnOK, Opened, Procs
<1>2. OwnOK => AnswersWithOwnRun
  BY DEF OwnOK, AnswersWithOwnRun
<1> QED
  BY <1>1, <1>2, TypeInvariant, LockInvariant, OwnStep, PTL DEF Spec
===============================================================================
