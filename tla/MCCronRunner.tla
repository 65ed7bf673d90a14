------------------------------ MODULE MCCronRunner ------------------------------
(* Two instances of CronRunner for one run: two crons whose processes and  *)
(* statements do not fail, and one cron under every fault.  In each        *)
(* behaviour one of them moves, the other stays as it starts.              *)
EXTENDS CronRunner

CONSTANTS FaultyCrons

VARIABLES
  calm,   \* which of the two moves
  fenabled, fjob, flock, fleft, fruns, fpc, ftask, frun, fresult, fanswer, fpaused

Faulty == INSTANCE CronRunner WITH
  Crons <- FaultyCrons, Faults <- FaultKinds,
  enabled <- fenabled, job <- fjob, lock <- flock, left <- fleft, runs <- fruns, pc <- fpc, task <- ftask,
  run <- frun, result <- fresult, answer <- fanswer, paused <- fpaused

fvars == <<fenabled, fjob, flock, fleft, fruns, fpc, ftask, frun, fresult, fanswer, fpaused>>
allVars == <<calm, vars, fvars>>

\* Of the one that stays put, one of its initial states is enough.
MCInit ==
  /\ calm \in BOOLEAN /\ Init /\ Faulty!Init
  /\ ~ calm => \A i, j \in Jobs : job[i].cron = job[j].cron /\ job[i].cron \in FaultyCrons
Runs(A) == calm /\ A /\ UNCHANGED <<calm, fvars>>
Fails(A) == ~ calm /\ A /\ UNCHANGED <<calm, vars>>
MCNext == Runs(Next) \/ Fails(Faulty!Next)

\* A started run goes on; an idle slot picks a queued job; a pool hands its
\* connections out in turn.
MCSpec ==
  /\ MCInit /\ [][MCNext]_allVars
  /\ \A k \in Workers :
       /\ WF_allVars(Fails(Faulty!Gate(k)))
       /\ WF_allVars(Fails(\E j \in Jobs : Faulty!PickJob(k, j)))
  /\ \A p \in Procs : WF_allVars(Fails(Faulty!RunStep(p)))
  /\ \A c \in FaultyCrons : SF_allVars(Fails(Faulty!Recycle(c)))

\* The advisory lock under every fault: it keeps runs apart, and comes back.
LockUnderFaults == []Faulty!OneRunPerCron /\ Faulty!LockReturned
===============================================================================
