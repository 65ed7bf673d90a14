------------------------------ MODULE TeamLogos ------------------------------
(***************************************************************************)
(* The crests of teams: ensure_team_logo of ingest/logos.py, run by the job *)
(* that a new team enqueues, by the weekly backfill (workers/tasks/logos.py) *)
(* and by a request for a logo that is not there (api/logos.py). The job is *)
(* enqueued on a connection of its own before the team is committed. Every  *)
(* run reads the row, asks the provider and writes, at its commit, the      *)
(* columns it changed.                                                     *)
(***************************************************************************)
EXTENDS Naturals, FiniteSets

CONSTANTS
  Teams,      \* teams with a provider key
  Runs,       \* job, request and backfill: what may be under way at one time
  Backfill,   \* the run among them that is the backfill
  Forced,     \* may an operator start the backfill with force?
  None

LogoAssumption == Backfill \in Runs /\ Forced \in BOOLEAN

VARIABLES
  known,     \* per team "no", "pending" (not committed) or "yes"
  jobs,      \* teams with a logo job in the queue
  crest,     \* what the provider has: teams with an image
  up,        \* does the provider answer?
  logo,      \* core_team_logo: None or its status, whether it has an image, and
             \* whether a miss is older than LOGO_MISS_COOLDOWN
  run        \* per run None, or its work

vars == <<known, jobs, crest, up, logo, run>>

Row == [status : {"ok", "missing"}, image : BOOLEAN, old : BOOLEAN]
MaybeRow == Row \cup {None}
Work == [todo : SUBSET Teams, force : BOOLEAN, team : Teams \cup {None}, base : MaybeRow,
         writes : SUBSET (Teams \X MaybeRow \X MaybeRow)]

TypeOK ==
  /\ known \in [Teams -> {"no", "pending", "yes"}]
  /\ jobs \subseteq Teams /\ crest \subseteq Teams /\ up \in BOOLEAN
  /\ logo \in [Teams -> MaybeRow]
  /\ run \in [Runs -> Work \cup {None}]

Init ==
  /\ known = [t \in Teams |-> "no"] /\ jobs = {} /\ crest \in SUBSET Teams
  /\ up \in BOOLEAN /\ logo = [t \in Teams |-> None] /\ run = [r \in Runs |-> None]
-----------------------------------------------------------------------------
(* enqueue_logo_fetch, in the middle of the walk's transaction; a queue that *)
(* fails is logged and forgotten.                                           *)
Create(t) ==
  /\ known[t] = "no"
  /\ known' = [known EXCEPT ![t] = "pending"]
  /\ jobs' \in {jobs, jobs \cup {t}}
  /\ UNCHANGED <<crest, up, logo, run>>

CommitTeam(t) ==
  /\ known[t] = "pending" /\ known' = [known EXCEPT ![t] = "yes"]
  /\ UNCHANGED <<jobs, crest, up, logo, run>>

Rollback(t) ==
  /\ known[t] = "pending" /\ known' = [known EXCEPT ![t] = "no"]
  /\ UNCHANGED <<jobs, crest, up, logo, run>>

Begin(r, todo, force) ==
  run' = [run EXCEPT ![r] = [todo |-> todo, force |-> force, team |-> None,
                             base |-> None, writes |-> {}]]

(* run_fetch_team_logo: a team that is not committed yet is "team_not_found", *)
(* and the job is gone.                                                     *)
StartJob(r, t) ==
  /\ r # Backfill /\ run[r] = None /\ t \in jobs
  /\ jobs' = jobs \ {t}
  /\ IF known[t] = "yes" THEN Begin(r, {t}, FALSE) ELSE UNCHANGED run
  /\ UNCHANGED <<known, crest, up, logo>>

Good(row) == row # None /\ row.status = "ok"

(* get_team_logo of a team without a good row. *)
Get(r, t) ==
  /\ r # Backfill /\ run[r] = None /\ known[t] = "yes"
  /\ ~Good(logo[t])
  /\ Begin(r, {t}, FALSE)
  /\ UNCHANGED <<known, jobs, crest, up, logo>>

(* _logo_target_query: without retry_missing only teams without a row.      *)
TargetMissing == {t \in Teams : known[t] = "yes" /\ logo[t] # None /\ ~Good(logo[t])}
Target == {t \in Teams : known[t] = "yes" /\ logo[t] = None}

StartBackfill(force) ==
  /\ run[Backfill] = None /\ (force => Forced)
  /\ Begin(Backfill, IF force THEN {t \in Teams : known[t] = "yes"} ELSE Target, force)
  /\ UNCHANGED <<known, jobs, crest, up, logo>>

(* ensure_team_logo reads the row; a good one, or a fresh miss, is enough.  *)
Enough(row) == Good(row) \/ (row # None /\ ~row.old)
Read(r, t) ==
  /\ run[r] # None /\ run[r].team = None /\ t \in run[r].todo
  /\ run' = [run EXCEPT ![r] =
       [@ EXCEPT !.todo = @ \ {t},
                 !.team = IF ~run[r].force /\ Enough(logo[t]) THEN None ELSE t,
                 !.base = IF ~run[r].force /\ Enough(logo[t]) THEN None ELSE logo[t]]]
  /\ UNCHANGED <<known, jobs, crest, up, logo>>

Fetched(t) ==
  IF t \in crest THEN [status |-> "ok", image |-> TRUE, old |-> FALSE]
  ELSE [status |-> "missing", image |-> FALSE, old |-> FALSE]

(* An image or a 404. *)
Answered(r) ==
  /\ run[r] # None /\ run[r].team # None /\ up
  /\ run' = [run EXCEPT ![r] =
       [@ EXCEPT !.team = None, !.base = None,
                 !.writes = @ \cup {<<run[r].team, run[r].base, Fetched(run[r].team)>>}]]
  /\ UNCHANGED <<known, jobs, crest, up, logo>>

(* Any other answer raises: the request is a 503, the job is over, and the  *)
(* backfill loses the crests it had so far, which share its transaction.    *)
Fails(r) ==
  /\ run[r] # None /\ run[r].team # None /\ ~up
  /\ run' = [run EXCEPT ![r] = None]
  /\ UNCHANGED <<known, jobs, crest, up, logo>>

(* The diff of the columns on the row as it is now; fetched_at is always new. *)
Diff(base, want, now) ==
  [status |-> IF base # None /\ base.status = want.status THEN now.status ELSE want.status,
   image |-> IF base # None /\ base.image = want.image THEN now.image ELSE want.image,
   old |-> FALSE]
Written(w) ==
  [t \in Teams |->
     IF \E e \in w : e[1] = t
     THEN LET e == CHOOSE e \in w : e[1] = t IN Diff(e[2], e[3], logo[t])
     ELSE logo[t]]

(* The transaction ends; a row that somebody else has inserted meanwhile     *)
(* refuses the insert of it, and with it the whole transaction.             *)
Finish(r) ==
  /\ run[r] # None /\ run[r].todo = {} /\ run[r].team = None
  /\ run' = [run EXCEPT ![r] = None]
  /\ IF \E e \in run[r].writes : e[2] = None /\ logo[e[1]] # None
     THEN UNCHANGED logo ELSE logo' = Written(run[r].writes)
  /\ UNCHANGED <<known, jobs, crest, up>>

(* LOGO_MISS_COOLDOWN has passed since the miss. *)
Ages(t) ==
  /\ logo[t] # None /\ ~logo[t].old /\ logo[t].status = "missing"
  /\ logo' = [logo EXCEPT ![t].old = TRUE]
  /\ UNCHANGED <<known, jobs, crest, up, run>>

CrestAppears(t) == t \notin crest /\ crest' = crest \cup {t} /\ UNCHANGED <<known, jobs, up, logo, run>>
Outage == up' = ~up /\ UNCHANGED <<known, jobs, crest, logo, run>>

Work1(r) == Answered(r) \/ Fails(r) \/ Finish(r) \/ \E t \in Teams : Read(r, t)

Next ==
  \/ \E t \in Teams : Create(t) \/ CommitTeam(t) \/ Rollback(t) \/ Ages(t) \/ CrestAppears(t)
  \/ \E r \in Runs : Work1(r) \/ \E t \in Teams : StartJob(r, t) \/ Get(r, t)
  \/ \E force \in BOOLEAN : StartBackfill(force)
  \/ Outage

Spec == Init /\ [][Next]_vars

(* The backfill starts every week and runs to its end, as all runs do. *)
FairSpec == Spec /\ WF_vars(StartBackfill(FALSE)) /\ \A r \in Runs : WF_vars(Work1(r))
-----------------------------------------------------------------------------
(* Whoever loses the race of the first fetch: once the provider answers for  *)
(* good, every committed team gets its row, although its job may have run    *)
(* before the team was there.                                               *)
LogoArrives ==
  <>[]up => \A t \in Teams : [](known[t] = "yes" => <>(logo[t] # None))

(* The columns of a row fit together, whoever wrote which of them.          *)
WholeRow == \A t \in Teams : logo[t] # None => (logo[t].status = "ok" <=> logo[t].image)
=============================================================================
