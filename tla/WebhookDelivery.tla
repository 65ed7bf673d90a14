---------------------------- MODULE WebhookDelivery ----------------------------
(***************************************************************************)
(* The outbound webhook queue: rows of webhook_delivery, the Procrastinate *)
(* jobs that wake the drain, the per-cron advisory lock, and the drain     *)
(* loop itself (workers/tasks/webhook_deliver.py, webhooks/deliver.py,     *)
(* webhooks/notify.py, the lock part of ops/recorder.py and                *)
(* ops/service.py).                                                        *)
(*                                                                         *)
(* Time is abstracted to what the drain's WHERE clause can tell apart:     *)
(* next_retry_at is NULL, lies in the future ("later") or has passed       *)
(* ("due").  The payload is the row's identity.                            *)
(***************************************************************************)
EXTENDS Naturals, FiniteSets, Nullable

CONSTANTS
  Rows,          \* identities of webhook_delivery rows
  Writers,       \* transactions that enqueue rows: league walk, watchdog, resend
  Workers,       \* job slots of the Procrastinate worker (--concurrency)
  Operators,     \* "Run now" requests on /ops/crons, run inline by the web tier
  BatchSize,     \* BATCH_SIZE, the LIMIT of one drain
  MaxAttempts,   \* MAX_ATTEMPTS, the length of RETRY_BACKOFF_SECONDS
  Faults         \* which of FaultKinds the environment may exercise

Drainers == Workers \cup Operators

FaultKinds == {"crash",      \* a process dies between two steps
               "queue",      \* Procrastinate rejects a defer
               "vacuum",     \* the vacuum cron deletes events under the queue
               "config",     \* a redeploy changes the receiver's URL or secret
               "silent"}     \* rows committed by a path that never notifies

ASSUME ConstantsAssumption ==
  /\ BatchSize \in Nat \ {0}
  /\ MaxAttempts \in Nat \ {0}
  /\ Faults \subseteq FaultKinds
  /\ None \notin Rows
  /\ None \notin Drainers
  /\ Workers \cap Operators = {}

VARIABLES
  rows,       \* the webhook_delivery table
  accepted,   \* rows whose idempotency key the receiver has processed
  config,     \* which webhook settings the running deployment has
  notifying,  \* writers between their commit and notify_webhook_worker
  dueJob,     \* a job with queueing_lock "webhook_deliver:due" is todo
  retryJob,   \* retryJob[r]: job with queueing_lock "webhook_deliver:retry:r"
  lock,       \* holder of the advisory lock of cron "webhook_deliver"
  pc,         \* pc[p]: where drainer p is
  todo,       \* todo[p]: rows of the batch p has still to send
  snap,       \* snap[p]: the ORM copies of the batch, as p's SELECT read them
  cur,        \* cur[p]: the row of p's POST in progress
  reply       \* reply[p]: how that POST ended

queueVars == <<dueJob, retryJob>>
drainVars == <<lock, pc, todo, snap, cur, reply>>
vars == <<rows, accepted, config, notifying, queueVars, drainVars>>

RowState == {"unused", "pending", "delivered", "gone"}
RetryAt  == {"null", "later", "due"}
DeliveryType  == [state: RowState, attempts: 0 .. (MaxAttempts + 1), retry: RetryAt]
Replies  == {"ok",         \* 2xx, or 409: this idempotency key was already processed
             "busy",       \* 408, 425, 429, 5xx, or no HTTP answer at all
             "rejected"}   \* any other status
PCs == {"idle", "gate", "select", "post", "record", "defer", "unlock"}

UnusedRow == [state |-> "unused", attempts |-> 0, retry |-> "null"]
NewRow    == [UnusedRow EXCEPT !.state = "pending"]
GoneRow   == [UnusedRow EXCEPT !.state = "gone"]

Init ==
  /\ rows = [r \in Rows |-> UnusedRow]
  /\ accepted = {}
  /\ config = "full"
  /\ notifying = {}
  /\ dueJob = FALSE
  /\ retryJob = [r \in Rows |-> "none"]
  /\ lock = None
  /\ pc = [p \in Drainers |-> "idle"]
  /\ todo = [p \in Drainers |-> {}]
  /\ snap = [p \in Drainers |-> [r \in Rows |-> UnusedRow]]
  /\ cur = [p \in Drainers |-> None]
  /\ reply = [p \in Drainers |-> "ok"]

-------------------------------------------------------------------------------
(***************************************************************************)
(* Writers: a transaction commits new rows, then pushes one coalesced job. *)
(***************************************************************************)

InsertRows(S) ==
  /\ config # "none"             \* enqueue drops the transition without a URL
  /\ S # {}
  /\ \A r \in S : rows[r].state = "unused"
  /\ rows' = [r \in Rows |-> IF r \in S THEN NewRow ELSE rows[r]]
  /\ UNCHANGED <<accepted, config, queueVars, drainVars>>

CommitRows(w, S) ==
  /\ w \notin notifying
  /\ InsertRows(S)
  /\ notifying' = notifying \cup {w}

\* The manual ingest-event endpoint commits and returns: nobody is notified.
CommitSilently(S) ==
  /\ "silent" \in Faults
  /\ InsertRows(S)
  /\ UNCHANGED notifying

\* Deferred, or AlreadyEnqueued: either way a job of that lock is todo.
NotifyWorker(w) ==
  /\ w \in notifying
  /\ notifying' = notifying \ {w}
  /\ dueJob' = TRUE
  /\ UNCHANGED <<rows, accepted, config, retryJob, drainVars>>

\* The defer raised and was swallowed, or the writer died after its commit.
NotifyLost(w) ==
  /\ Faults \cap {"crash", "queue"} # {}
  /\ w \in notifying
  /\ notifying' = notifying \ {w}
  /\ UNCHANGED <<rows, accepted, config, queueVars, drainVars>>

-------------------------------------------------------------------------------
(***************************************************************************)
(* Starting a drain: a job is picked up, or an operator clicks Run.        *)
(***************************************************************************)

Goto(p, step) == pc' = [pc EXCEPT ![p] = step]

\* A picked job leaves "todo", so its queueing lock is free again.
PickDue(k) ==
  /\ pc[k] = "idle"
  /\ dueJob
  /\ dueJob' = FALSE
  /\ Goto(k, "gate")
  /\ UNCHANGED <<rows, accepted, config, notifying, retryJob, lock, todo, snap, cur, reply>>

PickRetry(k, r) ==
  /\ pc[k] = "idle"
  /\ retryJob[r] = "todo"
  /\ retryJob' = [retryJob EXCEPT ![r] = "none"]
  /\ Goto(k, "gate")
  /\ UNCHANGED <<rows, accepted, config, notifying, dueJob, lock, todo, snap, cur, reply>>

Trigger(o) ==
  /\ pc[o] = "idle"
  /\ Goto(o, "gate")
  /\ UNCHANGED <<rows, accepted, config, notifying, queueVars, lock, todo, snap, cur, reply>>

\* pg_try_advisory_lock.  A refused worker returns "skipped": its job is done.
\* A refused operator gets 409.
TryLockBlind(p) ==
  /\ pc[p] = "gate"
  /\ lock' = p
  /\ Goto(p, "select")
  /\ UNCHANGED <<rows, accepted, config, notifying, queueVars, todo, snap, cur, reply>>

TryLock(p) ==
  /\ pc[p] = "gate"
  /\ \/ /\ lock = None
        /\ lock' = p
        /\ Goto(p, "select")
     \/ /\ lock # None
        /\ UNCHANGED lock
        /\ Goto(p, "idle")
  /\ UNCHANGED <<rows, accepted, config, notifying, queueVars, todo, snap, cur, reply>>

-------------------------------------------------------------------------------
(***************************************************************************)
(* The drain.                                                              *)
(***************************************************************************)

\* A row that was never tried has no date, and would not be read.
DueDatedOnly(row) == row.state = "pending" /\ row.retry = "due"

Due(row) == row.state = "pending" /\ row.retry # "later"

\* ORDER BY next_retry_at ASC NULLS FIRST: no dated row before an undated one.
NullsFirst(first, rest, t) ==
  (\E r \in rest : t[r].retry = "null") => \A r \in first : t[r].retry = "null"

Batches(due) ==
  { B \in SUBSET due :
      /\ Cardinality(B) = IF Cardinality(due) < BatchSize
                          THEN Cardinality(due) ELSE BatchSize
      /\ NullsFirst(B, due \ B, rows) }

SelectBatch(p) ==
  LET due == { r \in Rows : Due(rows[r]) }
  IN /\ pc[p] = "select"
     /\ \/ /\ config # "full" \/ due = {}
           /\ Goto(p, "unlock")
           /\ UNCHANGED <<todo, snap>>
        \/ /\ config = "full" /\ due # {}
           /\ \E B \in Batches(due) :
                /\ todo' = [todo EXCEPT ![p] = B]
                /\ snap' = [snap EXCEPT ![p] =
                              [r \in Rows |-> IF r \in B THEN rows[r] ELSE UnusedRow]]
           /\ Goto(p, "post")
     /\ UNCHANGED <<rows, accepted, config, notifying, queueVars, lock, cur, reply>>

\* The request reaches the receiver, or does not; an answer comes back, or not.
\* "ok" is only said of a processed key; a "busy" may hide a processed one.
Post(p, r, answer, processed) ==
  /\ pc[p] = "post"
  /\ r \in todo[p]
  /\ NullsFirst({r}, todo[p], snap[p])
  /\ answer = "ok" => processed \/ r \in accepted
  /\ answer = "rejected" => ~processed
  /\ accepted' = IF processed THEN accepted \cup {r} ELSE accepted
  /\ todo' = [todo EXCEPT ![p] = @ \ {r}]
  /\ cur' = [cur EXCEPT ![p] = r]
  /\ reply' = [reply EXCEPT ![p] = answer]
  /\ Goto(p, "record")
  /\ UNCHANGED <<rows, config, notifying, queueVars, lock, snap>>

\* attempts has no upper bound in the code; everything above MAX_ATTEMPTS is
\* treated alike, so it saturates one above.
Bump(n) == IF n > MaxAttempts THEN n ELSE n + 1

OutcomeAcksBusy(copy, answer) ==
  [copy EXCEPT !.attempts = Bump(@),
               !.state = IF answer = "rejected" THEN "pending" ELSE "delivered",
               !.retry = "null"]

\* send_one and _decide_retry on the ORM copy of the row.
Outcome(copy, answer) ==
  LET n == Bump(copy.attempts)
      again == answer = "busy" /\ n < MaxAttempts
  IN [state    |-> IF answer = "ok" THEN "delivered" ELSE copy.state,
      attempts |-> n,
      retry    |-> IF again THEN "later" ELSE "null"]

AfterRow(p) == IF todo[p] = {} THEN "unlock" ELSE "post"

\* session.commit().  If the row was deleted meanwhile the UPDATE matches
\* nothing, SQLAlchemy raises, and the rest of the batch is abandoned.
Record(p) ==
  LET r == cur[p]
  IN /\ pc[p] = "record"
     /\ \/ /\ rows[r].state = "gone"
           /\ Goto(p, "unlock")
           /\ UNCHANGED rows
           /\ todo' = [todo EXCEPT ![p] = {}]
           /\ cur' = [cur EXCEPT ![p] = None]
        \/ /\ rows[r].state # "gone"
           /\ rows' = [rows EXCEPT ![r] = Outcome(snap[p][r], reply[p])]
           /\ UNCHANGED todo
           /\ IF rows'[r].retry = "later"
              THEN Goto(p, "defer") /\ UNCHANGED cur
              ELSE Goto(p, AfterRow(p)) /\ cur' = [cur EXCEPT ![p] = None]
     /\ UNCHANGED <<accepted, config, notifying, queueVars, lock, snap, reply>>

\* notify_webhook_retry.  While an older job of the row is still todo the
\* insert raises AlreadyEnqueued and that job, due now, is all there is.
DeferRetry(p) ==
  LET r == cur[p]
  IN /\ pc[p] = "defer"
     /\ \/ /\ retryJob[r] = "none"
           /\ retryJob' = [retryJob EXCEPT ![r] = "later"]
        \/ /\ retryJob[r] # "none" \/ "queue" \in Faults
           /\ UNCHANGED retryJob
     /\ cur' = [cur EXCEPT ![p] = None]
     /\ Goto(p, AfterRow(p))
     /\ UNCHANGED <<rows, accepted, config, notifying, dueJob, lock, todo, snap, reply>>

Forget(p) ==
  /\ pc' = [pc EXCEPT ![p] = "idle"]
  /\ todo' = [todo EXCEPT ![p] = {}]
  /\ snap' = [snap EXCEPT ![p] = [r \in Rows |-> UnusedRow]]
  /\ cur' = [cur EXCEPT ![p] = None]
  /\ reply' = [reply EXCEPT ![p] = "ok"]

\* pg_advisory_unlock in the finally block.
Unlock(p) ==
  /\ pc[p] = "unlock"
  /\ lock' = None
  /\ Forget(p)
  /\ UNCHANGED <<rows, accepted, config, notifying, queueVars>>

-------------------------------------------------------------------------------
(***************************************************************************)
(* The environment.                                                        *)
(***************************************************************************)

\* The process dies; its connection closes, which drops the advisory lock.
\* Its job stays "doing" for ever: nothing runs it again.
Crash(p) ==
  /\ "crash" \in Faults
  /\ pc[p] # "idle"
  /\ lock' = IF lock = p THEN None ELSE lock
  /\ Forget(p)
  /\ UNCHANGED <<rows, accepted, config, notifying, queueVars>>

\* next_retry_at of r passes; a job scheduled at that moment becomes todo.
Tick(r) ==
  /\ rows[r].retry = "later" \/ retryJob[r] = "later"
  /\ rows' = [rows EXCEPT ![r].retry = IF @ = "later" THEN "due" ELSE @]
  /\ retryJob' = [retryJob EXCEPT ![r] = IF @ = "later" THEN "todo" ELSE @]
  /\ UNCHANGED <<accepted, config, notifying, dueJob, drainVars>>

\* The vacuum cron deletes events; ON DELETE CASCADE takes their rows.
Vacuum(S) ==
  /\ "vacuum" \in Faults
  /\ S # {}
  /\ \A r \in S : rows[r].state \in {"pending", "delivered"}
  /\ rows' = [r \in Rows |-> IF r \in S THEN GoneRow ELSE rows[r]]
  /\ UNCHANGED <<accepted, config, notifying, queueVars, drainVars>>

\* A redeploy with other settings: get_settings() is cached per process.
Redeploy(c) ==
  /\ "config" \in Faults
  /\ notifying = {}
  /\ \A p \in Drainers : pc[p] = "idle"
  /\ config' = c
  /\ UNCHANGED <<rows, accepted, notifying, queueVars, drainVars>>

-------------------------------------------------------------------------------
WriterStep(w) ==
  \/ \E S \in SUBSET Rows : CommitRows(w, S)
  \/ NotifyWorker(w)
  \/ NotifyLost(w)

PostStep(p) ==
  \E r \in Rows, answer \in Replies, processed \in BOOLEAN : Post(p, r, answer, processed)

\* What a drainer does once it has started, in order.
DrainStep(p) ==
  TryLock(p) \/ SelectBatch(p) \/ PostStep(p) \/ Record(p) \/ DeferRetry(p) \/ Unlock(p)

WorkerPicks(k) == PickDue(k) \/ \E r \in Rows : PickRetry(k, r)

Next ==
  \/ \E w \in Writers : WriterStep(w)
  \/ \E k \in Workers : WorkerPicks(k)
  \/ \E o \in Operators : Trigger(o)
  \/ \E p \in Drainers : DrainStep(p) \/ Crash(p)
  \/ \E r \in Rows : Tick(r)
  \/ \E S \in SUBSET Rows : CommitSilently(S) \/ Vacuum(S)
  \/ \E c \in {"none", "url", "full"} : Redeploy(c)

Spec == Init /\ [][Next]_vars

\* Writers and drainers are running code, Procrastinate hands a todo job to an
\* idle slot, and time passes.  Operators click when they like; crashes,
\* outages, vacuum and redeploys need never happen.
Fairness ==
  /\ \A w \in Writers : WF_vars(NotifyWorker(w) \/ NotifyLost(w))
  /\ \A k \in Workers : WF_vars(PickDue(k))
  /\ \A k \in Workers, r \in Rows : SF_vars(PickRetry(k, r))
  /\ \A p \in Drainers : WF_vars(DrainStep(p))
  /\ \A r \in Rows : WF_vars(Tick(r))

FairSpec == Spec /\ Fairness

-------------------------------------------------------------------------------
(***************************************************************************)
(* Properties.                                                             *)
(***************************************************************************)

\* Every variable stays in its type.
TypeOK ==
  /\ rows \in [Rows -> DeliveryType]
  /\ accepted \subseteq Rows
  /\ config \in {"none", "url", "full"}
  /\ notifying \subseteq Writers
  /\ dueJob \in BOOLEAN
  /\ retryJob \in [Rows -> {"none", "later", "todo"}]
  /\ lock \in Drainers \cup {None}
  /\ pc \in [Drainers -> PCs]
  /\ todo \in [Drainers -> SUBSET Rows]
  /\ snap \in [Drainers -> [Rows -> DeliveryType]]
  /\ cur \in [Drainers -> Rows \cup {None}]
  /\ reply \in [Drainers -> Replies]

Draining(p) == pc[p] \in {"select", "post", "record", "defer", "unlock"}

\* At most one process is between taking and releasing the advisory lock of
\* "webhook_deliver", through crashes, skipped jobs and manual runs: the mutex
\* that recorder.py and service.py share.
MutualExclusion ==
  \A p, q \in Drainers : Draining(p) /\ Draining(q) => p = q

\* The rows a drain has still to act on.
Pending(p) == todo[p] \cup (IF pc[p] = "record" THEN {cur[p]} ELSE {})

\* The drain works on ORM copies read once, at its SELECT, and writes absolute
\* values back up to BATCH_SIZE requests later.  No copy it will still use has
\* been overtaken: the row is as it was read, or its event was deleted.
SnapshotFresh ==
  \A p \in Drainers : \A r \in Pending(p) :
    rows[r] = snap[p][r] \/ rows[r].state = "gone"

\* delivered_at is set only for a row whose payload the receiver has processed.
DeliveredWasAccepted ==
  \A r \in Rows : rows[r].state = "delivered" => r \in accepted

\* Where each row is in its life, and the rows with a POST not yet booked.
rowStatus == [r \in Rows |-> rows[r].state]
onTheWire == { cur[p] : p \in { q \in Drainers : pc[q] = "record" } }

Ledger == INSTANCE DeliveryLedger WITH status <- rowStatus, inflight <- onTheWire

\* The queue implements its promise: no two overlapping POSTs of a row, none
\* after it was booked as delivered, booked only if processed.
LedgerSpec == Ledger!Spec

\* Somebody is still going to read the table for a row that was never tried.
Covered(r) ==
  \/ dueJob
  \/ notifying # {}
  \/ \E p \in Drainers : pc[p] \in {"gate", "select"} \/ r \in Pending(p)

\* Push on write leaves no committed row unseen: a row that was never tried
\* has a queued job, a writer about to push, or a drain about to read it.
WakeupCovered ==
  \A r \in Rows :
    rows[r].state = "pending" /\ rows[r].attempts = 0 => Covered(r)

\* Every committed delivery is attempted (notify.py: the worker picks the job
\* up "within milliseconds" of the commit).
EveryRowAttempted ==
  \A r \in Rows : rows[r].state = "pending" ~> rows[r].attempts > 0

\* The row was answered with a permanent error, or used up MAX_ATTEMPTS.
GivenUp(row) == row.state = "pending" /\ row.attempts > 0 /\ row.retry = "null"

\* deliver.py: "Permanent client error - don't retry", and MAX_ATTEMPTS: a row
\* that was given up is never attempted again.
GivenUpStaysGivenUp ==
  [][\A r \in Rows : GivenUp(rows[r]) =>
       rows'[r].state = "gone" \/ rows'[r].attempts = rows[r].attempts]_vars
===============================================================================
